--------------------------- MODULE AccountsProofs ---------------------------
(***************************************************************************)
(* Theorems about Accounts: types, unique slugs, and the two faces of the  *)
(* lookups: on any database a name is given twice by overlapping           *)
(* transactions only, and on SQLite none that overlap may both write; and  *)
(* who keeps what he has is refused only what another account has too.     *)
(***************************************************************************)
EXTENDS Accounts, TLAPS

(* The dates of an account's names are in order and in the past.           *)
NamedInThePast ==
  \A i \in Ids : user[i].there => user[i].named[1] <= user[i].named[2] /\ user[i].named[2] < commits

Called(i, n) == user[i].there /\ normalizeUsername(user[i].name) = normalizeUsername(n)

(* What a request has looked up and not found has come since it began.     *)
LooksFor(r) ==
  \A i \in Ids :
    /\ request[r].at \in {"slug", "insert"} /\ Called(i, request[r].name)
         => request[r].begun <= user[i].named[2]
    /\ request[r].at \in {"email", "write"} /\ i # request[r].id /\ Called(i, request[r].name)
         => request[r].begun <= user[i].named[2]
    /\ request[r].at = "write" /\ request[r].email # NoEmail /\ i # request[r].id
         /\ user[i].there /\ user[i].email = request[r].email
         => request[r].begun <= user[i].named[2]

LookedFor == \A r \in Requests : LooksFor(r)

AccountsInv == TypeOK /\ NamedInThePast /\ LookedFor /\ SameOnlyByOverlap

-----------------------------------------------------------------------------
(* Records of requests are what they should be.                            *)
LEMMA IdleIsLocal == Idle \in Locals
BY AccountsAssumption DEF Idle, Locals, Answers, NoEmail

(* The initial state has the types.                                        *)
LEMMA InitTypes == Init => TypeOK
<1> SUFFICES ASSUME Init PROVE TypeOK
  OBVIOUS
<1>1. NoUser \in Account
  BY DEF NoUser, Account, NoEmail
<1>2. request \in [Requests -> Locals]
  BY IdleIsLocal DEF Init
<1>3. Idle.at = "idle" /\ Idle.kind = "none" /\ Idle.begun = 0
  BY DEF Idle
<1>4. \A r \in Requests : request[r] = Idle
  BY DEF Init
<1>5. user \in [Ids -> Account] /\ lastId = 0 /\ commits = 0 /\ sent = 0 /\ \A i \in Ids : user[i] = NoUser
  BY <1>1 DEF Init
<1>6. \A r \in Requests :
       LET q == request[r] IN
       /\ q.begun <= commits
       /\ q.at \in {"slug", "insert"} => q.kind = "register"
       /\ q.at \in {"email", "write"} => q.kind = "profile"
       /\ q.kind = "register" /\ q.at # "idle" => q.name \in Names /\ q.base \in Bases
       /\ q.kind = "profile" => q.id \in 1 .. lastId
       /\ q.kind = "none" => q.at = "idle"
  <2> TAKE r \in Requests
  <2>1. request[r].at = "idle" /\ request[r].kind = "none" /\ request[r].begun = 0 /\ 0 <= commits
    BY <1>3, <1>4, <1>5
  <2> QED
    BY <2>1
<1> QED
  BY <1>2, <1>5, <1>6, AccountsAssumption DEF TypeOK

(* An answer leaves the locals of the others alone, and its own idle.      *)
LEMMA AnswerEnds ==
  ASSUME NEW r \in Requests, NEW a \in Answers, TypeOK, Answer(r, a)
  PROVE  /\ request' \in [Requests -> Locals]
         /\ request'[r].at = "idle" /\ request'[r].kind = request[r].kind /\ request'[r].id = request[r].id
         /\ request'[r].begun = request[r].begun
         /\ \A s \in Requests : s # r => request'[s] = request[s]
<1> DEFINE new == [Idle EXCEPT !.answer = a, !.kind = request[r].kind, !.name = request[r].name,
                               !.email = request[r].email, !.id = request[r].id, !.begun = request[r].begun]
<1>1. request[r] \in Locals
  BY DEF TypeOK
<1>2. new \in Locals /\ new.at = "idle" /\ new.kind = request[r].kind /\ new.id = request[r].id /\ new.begun = request[r].begun
  BY <1>1, IdleIsLocal DEF Locals, Idle
<1>3. request' = [request EXCEPT ![r] = new]
  BY DEF Answer
<1> QED
  BY <1>2, <1>3 DEF TypeOK

(* Requests are as they should be: the last part of TypeOK.                *)
Orderly ==
  \A r \in Requests :
    LET q == request[r] IN
    /\ q.begun <= commits
    /\ q.at \in {"slug", "insert"} => q.kind = "register"
    /\ q.at \in {"email", "write"} => q.kind = "profile"
    /\ q.kind = "register" /\ q.at # "idle" => q.name \in Names /\ q.base \in Bases
    /\ q.kind = "profile" => q.id \in 1 .. lastId
    /\ q.kind = "none" => q.at = "idle"

LEMMA TypesAreOrderly == TypeOK => Orderly
BY DEF TypeOK, Orderly

(* An answer, whatever the step has done to the accounts.                  *)
LEMMA AnswerIsOrderly ==
  ASSUME NEW r \in Requests, NEW a \in Answers, TypeOK, Answer(r, a), request[r].at # "idle",
         commits' \in Nat, commits <= commits', lastId' \in Nat, lastId <= lastId'
  PROVE  request' \in [Requests -> Locals] /\ Orderly'
<1>1. request' \in [Requests -> Locals]
  BY AnswerEnds
<1>2. request[r].kind # "none" /\ request[r].begun \in Nat /\ request[r].begun <= commits
       /\ (request[r].kind = "profile" => request[r].id \in 1 .. lastId)
  BY DEF TypeOK, Locals
<1>3. ASSUME NEW s \in Requests PROVE
       LET q == request'[s] IN
       /\ q.begun <= commits'
       /\ q.at \in {"slug", "insert"} => q.kind = "register"
       /\ q.at \in {"email", "write"} => q.kind = "profile"
       /\ q.kind = "register" /\ q.at # "idle" => q.name \in Names /\ q.base \in Bases
       /\ q.kind = "profile" => q.id \in 1 .. lastId'
       /\ q.kind = "none" => q.at = "idle"
  <2>1. CASE s = r
    BY <2>1, <1>2, AnswerEnds DEF TypeOK
  <2>2. CASE s # r
    <3>1. request'[s] = request[s]
      BY <2>2, AnswerEnds
    <3>2. request[s].begun \in Nat
      BY DEF TypeOK, Locals
    <3> QED
      BY <3>1, <3>2 DEF TypeOK
  <2> QED
    BY <2>1, <2>2
<1> QED
  BY <1>1, <1>3 DEF Orderly

-----------------------------------------------------------------------------
(* What the lookups have not found.                                        *)

(* Accounts may go, and come with a date of their own.                     *)
LEMMA OthersKeepLooking ==
  ASSUME NEW s \in Requests, TypeOK, LooksFor(s), request'[s] = request[s],
         \A i \in Ids : ~user'[i].there \/ user'[i] = user[i] \/ user'[i].named[2] = commits
  PROVE  LooksFor(s)'
<1>1. request[s].begun \in Nat /\ request[s].begun <= commits /\ commits \in Nat
  BY DEF TypeOK, Locals
<1> SUFFICES ASSUME NEW i \in Ids, user'[i].there
             PROVE  /\ request[s].at \in {"slug", "insert"} /\ Called(i, request[s].name)'
                        => request[s].begun <= user'[i].named[2]
                    /\ request[s].at \in {"email", "write"} /\ i # request[s].id /\ Called(i, request[s].name)'
                        => request[s].begun <= user'[i].named[2]
                    /\ request[s].at = "write" /\ request[s].email # NoEmail /\ i # request[s].id
                        /\ user'[i].there /\ user'[i].email = request[s].email
                        => request[s].begun <= user'[i].named[2]
  BY DEF LooksFor, Called
<1>2. CASE user'[i] = user[i]
  BY <1>2 DEF LooksFor, Called
<1>3. CASE user'[i].named[2] = commits
  BY <1>1, <1>3
<1> QED
  BY <1>2, <1>3

(* Who has answered looks for nothing.                                     *)
LEMMA AnsweredLooksForNothing ==
  ASSUME NEW r \in Requests, request'[r].at = "idle"
  PROVE  LooksFor(r)'
BY DEF LooksFor

LEMMA AnswerLeavesLookedFor ==
  ASSUME NEW r \in Requests, NEW a \in Answers, TypeOK, LookedFor, Answer(r, a),
         \A i \in Ids : ~user'[i].there \/ user'[i] = user[i] \/ user'[i].named[2] = commits
  PROVE  LookedFor'
<1>1. ASSUME NEW s \in Requests PROVE LooksFor(s)'
  <2>1. CASE s = r
    BY <2>1, AnswerEnds, AnsweredLooksForNothing
  <2>2. CASE s # r
    BY <2>2, AnswerEnds, OthersKeepLooking DEF LookedFor
  <2> QED
    BY <2>1, <2>2
<1> QED
  BY <1>1 DEF LookedFor

-----------------------------------------------------------------------------
(* Steps that leave the accounts alone.                                    *)

LEMMA QuietStep ==
  ASSUME AccountsInv, UNCHANGED <<user, lastId, commits>>, sent' \in 0 .. MaxSent,
         request' \in [Requests -> Locals], Orderly', LookedFor'
  PROVE  AccountsInv'
<1>1. TypeOK'
  BY DEF AccountsInv, TypeOK, Orderly
<1>2. NamedInThePast' /\ SameOnlyByOverlap'
  BY DEF AccountsInv, NamedInThePast, SameOnlyByOverlap, Same
<1> QED
  BY <1>1, <1>2 DEF AccountsInv

LEMMA QuietAnswer ==
  ASSUME AccountsInv, UNCHANGED <<user, lastId, commits, sent>>,
         NEW r \in Requests, NEW a \in Answers, request[r].at # "idle", Answer(r, a)
  PROVE  AccountsInv'
<1>1. TypeOK /\ commits' \in Nat /\ commits <= commits' /\ lastId' \in Nat /\ lastId <= lastId' /\ sent' \in 0 .. MaxSent
  BY AccountsAssumption DEF AccountsInv, TypeOK
<1>2. request' \in [Requests -> Locals] /\ Orderly'
  BY <1>1, AnswerIsOrderly
<1>3. LookedFor'
  BY <1>1, AnswerLeavesLookedFor DEF AccountsInv
<1> QED
  BY <1>1, <1>2, <1>3, QuietStep

(* A request goes on with other locals.                                    *)
LEMMA QuietAdvance ==
  ASSUME AccountsInv, UNCHANGED <<user, lastId, commits>>, sent' \in 0 .. MaxSent,
         NEW r \in Requests, NEW q \in Locals, request' = [request EXCEPT ![r] = q],
         q.begun <= commits,
         q.at \in {"slug", "insert"} => q.kind = "register",
         q.at \in {"email", "write"} => q.kind = "profile",
         q.kind = "register" /\ q.at # "idle" => q.name \in Names /\ q.base \in Bases,
         q.kind = "profile" => q.id \in 1 .. lastId,
         q.kind = "none" => q.at = "idle",
         LooksFor(r)'
  PROVE  AccountsInv'
<1>0. TypeOK /\ LookedFor
  BY DEF AccountsInv
<1>1. request'[r] = q /\ request' \in [Requests -> Locals] /\ \A s \in Requests : s # r => request'[s] = request[s]
  BY <1>0 DEF TypeOK
<1>2. Orderly'
  <2> SUFFICES ASSUME NEW s \in Requests
               PROVE  /\ request'[s].begun <= commits
                      /\ request'[s].at \in {"slug", "insert"} => request'[s].kind = "register"
                      /\ request'[s].at \in {"email", "write"} => request'[s].kind = "profile"
                      /\ request'[s].kind = "register" /\ request'[s].at # "idle"
                           => request'[s].name \in Names /\ request'[s].base \in Bases
                      /\ request'[s].kind = "profile" => request'[s].id \in 1 .. lastId
                      /\ request'[s].kind = "none" => request'[s].at = "idle"
    BY DEF Orderly
  <2>1. CASE s = r
    BY <2>1, <1>1
  <2>2. CASE s # r
    BY <2>2, <1>0, <1>1 DEF TypeOK
  <2> QED
    BY <2>1, <2>2
<1>3. LookedFor'
  <2> SUFFICES ASSUME NEW s \in Requests, s # r PROVE LooksFor(s)'
    BY DEF LookedFor
  <2> QED
    BY <1>0, <1>1, OthersKeepLooking DEF LookedFor
<1> QED
  BY <1>1, <1>2, <1>3, QuietStep

-----------------------------------------------------------------------------
(* The actions.                                                            *)

LEMMA RegisterStep ==
  ASSUME AccountsInv, NEW r \in Requests, NEW n \in Names, NEW b \in Bases, Register(r, n, b)
  PROVE  AccountsInv'
<1> DEFINE q == [Idle EXCEPT !.at = "name", !.kind = "register", !.name = n, !.base = b, !.begun = commits]
<1>1. q \in Locals /\ q.at = "name" /\ q.kind = "register" /\ q.name = n /\ q.base = b /\ q.begun = commits
  BY IdleIsLocal DEF AccountsInv, TypeOK, Locals, Idle
<1>2. request' = [request EXCEPT ![r] = q] /\ sent' \in 0 .. MaxSent /\ UNCHANGED <<user, lastId, commits>>
  BY AccountsAssumption DEF Register, Receive, AccountsInv, TypeOK
<1>3. request'[r] = q
  BY <1>2 DEF AccountsInv, TypeOK
<1>4. LooksFor(r)'
  BY <1>1, <1>3 DEF LooksFor
<1>5. q.begun <= commits
  BY <1>1 DEF AccountsInv, TypeOK
<1> HIDE DEF q
<1> QED
  BY <1>1, <1>2, <1>4, <1>5, QuietAdvance

LEMMA ProfileStep ==
  ASSUME AccountsInv, NEW r \in Requests, NEW i \in Ids, NEW n \in Names, NEW e \in Emails \cup {NoEmail},
         UpdateProfile(r, i, n, e)
  PROVE  AccountsInv'
<1> DEFINE q == [Idle EXCEPT !.at = "name", !.kind = "profile", !.id = i, !.name = n, !.email = e, !.begun = commits]
<1>1. q \in Locals /\ q.at = "name" /\ q.kind = "profile" /\ q.id = i /\ q.begun = commits
  BY IdleIsLocal DEF AccountsInv, TypeOK, Locals, Idle
<1>2. request' = [request EXCEPT ![r] = q] /\ sent' \in 0 .. MaxSent /\ UNCHANGED <<user, lastId, commits>>
  BY AccountsAssumption DEF UpdateProfile, Receive, AccountsInv, TypeOK
<1>3. request'[r] = q
  BY <1>2 DEF AccountsInv, TypeOK
<1>4. LooksFor(r)'
  BY <1>1, <1>3 DEF LooksFor
<1>5. q.begun <= commits /\ q.id \in 1 .. lastId
  BY <1>1, AccountsAssumption DEF AccountsInv, TypeOK, UpdateProfile, Ids
<1> HIDE DEF q
<1> QED
  BY <1>1, <1>2, <1>4, <1>5, QuietAdvance

LEMMA RegisterChecksStep ==
  ASSUME AccountsInv, NEW r \in Requests, RegisterChecks(r)
  PROVE  AccountsInv'
<1>1. CASE Owners(request[r].name) # {}
  <2>1. Answer(r, "conflict") /\ UNCHANGED <<user, lastId, commits, sent>> /\ request[r].at # "idle"
    BY <1>1 DEF RegisterChecks
  <2>2. "conflict" \in Answers
    BY DEF Answers
  <2> QED
    BY <2>1, <2>2, QuietAnswer
<1>2. CASE Owners(request[r].name) = {}
  <2> DEFINE q == [request[r] EXCEPT !.at = "slug", !.begun = commits]
  <2>1. request[r] \in Locals /\ request[r].kind = "register" /\ request[r].at = "name" /\ commits \in Nat
    BY DEF RegisterChecks, AccountsInv, TypeOK
  <2>2. q \in Locals /\ q.at = "slug" /\ q.kind = "register" /\ q.name = request[r].name /\ q.base = request[r].base
        /\ q.begun = commits
    BY <2>1 DEF Locals
  <2>3. request' = [request EXCEPT ![r] = q] /\ UNCHANGED <<user, lastId, commits, sent>>
    BY <1>2 DEF RegisterChecks
  <2>4. request'[r] = q
    BY <2>3 DEF AccountsInv, TypeOK
  <2>5. \A i \in Ids : ~Called(i, request[r].name)
    BY <1>2 DEF Called, Owners
  <2>6. LooksFor(r)'
    BY <2>2, <2>3, <2>4, <2>5 DEF LooksFor, Called
  <2>7. sent' \in 0 .. MaxSent /\ q.name \in Names /\ q.base \in Bases /\ q.begun <= commits
    BY <2>1, <2>2, <2>3 DEF AccountsInv, TypeOK
  <2> HIDE DEF q
  <2> QED
    BY <2>2, <2>3, <2>6, <2>7, QuietAdvance
<1> QED
  BY <1>1, <1>2

LEMMA TrySlugStep ==
  ASSUME AccountsInv, NEW r \in Requests, TrySlug(r)
  PROVE  AccountsInv'
<1>0. /\ request[r] \in Locals /\ request[r].kind = "register" /\ request[r].at = "slug"
      /\ request[r].begun <= commits /\ request[r].name \in Names /\ request[r].base \in Bases
      /\ UNCHANGED <<user, lastId, commits, sent>> /\ sent' \in 0 .. MaxSent
  BY DEF TrySlug, AccountsInv, TypeOK
<1>1. ASSUME NEW q \in Locals, request' = [request EXCEPT ![r] = q], q.at \in {"slug", "insert"}, q.kind = "register",
             q.name = request[r].name, q.base = request[r].base, q.begun = request[r].begun
      PROVE  AccountsInv'
  <2>1. request'[r] = q
    BY <1>1 DEF AccountsInv, TypeOK
  <2>2. LooksFor(r)
    BY DEF AccountsInv, LookedFor
  <2>3. LooksFor(r)'
    BY <1>0, <1>1, <2>1, <2>2 DEF LooksFor, Called
  <2> QED
    BY <1>0, <1>1, <2>3, QuietAdvance
<1>2. CASE Go(r, "insert")
  <2> DEFINE q == [request[r] EXCEPT !.at = "insert"]
  <2>1. q \in Locals /\ q.at = "insert" /\ q.kind = "register" /\ q.name = request[r].name /\ q.base = request[r].base
        /\ q.begun = request[r].begun
    BY <1>0 DEF Locals
  <2>2. request' = [request EXCEPT ![r] = q]
    BY <1>2 DEF Go
  <2> HIDE DEF q
  <2> QED
    BY <1>1, <2>1, <2>2
<1>3. CASE request[r].cand < MaxSlugs /\ request' = [request EXCEPT ![r].cand = @ + 1]
  <2> DEFINE next == request[r].cand + 1
             q == [request[r] EXCEPT !.cand = next]
  <2>a. request[r].cand \in 1 .. MaxSlugs /\ MaxSlugs \in Nat
    BY <1>0, AccountsAssumption DEF Locals
  <2>b. request[r].cand < MaxSlugs
    BY <1>3
  <2>0. next \in 1 .. MaxSlugs
    BY <2>a, <2>b
  <2> HIDE DEF next
  <2>1. q \in Locals /\ q.at = "slug" /\ q.kind = "register" /\ q.name = request[r].name /\ q.base = request[r].base
        /\ q.begun = request[r].begun
    BY <1>0, <2>0 DEF Locals
  <2>2. request' = [request EXCEPT ![r] = q]
    BY <1>3 DEF next
  <2> HIDE DEF q
  <2> QED
    BY <1>1, <2>1, <2>2
<1>4. CASE Answer(r, "no slug")
  <2>1. "no slug" \in Answers /\ request[r].at # "idle"
    BY <1>0 DEF Answers
  <2> QED
    BY <1>0, <1>4, <2>1, QuietAnswer
<1> QED
  BY <1>2, <1>3, <1>4 DEF TrySlug

LEMMA ProfileChecksNameStep ==
  ASSUME AccountsInv, NEW r \in Requests, ProfileChecksName(r)
  PROVE  AccountsInv'
<1>0. /\ request[r] \in Locals /\ request[r].kind = "profile" /\ request[r].at = "name"
      /\ request[r].id \in 1 .. lastId /\ commits \in Nat
      /\ UNCHANGED <<user, lastId, commits, sent>> /\ sent' \in 0 .. MaxSent
  BY DEF ProfileChecksName, AccountsInv, TypeOK
<1>1. ASSUME NEW a \in {"not found", "conflict"}, Answer(r, a)
      PROVE  AccountsInv'
  <2>1. a \in Answers /\ request[r].at # "idle"
    BY <1>0 DEF Answers
  <2> QED
    BY <1>0, <1>1, <2>1, QuietAnswer
<1>2. CASE /\ Owners(request[r].name) \ {request[r].id} = {}
           /\ request' = [request EXCEPT ![r].at = IF request[r].email = NoEmail THEN "write" ELSE "email",
                                         ![r].begun = commits]
  <2> DEFINE at == IF request[r].email = NoEmail THEN "write" ELSE "email"
             q == [request[r] EXCEPT !.at = at, !.begun = commits]
  <2>1. at \in {"email", "write"} /\ (at = "write" => request[r].email = NoEmail)
    OBVIOUS
  <2>2. request' = [request EXCEPT ![r] = q]
    BY <1>2
  <2> HIDE DEF at
  <2>3. q \in Locals /\ q.at = at /\ q.kind = "profile" /\ q.id = request[r].id /\ q.begun = commits
        /\ q.name = request[r].name /\ q.email = request[r].email
    BY <1>0, <2>1 DEF Locals
  <2> HIDE DEF q
  <2>4. request'[r] = q
    BY <2>2 DEF AccountsInv, TypeOK
  <2>5. \A i \in Ids : i # request[r].id => ~Called(i, request[r].name)
    BY <1>2 DEF Called, Owners
  <2>6. LooksFor(r)'
    BY <1>0, <2>1, <2>3, <2>4, <2>5 DEF LooksFor, Called
  <2>7. q.begun <= commits
    BY <1>0, <2>3
  <2> QED
    BY <1>0, <2>1, <2>2, <2>3, <2>6, <2>7, QuietAdvance
<1> QED
  BY <1>1, <1>2 DEF ProfileChecksName

LEMMA ProfileChecksEmailStep ==
  ASSUME AccountsInv, NEW r \in Requests, ProfileChecksEmail(r)
  PROVE  AccountsInv'
<1>0. /\ request[r] \in Locals /\ request[r].kind = "profile" /\ request[r].at = "email"
      /\ request[r].id \in 1 .. lastId /\ commits \in Nat /\ request[r].begun <= commits
      /\ UNCHANGED <<user, lastId, commits, sent>> /\ sent' \in 0 .. MaxSent
  BY DEF ProfileChecksEmail, AccountsInv, TypeOK
<1>1. CASE Answer(r, "conflict")
  <2>1. "conflict" \in Answers /\ request[r].at # "idle"
    BY <1>0 DEF Answers
  <2> QED
    BY <1>0, <1>1, <2>1, QuietAnswer
<1>2. CASE Holders(request[r].email) \ {request[r].id} = {} /\ Go(r, "write")
  <2> DEFINE q == [request[r] EXCEPT !.at = "write"]
  <2>1. q \in Locals /\ q.at = "write" /\ q.kind = "profile" /\ q.id = request[r].id /\ q.begun = request[r].begun
        /\ q.name = request[r].name /\ q.email = request[r].email
    BY <1>0 DEF Locals
  <2>2. request' = [request EXCEPT ![r] = q]
    BY <1>2 DEF Go
  <2> HIDE DEF q
  <2>3. request'[r] = q
    BY <2>2 DEF AccountsInv, TypeOK
  <2>4. \A i \in Ids : i # request[r].id => ~(user[i].there /\ user[i].email = request[r].email)
    BY <1>2 DEF Holders
  <2>5. LooksFor(r)
    BY DEF AccountsInv, LookedFor
  <2>6. LooksFor(r)'
    BY <1>0, <2>1, <2>3, <2>4, <2>5 DEF LooksFor, Called
  <2> QED
    BY <1>0, <2>1, <2>2, <2>6, QuietAdvance
<1> QED
  BY <1>1, <1>2 DEF ProfileChecksEmail

LEMMA CrashStep ==
  ASSUME AccountsInv, Crash
  PROVE  AccountsInv'
<1>0. TypeOK /\ LookedFor /\ UNCHANGED <<user, lastId, commits, sent>>
  BY DEF AccountsInv, Crash
<1>1. \A s \in Requests : request'[s] = Idle \/ request'[s] = request[s]
  BY DEF Crash
<1>2. request' \in [Requests -> Locals]
  BY <1>0, IdleIsLocal DEF Crash, TypeOK
<1>3. Idle.at = "idle" /\ Idle.kind = "none" /\ Idle.begun = 0
  BY DEF Idle
<1>4. Orderly'
  <2> SUFFICES ASSUME NEW s \in Requests
               PROVE  /\ request'[s].begun <= commits
                      /\ request'[s].at \in {"slug", "insert"} => request'[s].kind = "register"
                      /\ request'[s].at \in {"email", "write"} => request'[s].kind = "profile"
                      /\ request'[s].kind = "register" /\ request'[s].at # "idle"
                           => request'[s].name \in Names /\ request'[s].base \in Bases
                      /\ request'[s].kind = "profile" => request'[s].id \in 1 .. lastId
                      /\ request'[s].kind = "none" => request'[s].at = "idle"
    BY <1>0 DEF Orderly
  <2>1. CASE request'[s] = Idle
    BY <2>1, <1>0, <1>3 DEF TypeOK
  <2>2. CASE request'[s] = request[s]
    BY <2>2, <1>0 DEF TypeOK
  <2> QED
    BY <1>1, <2>1, <2>2
<1>5. ASSUME NEW s \in Requests PROVE LooksFor(s)'
  <2>1. CASE request'[s] = Idle
    BY <2>1, <1>3, AnsweredLooksForNothing
  <2>2. CASE request'[s] = request[s]
    BY <2>2, <1>0, OthersKeepLooking DEF LookedFor
  <2> QED
    BY <1>1, <2>1, <2>2
<1>6. sent' \in 0 .. MaxSent
  BY <1>0 DEF TypeOK
<1> QED
  BY <1>0, <1>2, <1>4, <1>5, <1>6, QuietStep DEF LookedFor

-----------------------------------------------------------------------------
(* Steps that write.                                                       *)

(* One account k is written, by a request whose lookups hold.              *)
LEMMA WrittenByOverlap ==
  ASSUME AccountsInv, NEW k \in Ids, NEW b \in Nat, b <= commits, commits' = commits + 1,
         user'[k].named = <<b, commits>>,
         \A i \in Ids : i # k => user'[i] = user[i],
         \A i \in Ids : i # k /\ user'[i].there /\ Same(i, k)' => b <= user[i].named[2]
  PROVE  NamedInThePast' /\ SameOnlyByOverlap'
<1>0. /\ NamedInThePast /\ SameOnlyByOverlap /\ commits \in Nat
      /\ \A i \in Ids : user[i].named[1] \in Nat /\ user[i].named[2] \in Nat
  BY DEF AccountsInv, TypeOK, Account
<1>1. user'[k].named[1] = b /\ user'[k].named[2] = commits
  OBVIOUS
<1>2. NamedInThePast'
  <2> SUFFICES ASSUME NEW i \in Ids, user'[i].there
               PROVE  user'[i].named[1] <= user'[i].named[2] /\ user'[i].named[2] < commits'
    BY DEF NamedInThePast
  <2>1. CASE i = k
    BY <1>0, <1>1, <2>1
  <2>2. CASE i # k
    BY <1>0, <2>2 DEF NamedInThePast
  <2> QED
    BY <2>1, <2>2
<1>3. ASSUME NEW i \in Ids, i # k, user'[i].there
      PROVE  user'[i] = user[i] /\ user[i].named[1] <= commits
  BY <1>0, <1>3 DEF NamedInThePast
<1>4. \A i \in Ids : Same(i, k)' <=> Same(k, i)'
  BY DEF Same
<1>5. SameOnlyByOverlap'
  <2> SUFFICES ASSUME NEW i \in Ids, NEW j \in Ids, user'[i].there, user'[j].there, i # j, Same(i, j)'
               PROVE  user'[i].named[1] <= user'[j].named[2] /\ user'[j].named[1] <= user'[i].named[2]
    BY DEF SameOnlyByOverlap
  <2>1. CASE i = k
    BY <1>1, <1>3, <1>4, <2>1
  <2>2. CASE j = k
    BY <1>1, <1>3, <2>2
  <2>3. CASE i # k /\ j # k
    <3>1. user'[i] = user[i] /\ user'[j] = user[j] /\ Same(i, j)
      BY <2>3 DEF Same
    <3> QED
      BY <1>0, <3>1 DEF SameOnlyByOverlap
  <2> QED
    BY <2>1, <2>2, <2>3
<1> QED
  BY <1>2, <1>5

LEMMA WriteStep ==
  ASSUME AccountsInv, NEW r \in Requests, request[r].at # "idle", Answer(r, "ok"), commits' = commits + 1,
         user' \in [Ids -> Account], lastId' \in 0 .. MaxUsers, lastId <= lastId', sent' = sent,
         \A i \in Ids : i > lastId' => user'[i] = NoUser,
         \A i \in Ids : ~user'[i].there \/ user'[i] = user[i] \/ user'[i].named[2] = commits,
         NamedInThePast', SameOnlyByOverlap'
  PROVE  AccountsInv'
<1>1. TypeOK /\ LookedFor /\ commits' \in Nat /\ commits <= commits' /\ "ok" \in Answers
      /\ lastId' \in Nat /\ sent' \in 0 .. MaxSent
  BY AccountsAssumption DEF AccountsInv, TypeOK, Answers
<1>2. request' \in [Requests -> Locals] /\ Orderly'
  BY <1>1, AnswerIsOrderly
<1>3. LookedFor'
  BY <1>1, AnswerLeavesLookedFor
<1>4. TypeOK'
  BY <1>1, <1>2 DEF TypeOK, Orderly
<1> QED
  BY <1>3, <1>4 DEF AccountsInv

LEMMA InsertStep ==
  ASSUME AccountsInv, NEW r \in Requests, Insert(r)
  PROVE  AccountsInv'
<1>a. request[r] \in Locals /\ request[r].at = "insert" /\ commits \in Nat /\ lastId \in 0 .. MaxUsers /\ Orderly
  BY TypesAreOrderly DEF Insert, AccountsInv, TypeOK
<1>b. request[r].begun \in Nat /\ request[r].cand \in 1 .. MaxSlugs
  BY <1>a DEF Locals
<1>c. request[r].cand \in Nat
  BY <1>b, AccountsAssumption
<1>0. /\ request[r] \in Locals /\ request[r].at = "insert" /\ request[r].kind = "register"
      /\ request[r].name \in Names /\ request[r].base \in Bases
      /\ request[r].begun \in Nat /\ request[r].begun <= commits /\ commits \in Nat /\ lastId \in Nat
      /\ request[r].cand \in Nat
  BY <1>a, <1>b, <1>c, AccountsAssumption DEF Orderly
<1>1. CASE Answer(r, "error") /\ UNCHANGED <<user, lastId, commits>>
  <2>1. "error" \in Answers /\ UNCHANGED sent
    BY DEF Answers, Insert
  <2> QED
    BY <1>0, <1>1, <2>1, QuietAnswer
<1>2. CASE /\ lastId < MaxUsers
           /\ lastId' = lastId + 1 /\ commits' = commits + 1
           /\ user' = [user EXCEPT ![lastId + 1] =
                         [there |-> TRUE, name |-> request[r].name, email |-> NoEmail,
                          named |-> <<request[r].begun, commits>>, slug |-> Slug(request[r].base, request[r].cand)]]
           /\ Answer(r, "ok")
  <2>a. lastId + 1 \in Ids
    BY <1>0, <1>2, AccountsAssumption DEF Ids
  <2>b. PICK k \in Ids : k = lastId + 1
    BY <2>a
  <2> DEFINE new == [there |-> TRUE, name |-> request[r].name, email |-> NoEmail,
                     named |-> <<request[r].begun, commits>>, slug |-> Slug(request[r].base, request[r].cand)]
  <2>1. lastId' \in 0 .. MaxUsers /\ lastId <= lastId' /\ sent' = sent
    BY <1>0, <1>2, AccountsAssumption DEF Ids, Insert
  <2>2. Slug(request[r].base, request[r].cand) \in Seq(Nat)
    <3>1. request[r].base \in Seq(Nat)
      BY <1>0, AccountsAssumption
    <3>2. Append(request[r].base, request[r].cand) \in Seq(Nat)
      BY <1>0, <3>1
    <3> QED
      BY <3>1, <3>2 DEF Slug
  <2>3. new \in Account /\ new.there /\ new.name = request[r].name /\ new.email = NoEmail
        /\ new.named = <<request[r].begun, commits>>
    BY <1>0, <2>2 DEF Account
  <2> HIDE DEF new
  <2>4. user' \in [Ids -> Account] /\ user'[k] = new /\ \A i \in Ids : i # k => user'[i] = user[i]
    BY <1>2, <2>b, <2>3 DEF AccountsInv, TypeOK, new
  <2>5. \A i \in Ids : i > lastId' => user'[i] = NoUser
    BY <1>0, <1>2, <2>b, <2>4 DEF AccountsInv, TypeOK, Ids
  <2>6. LooksFor(r)
    BY DEF AccountsInv, LookedFor
  <2>7. \A i \in Ids : i # k /\ user'[i].there /\ Same(i, k)' => request[r].begun <= user[i].named[2]
    BY <1>0, <2>3, <2>4, <2>6 DEF LooksFor, Called, Same
  <2>8. NamedInThePast' /\ SameOnlyByOverlap'
    BY <1>0, <1>2, <2>1, <2>3, <2>4, <2>7, WrittenByOverlap
  <2>9. \A i \in Ids : ~user'[i].there \/ user'[i] = user[i] \/ user'[i].named[2] = commits
    BY <2>3, <2>4
  <2> QED
    BY <1>0, <1>2, <2>1, <2>4, <2>5, <2>8, <2>9, WriteStep
<1> QED
  BY <1>1, <1>2 DEF Insert

LEMMA ProfileWritesStep ==
  ASSUME AccountsInv, NEW r \in Requests, ProfileWrites(r)
  PROVE  AccountsInv'
<1>0. /\ request[r] \in Locals /\ request[r].at = "write" /\ request[r].kind = "profile"
      /\ request[r].id \in 1 .. lastId /\ request[r].begun \in Nat /\ request[r].begun <= commits
      /\ commits \in Nat /\ lastId \in 0 .. MaxUsers /\ UNCHANGED <<lastId, sent>>
  BY DEF ProfileWrites, AccountsInv, TypeOK, Locals
<1>1. ASSUME NEW a \in {"error", "not found"}, Answer(r, a), UNCHANGED <<user, commits>>
      PROVE  AccountsInv'
  <2>1. a \in Answers /\ request[r].at # "idle"
    BY <1>0 DEF Answers
  <2> QED
    BY <1>0, <1>1, <2>1, QuietAnswer
<1>2. CASE /\ user' = [user EXCEPT ![request[r].id].name = request[r].name, ![request[r].id].email = request[r].email,
                                   ![request[r].id].named = <<request[r].begun, commits>>]
           /\ commits' = commits + 1
           /\ Answer(r, "ok")
  <2>a. request[r].id \in Ids
    BY <1>0, AccountsAssumption DEF Ids
  <2>b. PICK k \in Ids : k = request[r].id
    BY <2>a
  <2> DEFINE new == [user[k] EXCEPT !.name = request[r].name, !.email = request[r].email,
                                    !.named = <<request[r].begun, commits>>]
  <2>1. k <= lastId /\ lastId' \in 0 .. MaxUsers /\ lastId <= lastId' /\ sent' = sent /\ user[k] \in Account
    BY <1>0, <2>b, AccountsAssumption DEF Ids, AccountsInv, TypeOK
  <2>2. new \in Account /\ new.name = request[r].name /\ new.email = request[r].email
        /\ new.named = <<request[r].begun, commits>>
    BY <1>0, <2>1 DEF Account, Locals
  <2>3. user' = [user EXCEPT ![k] = new]
    BY <1>2, <2>b
  <2> HIDE DEF new
  <2>4. user' \in [Ids -> Account] /\ user'[k] = new /\ \A i \in Ids : i # k => user'[i] = user[i]
    BY <2>1, <2>2, <2>3 DEF AccountsInv, TypeOK
  <2>5. \A i \in Ids : i > lastId' => user'[i] = NoUser
    BY <1>0, <2>1, <2>4 DEF AccountsInv, TypeOK, Ids
  <2>6. LooksFor(r)
    BY DEF AccountsInv, LookedFor
  <2>7. \A i \in Ids : i # k /\ user'[i].there /\ Same(i, k)' => request[r].begun <= user[i].named[2]
    BY <1>0, <2>b, <2>2, <2>4, <2>6 DEF LooksFor, Called, Same
  <2>8. NamedInThePast' /\ SameOnlyByOverlap'
    BY <1>0, <1>2, <2>1, <2>2, <2>4, <2>7, WrittenByOverlap
  <2>9. \A i \in Ids : ~user'[i].there \/ user'[i] = user[i] \/ user'[i].named[2] = commits
    BY <2>2, <2>4
  <2> QED
    BY <1>0, <1>2, <2>1, <2>4, <2>5, <2>8, <2>9, WriteStep
<1> QED
  BY <1>1, <1>2 DEF ProfileWrites

LEMMA DeleteTenantStep ==
  ASSUME AccountsInv, NEW k \in Ids, DeleteTenant(k)
  PROVE  AccountsInv'
<1>0. /\ TypeOK /\ Orderly /\ LookedFor /\ NamedInThePast /\ SameOnlyByOverlap
      /\ commits \in Nat /\ commits' = commits + 1 /\ UNCHANGED <<lastId, request, sent>>
      /\ user' = [user EXCEPT ![k] = NoUser]
  BY TypesAreOrderly DEF AccountsInv, TypeOK, DeleteTenant
<1>1. NoUser \in Account /\ ~NoUser.there
  BY DEF NoUser, Account, NoEmail
<1>2. user' \in [Ids -> Account] /\ \A i \in Ids : user'[i] = NoUser \/ user'[i] = user[i]
  BY <1>0, <1>1 DEF TypeOK
<1>3. NamedInThePast'
  <2> SUFFICES ASSUME NEW i \in Ids, user'[i].there
               PROVE  user'[i].named[1] <= user'[i].named[2] /\ user'[i].named[2] < commits'
    BY DEF NamedInThePast
  <2>1. user'[i] = user[i] /\ user[i].there
    BY <1>1, <1>2
  <2>2. user[i].named[1] \in Nat /\ user[i].named[2] \in Nat
    BY <1>0 DEF TypeOK, Account
  <2> QED
    BY <1>0, <2>1, <2>2 DEF NamedInThePast
<1>4. SameOnlyByOverlap'
  <2> SUFFICES ASSUME NEW i \in Ids, NEW j \in Ids, user'[i].there, user'[j].there, i # j, Same(i, j)'
               PROVE  user'[i].named[1] <= user'[j].named[2] /\ user'[j].named[1] <= user'[i].named[2]
    BY DEF SameOnlyByOverlap
  <2>1. user'[i] = user[i] /\ user'[j] = user[j]
    BY <1>1, <1>2
  <2>2. Same(i, j)
    BY <2>1 DEF Same
  <2> QED
    BY <1>0, <2>1, <2>2 DEF SameOnlyByOverlap
<1>5. LookedFor'
  <2>1. \A i \in Ids : ~user'[i].there \/ user'[i] = user[i] \/ user'[i].named[2] = commits
    BY <1>1, <1>2
  <2>2. ASSUME NEW s \in Requests PROVE LooksFor(s)'
    BY <1>0, <2>1, OthersKeepLooking DEF LookedFor
  <2> QED
    BY <2>2 DEF LookedFor
<1>6. Orderly'
  <2> SUFFICES ASSUME NEW s \in Requests PROVE request[s].begun <= commits'
    BY <1>0 DEF Orderly
  <2>1. request[s].begun \in Nat /\ request[s].begun <= commits
    BY <1>0 DEF TypeOK, Locals
  <2> QED
    BY <1>0, <2>1
<1>7. TypeOK'
  <2>1. \A i \in Ids : i > lastId' => user'[i] = NoUser
    BY <1>0, <1>2 DEF TypeOK
  <2>2. commits' \in Nat
    BY <1>0
  <2> QED
    BY <1>0, <1>2, <1>6, <2>1, <2>2 DEF TypeOK, Orderly
<1> QED
  BY <1>3, <1>4, <1>5, <1>7 DEF AccountsInv

LEMMA StutterStep ==
  ASSUME AccountsInv, UNCHANGED vars
  PROVE  AccountsInv'
<1>1. request' \in [Requests -> Locals] /\ Orderly' /\ sent' \in 0 .. MaxSent /\ UNCHANGED <<user, lastId, commits>>
  BY TypesAreOrderly DEF AccountsInv, TypeOK, Orderly, vars
<1>2. LookedFor'
  BY DEF AccountsInv, LookedFor, LooksFor, Called, vars
<1> QED
  BY <1>1, <1>2, QuietStep

-----------------------------------------------------------------------------
(* The theorems.                                                           *)

LEMMA AccountsInvHolds == Spec => []AccountsInv
<1>1. Init => AccountsInv
  <2> SUFFICES ASSUME Init PROVE AccountsInv
    OBVIOUS
  <2>1. \A i \in Ids : ~user[i].there
    BY DEF Init, NoUser
  <2>2. \A r \in Requests : request[r].at = "idle"
    BY DEF Init, Idle
  <2>3. NamedInThePast /\ SameOnlyByOverlap
    BY <2>1 DEF NamedInThePast, SameOnlyByOverlap
  <2>4. LookedFor
    BY <2>2 DEF LookedFor, LooksFor
  <2> QED
    BY <2>3, <2>4, InitTypes DEF AccountsInv
<1>2. AccountsInv /\ [Next]_vars => AccountsInv'
  <2> SUFFICES ASSUME AccountsInv, [Next]_vars PROVE AccountsInv'
    OBVIOUS
  <2>1. ASSUME NEW r \in Requests, NEW n \in Names, NEW b \in Bases, Register(r, n, b) PROVE AccountsInv'
    BY <2>1, RegisterStep
  <2>2. ASSUME NEW r \in Requests, RegisterChecks(r) PROVE AccountsInv'
    BY <2>2, RegisterChecksStep
  <2>3. ASSUME NEW r \in Requests, TrySlug(r) PROVE AccountsInv'
    BY <2>3, TrySlugStep
  <2>4. ASSUME NEW r \in Requests, Insert(r) PROVE AccountsInv'
    BY <2>4, InsertStep
  <2>5. ASSUME NEW r \in Requests, NEW i \in Ids, NEW n \in Names, NEW e \in Emails \cup {NoEmail},
               UpdateProfile(r, i, n, e)
        PROVE  AccountsInv'
    BY <2>5, ProfileStep
  <2>6. ASSUME NEW r \in Requests, ProfileChecksName(r) PROVE AccountsInv'
    BY <2>6, ProfileChecksNameStep
  <2>7. ASSUME NEW r \in Requests, ProfileChecksEmail(r) PROVE AccountsInv'
    BY <2>7, ProfileChecksEmailStep
  <2>8. ASSUME NEW r \in Requests, ProfileWrites(r) PROVE AccountsInv'
    BY <2>8, ProfileWritesStep
  <2>9. ASSUME NEW i \in Ids, DeleteTenant(i) PROVE AccountsInv'
    BY <2>9, DeleteTenantStep
  <2>10. CASE Crash
    BY <2>10, CrashStep
  <2>11. CASE UNCHANGED vars
    BY <2>11, StutterStep
  <2> QED
    BY <2>1, <2>2, <2>3, <2>4, <2>5, <2>6, <2>7, <2>8, <2>9, <2>10, <2>11 DEF Next
<1> QED
  BY <1>1, <1>2, PTL DEF Spec

(* Accounts and requests keep their types.                                 *)
THEOREM AccountsTypes == Spec => []TypeOK
BY AccountsInvHolds, PTL DEF AccountsInv

(* On any of the databases, a name or an e-mail is given to two accounts   *)
(* by overlapping transactions only.                                       *)
THEOREM SameByOverlap == Spec => []SameOnlyByOverlap
BY AccountsInvHolds, PTL DEF AccountsInv

-----------------------------------------------------------------------------
(* What is kept of each transaction, and what sets two of them apart.      *)

(* On SQLite a transaction writes if nobody has written since it began, so *)
(* that no two of them write at one time.                                  *)
Serial ==
  SQLite =>
    /\ \A i \in Ids : user[i].there => user[i].named[1] = user[i].named[2]
    /\ \A i, j \in Ids : user[i].there /\ user[j].there /\ i # j => user[i].named[2] # user[j].named[2]

Apart == Serial /\ SlugsAreUnique

(* A step by which no account is written, though some may go.              *)
LEMMA ApartIsKept ==
  ASSUME Apart, \A i \in Ids : ~user'[i].there \/ user'[i] = user[i]
  PROVE  Apart'
<1>1. ASSUME SQLite PROVE Serial'
  BY <1>1 DEF Apart, Serial
<1>2. SlugsAreUnique'
  BY DEF Apart, SlugsAreUnique
<1>3. Serial'
  BY <1>1 DEF Serial
<1> QED
  BY <1>2, <1>3 DEF Apart

(* A step that writes one account, whose slug is no other one's.           *)
LEMMA ApartIsWritten ==
  ASSUME AccountsInv, Apart, NEW k \in Ids, NEW b \in Nat, MayWrite(b), user'[k].named = <<b, commits>>,
         \A i \in Ids : i # k => user'[i] = user[i],
         \A i \in Ids : i # k /\ user[i].there => user[i].slug # user'[k].slug
  PROVE  Apart'
<1>1. \A i \in Ids : i # k /\ user'[i].there => user'[i].named[2] # commits
  <2> SUFFICES ASSUME NEW i \in Ids, i # k, user'[i].there PROVE user'[i].named[2] # commits
    OBVIOUS
  <2>1. user'[i] = user[i] /\ user[i].named[2] \in Nat /\ commits \in Nat
    BY DEF AccountsInv, TypeOK, Account
  <2> QED
    BY <2>1 DEF AccountsInv, NamedInThePast
<1>2. user'[k].named[1] = b /\ user'[k].named[2] = commits
  OBVIOUS
<1>3. ASSUME SQLite PROVE Serial'
  <2>1. b = commits
    BY <1>3 DEF MayWrite
  <2>2. \A i \in Ids : user'[i].there => user'[i].named[1] = user'[i].named[2]
    BY <1>2, <1>3, <2>1 DEF Apart, Serial
  <2>3. ASSUME NEW i \in Ids, NEW j \in Ids, user'[i].there, user'[j].there, i # j
        PROVE  user'[i].named[2] # user'[j].named[2]
    BY <1>1, <1>2, <1>3, <2>3 DEF Apart, Serial
  <2> QED
    BY <2>2, <2>3 DEF Serial
<1>4. Serial'
  BY <1>3 DEF Serial
<1>5. SlugsAreUnique'
  BY DEF Apart, SlugsAreUnique
<1> QED
  BY <1>4, <1>5 DEF Apart

(* An insertion is refused where the slug is taken.                        *)
LEMMA InsertApart ==
  ASSUME AccountsInv, Apart, NEW r \in Requests, Insert(r)
  PROVE  Apart'
<1>1. CASE UNCHANGED user
  BY <1>1, ApartIsKept
<1>2. CASE /\ MayWrite(request[r].begun) /\ Slug(request[r].base, request[r].cand) \notin Slugs
           /\ lastId < MaxUsers
           /\ user' = [user EXCEPT ![lastId + 1] =
                         [there |-> TRUE, name |-> request[r].name, email |-> NoEmail,
                          named |-> <<request[r].begun, commits>>, slug |-> Slug(request[r].base, request[r].cand)]]
  <2>1. request[r] \in Locals /\ lastId \in 0 .. MaxUsers /\ user \in [Ids -> Account]
    BY DEF AccountsInv, TypeOK
  <2>a. request[r].begun \in Nat
    BY <2>1 DEF Locals
  <2>b. lastId + 1 \in Ids
    BY <1>2, <2>1, AccountsAssumption DEF Ids
  <2>2. lastId + 1 \in Ids /\ request[r].begun \in Nat
    BY <2>a, <2>b
  <2>3. PICK k \in Ids : k = lastId + 1
    BY <2>2
  <2>4. /\ user'[k].named = <<request[r].begun, commits>>
        /\ user'[k].slug = Slug(request[r].base, request[r].cand)
        /\ \A i \in Ids : i # k => user'[i] = user[i]
    BY <1>2, <2>1, <2>3
  <2>5. \A i \in Ids : user[i].there => user[i].slug # user'[k].slug
    BY <1>2, <2>4 DEF Slugs
  <2> QED
    BY <1>2, <2>2, <2>4, <2>5, ApartIsWritten
<1> QED
  BY <1>1, <1>2 DEF Insert

(* A profile keeps the slug.                                               *)
LEMMA ProfileWritesApart ==
  ASSUME AccountsInv, Apart, NEW r \in Requests, ProfileWrites(r)
  PROVE  Apart'
<1>1. CASE UNCHANGED user
  BY <1>1, ApartIsKept
<1>2. CASE /\ MayWrite(request[r].begun) /\ user[request[r].id].there
           /\ user' = [user EXCEPT ![request[r].id].name = request[r].name, ![request[r].id].email = request[r].email,
                                   ![request[r].id].named = <<request[r].begun, commits>>]
  <2>1. request[r] \in Locals /\ request[r].id \in 1 .. lastId /\ lastId \in 0 .. MaxUsers /\ user \in [Ids -> Account]
    BY DEF AccountsInv, TypeOK, ProfileWrites
  <2>a. request[r].begun \in Nat
    BY <2>1 DEF Locals
  <2>b. request[r].id \in Ids
    BY <2>1, AccountsAssumption DEF Ids
  <2>2. request[r].id \in Ids /\ request[r].begun \in Nat
    BY <2>a, <2>b
  <2>3. PICK k \in Ids : k = request[r].id
    BY <2>2
  <2>4. user[k] \in Account /\ user[k].there
    BY <1>2, <2>1, <2>3
  <2>5. user' = [user EXCEPT ![k] = [user[k] EXCEPT !.name = request[r].name, !.email = request[r].email,
                                                    !.named = <<request[r].begun, commits>>]]
    BY <1>2, <2>3
  <2>6. /\ user'[k].named = <<request[r].begun, commits>>
        /\ user'[k].slug = user[k].slug
        /\ \A i \in Ids : i # k => user'[i] = user[i]
    BY <2>1, <2>4, <2>5 DEF Account
  <2>7. \A i \in Ids : i # k /\ user[i].there => user[i].slug # user'[k].slug
    BY <2>4, <2>6 DEF Apart, SlugsAreUnique
  <2> QED
    BY <1>2, <2>2, <2>6, <2>7, ApartIsWritten
<1> QED
  BY <1>1, <1>2 DEF ProfileWrites

LEMMA DeleteTenantApart ==
  ASSUME AccountsInv, Apart, NEW k \in Ids, DeleteTenant(k)
  PROVE  Apart'
<1>1. \A i \in Ids : user'[i] = NoUser \/ user'[i] = user[i]
  BY DEF DeleteTenant, AccountsInv, TypeOK
<1>2. ~NoUser.there
  BY DEF NoUser
<1>3. \A i \in Ids : ~user'[i].there \/ user'[i] = user[i]
  BY <1>1, <1>2
<1> QED
  BY <1>3, ApartIsKept

LEMMA ApartHolds == Spec => []Apart
<1>1. Init => Apart
  <2> SUFFICES ASSUME Init PROVE Apart
    OBVIOUS
  <2>1. \A i \in Ids : ~user[i].there
    BY DEF Init, NoUser
  <2> QED
    BY <2>1 DEF Apart, Serial, SlugsAreUnique
<1>2. AccountsInv /\ Apart /\ [Next]_vars => Apart'
  <2> SUFFICES ASSUME AccountsInv, Apart, [Next]_vars PROVE Apart'
    OBVIOUS
  <2>1. CASE UNCHANGED user
    BY <2>1, ApartIsKept
  <2>2. ASSUME NEW r \in Requests, Insert(r) PROVE Apart'
    BY <2>2, InsertApart
  <2>3. ASSUME NEW r \in Requests, ProfileWrites(r) PROVE Apart'
    BY <2>3, ProfileWritesApart
  <2>4. ASSUME NEW k \in Ids, DeleteTenant(k) PROVE Apart'
    BY <2>4, DeleteTenantApart
  <2>5. \/ UNCHANGED user
        \/ \E r \in Requests : Insert(r)
        \/ \E r \in Requests : ProfileWrites(r)
        \/ \E i \in Ids : DeleteTenant(i)
    BY DEF Next, vars, Register, RegisterChecks, TrySlug, UpdateProfile, ProfileChecksName, ProfileChecksEmail, Crash
  <2> QED
    BY <2>1, <2>2, <2>3, <2>4, <2>5
<1> QED
  BY <1>1, <1>2, AccountsInvHolds, PTL DEF Spec

(* Two that overlap would have written at one time.                        *)
LEMMA SerialIsUnique ==
  ASSUME AccountsInv, Apart, SQLite
  PROVE  NamesAreUnique
<1> SUFFICES ASSUME NEW i \in Ids, NEW j \in Ids, user[i].there, user[j].there, i # j, Same(i, j) PROVE FALSE
  BY DEF NamesAreUnique
<1>1. user[i].named[2] \in Nat /\ user[j].named[2] \in Nat
  BY DEF AccountsInv, TypeOK, Account
<1>2. user[i].named[1] <= user[j].named[2] /\ user[j].named[1] <= user[i].named[2]
  BY DEF AccountsInv, SameOnlyByOverlap
<1>3. /\ user[i].named[1] = user[i].named[2] /\ user[j].named[1] = user[j].named[2]
      /\ user[i].named[2] # user[j].named[2]
  BY DEF Apart, Serial
<1> QED
  BY <1>1, <1>2, <1>3

(* On SQLite a name, in whatever letters, and an e-mail are one account's. *)
THEOREM SQLiteNames == SQLite => (Spec => []NamesAreUnique)
<1> SUFFICES ASSUME SQLite PROVE Spec => []NamesAreUnique
  OBVIOUS
<1>1. AccountsInv /\ Apart => NamesAreUnique
  BY SerialIsUnique
<1> QED
  BY <1>1, AccountsInvHolds, ApartHolds, PTL

(* On any database no two tenants have one slug.                           *)
THEOREM UniqueSlugs == Spec => []SlugsAreUnique
BY ApartHolds, PTL DEF Apart

-----------------------------------------------------------------------------
(* Who keeps his name and his e-mail is told that they are taken only if   *)
(* they are.                                                               *)

Taken(q) ==
  q.kind = "profile" /\ q.answer = "conflict" /\ q.begun = commits /\ user[q.id].there =>
    \/ normalizeUsername(user[q.id].name) # normalizeUsername(q.name) \/ user[q.id].email # q.email
    \/ \E j \in Ids \ {q.id} : user[j].there /\ Same(q.id, j)

(* A request is answered when it is over, and an e-mail is looked for when *)
(* there is one.                                                           *)
InOrder(q) ==
  /\ q.at # "idle" => q.answer = "none"
  /\ q.at = "email" => q.email # NoEmail

TakenInv == \A r \in Requests : InOrder(request[r]) /\ Taken(request[r])

(* Of a request that is not over nothing is said.                          *)
LEMMA UnderWayIsNotTaken == \A q : q.answer = "none" => Taken(q)
BY DEF Taken

LEMMA TakenAfter ==
  ASSUME TypeOK, TakenInv, UNCHANGED <<user, commits>>, NEW r \in Requests,
         NEW q, request' = [request EXCEPT ![r] = q], InOrder(q), Taken(q)
  PROVE  TakenInv'
<1>1. \A p : Taken(p)' <=> Taken(p)
  BY DEF Taken, Same, normalizeUsername
<1>2. \A s \in Requests : request'[s] = q \/ request'[s] = request[s]
  BY DEF TypeOK
<1>3. ASSUME NEW s \in Requests
      PROVE  InOrder(request'[s]) /\ Taken(request'[s])
  BY <1>2 DEF TakenInv
<1> QED
  BY <1>1, <1>3 DEF TakenInv, InOrder, Taken, Same, normalizeUsername

(* Nothing is written while an answer is new.                              *)
LEMMA WritingEndsTaken ==
  ASSUME TypeOK, TakenInv, commits' = commits + 1, NEW r \in Requests,
         NEW a \in Answers, a # "conflict", request' = request \/ Answer(r, a)
  PROVE  TakenInv'
<1>1. \A s \in Requests :
        /\ request'[s].at # "idle" => request'[s].answer = "none"
        /\ request'[s].at = "email" => request'[s].email # NoEmail
        /\ request'[s].begun <= commits
  <2>1. \A s \in Requests : InOrder(request[s]) /\ request[s].begun <= commits
    BY DEF TakenInv, TypeOK
  <2>2. CASE request' = request
    BY <2>1, <2>2 DEF InOrder
  <2>3. CASE Answer(r, a)
    <3>1. request'[r].at = "idle" /\ request'[r].begun = request[r].begun
      BY <2>3 DEF Answer, Idle, TypeOK
    <3>2. \A s \in Requests : s # r => request'[s] = request[s]
      BY <2>3 DEF Answer, TypeOK
    <3> QED
      BY <2>1, <3>1, <3>2 DEF InOrder
  <2> QED
    BY <2>2, <2>3
<1>2. \A s \in Requests : request'[s].begun \in Nat /\ commits \in Nat
  <2>1. \A s \in Requests : request[s].begun \in Nat /\ commits \in Nat
    BY DEF TypeOK, Locals
  <2>2. CASE request' = request
    BY <2>1, <2>2
  <2>3. CASE Answer(r, a)
    <3>1. request'[r].begun = request[r].begun
      BY <2>3 DEF Answer, Idle, TypeOK
    <3>2. \A s \in Requests : s # r => request'[s] = request[s]
      BY <2>3 DEF Answer, TypeOK
    <3> QED
      BY <2>1, <3>1, <3>2
  <2> QED
    BY <2>2, <2>3
<1>3. \A s \in Requests : request'[s].begun # commits'
  BY <1>1, <1>2
<1> QED
  BY <1>1, <1>3 DEF TakenInv, InOrder, Taken

LEMMA AnswerIs ==
  ASSUME TypeOK, NEW r \in Requests, NEW a \in Answers, Answer(r, a)
  PROVE  \E q : /\ request' = [request EXCEPT ![r] = q]
                /\ q.at = "idle" /\ q.answer = a /\ q.kind = request[r].kind
                /\ q.name = request[r].name /\ q.email = request[r].email
                /\ q.id = request[r].id /\ q.begun = request[r].begun
<1> DEFINE q == [Idle EXCEPT !.answer = a, !.kind = request[r].kind,
                             !.name = request[r].name, !.email = request[r].email,
                             !.id = request[r].id, !.begun = request[r].begun]
<1>1. /\ q.at = "idle" /\ q.answer = a /\ q.kind = request[r].kind
      /\ q.name = request[r].name /\ q.email = request[r].email
      /\ q.id = request[r].id /\ q.begun = request[r].begun
  BY DEF Idle
<1>2. request' = [request EXCEPT ![r] = q]
  BY DEF Answer
<1> QED
  BY <1>1, <1>2

(* An answer that is not a conflict, or not to a profile, says nothing.    *)
LEMMA OtherAnswers ==
  ASSUME TypeOK, TakenInv, UNCHANGED <<user, commits>>, NEW r \in Requests,
         NEW a \in Answers, Answer(r, a), a # "conflict" \/ request[r].kind = "register"
  PROVE  TakenInv'
<1>1. PICK q : /\ request' = [request EXCEPT ![r] = q]
               /\ q.at = "idle" /\ q.answer = a /\ q.kind = request[r].kind
  BY AnswerIs
<1>2. InOrder(q) /\ Taken(q)
  BY <1>1 DEF InOrder, Taken
<1> QED
  BY <1>1, <1>2, TakenAfter

(* A conflict with another account is one.                                 *)
LEMMA ConflictsAreTaken ==
  ASSUME TypeOK, TakenInv, UNCHANGED <<user, commits>>, NEW r \in Requests,
         Answer(r, "conflict"),
         NEW j \in Ids \ {request[r].id}, user[j].there,
         \/ normalizeUsername(user[j].name) = normalizeUsername(request[r].name)
         \/ user[j].email = request[r].email /\ request[r].email # NoEmail
  PROVE  TakenInv'
<1>1. PICK q : /\ request' = [request EXCEPT ![r] = q]
               /\ q.at = "idle" /\ q.answer = "conflict" /\ q.kind = request[r].kind
               /\ q.name = request[r].name /\ q.email = request[r].email
               /\ q.id = request[r].id /\ q.begun = request[r].begun
  BY AnswerIs DEF Answers
<1>2. InOrder(q)
  BY <1>1 DEF InOrder
<1>3. Taken(q)
  BY <1>1 DEF Taken, Same
<1> QED
  BY <1>1, <1>2, <1>3, TakenAfter

LEMMA GoesOn ==
  ASSUME TypeOK, TakenInv, UNCHANGED <<user, commits>>, NEW r \in Requests, request[r].at # "idle",
         NEW q \in Locals, q.answer = request[r].answer, q.at = "email" => q.email # NoEmail,
         request' = [request EXCEPT ![r] = q]
  PROVE  TakenInv'
<1>1. q.answer = "none"
  BY DEF TakenInv, InOrder
<1> QED
  BY <1>1, UnderWayIsNotTaken, TakenAfter DEF InOrder

LEMMA TakenStep ==
  ASSUME TypeOK, TakenInv, [Next]_vars
  PROVE  TakenInv'
<1>0. \A r \in Requests : request[r] \in Locals /\ InOrder(request[r])
  BY DEF TypeOK, TakenInv
<1>1. ASSUME NEW r \in Requests, NEW n \in Names, NEW b \in Bases, Register(r, n, b) PROVE TakenInv'
  <2> DEFINE q == [Idle EXCEPT !.at = "name", !.kind = "register", !.name = n, !.base = b, !.begun = commits]
  <2>1. q.at = "name" /\ q.answer = "none"
    BY DEF Idle
  <2>2. request' = [request EXCEPT ![r] = q] /\ UNCHANGED <<user, commits>>
    BY <1>1 DEF Register, Receive
  <2> HIDE DEF q
  <2> QED
    BY <2>1, <2>2, UnderWayIsNotTaken, TakenAfter DEF InOrder
<1>2. ASSUME NEW r \in Requests, RegisterChecks(r) PROVE TakenInv'
  <2>1. CASE Answer(r, "conflict")
    BY <1>2, <2>1, OtherAnswers DEF RegisterChecks, Answers
  <2>2. CASE request' = [request EXCEPT ![r].at = "slug", ![r].begun = commits]
    <3> DEFINE q == [request[r] EXCEPT !.at = "slug", !.begun = commits]
    <3>1. q \in Locals /\ q.answer = request[r].answer /\ q.at = "slug"
      BY <1>0 DEF Locals, TypeOK
    <3>2. request' = [request EXCEPT ![r] = q]
      BY <2>2
    <3> HIDE DEF q
    <3> QED
      BY <1>2, <3>1, <3>2, GoesOn DEF RegisterChecks
  <2> QED
    BY <1>2, <2>1, <2>2 DEF RegisterChecks
<1>3. ASSUME NEW r \in Requests, TrySlug(r) PROVE TakenInv'
  <2>1. CASE Answer(r, "no slug")
    BY <1>3, <2>1, OtherAnswers DEF TrySlug, Answers
  <2>2. CASE Go(r, "insert")
    <3> DEFINE q == [request[r] EXCEPT !.at = "insert"]
    <3>1. q \in Locals /\ q.answer = request[r].answer /\ q.at = "insert"
      BY <1>0 DEF Locals
    <3>2. request' = [request EXCEPT ![r] = q]
      BY <2>2 DEF Go
    <3> HIDE DEF q
    <3> QED
      BY <1>3, <3>1, <3>2, GoesOn DEF TrySlug
  <2>3. CASE request' = [request EXCEPT ![r].cand = @ + 1] /\ request[r].cand < MaxSlugs
    <3> DEFINE q == [request[r] EXCEPT !.cand = request[r].cand + 1]
    <3>3. request[r].cand \in 1 .. MaxSlugs /\ MaxSlugs \in Nat
      BY <1>0, AccountsAssumption DEF Locals
    <3>4. request[r].cand + 1 \in 1 .. MaxSlugs
      BY <2>3, <3>3
    <3>1. q \in Locals /\ q.answer = request[r].answer /\ q.at = "slug"
      BY <1>0, <1>3, <3>4 DEF Locals, TrySlug
    <3>2. request' = [request EXCEPT ![r] = q]
      BY <2>3
    <3> HIDE DEF q
    <3> QED
      BY <1>3, <3>1, <3>2, GoesOn DEF TrySlug
  <2> QED
    BY <1>3, <2>1, <2>2, <2>3 DEF TrySlug
<1>4. ASSUME NEW r \in Requests, Insert(r) PROVE TakenInv'
  BY <1>4, OtherAnswers, WritingEndsTaken DEF Insert, Answers
<1>5. ASSUME NEW r \in Requests, NEW i \in Ids, NEW n \in Names, NEW e \in Emails \cup {NoEmail},
             UpdateProfile(r, i, n, e)
      PROVE  TakenInv'
  <2> DEFINE q == [Idle EXCEPT !.at = "name", !.kind = "profile", !.id = i, !.name = n, !.email = e, !.begun = commits]
  <2>1. q.at = "name" /\ q.answer = "none"
    BY DEF Idle
  <2>2. request' = [request EXCEPT ![r] = q] /\ UNCHANGED <<user, commits>>
    BY <1>5 DEF UpdateProfile, Receive
  <2> HIDE DEF q
  <2> QED
    BY <2>1, <2>2, UnderWayIsNotTaken, TakenAfter DEF InOrder
<1>6. ASSUME NEW r \in Requests, ProfileChecksName(r) PROVE TakenInv'
  <2>1. CASE Answer(r, "not found")
    BY <1>6, <2>1, OtherAnswers DEF ProfileChecksName, Answers
  <2>2. CASE Answer(r, "conflict") /\ Owners(request[r].name) \ {request[r].id} # {}
    BY <1>6, <2>2, ConflictsAreTaken DEF ProfileChecksName, Owners
  <2>3. CASE request' = [request EXCEPT ![r].at = IF request[r].email = NoEmail THEN "write" ELSE "email",
                                        ![r].begun = commits]
    <3> DEFINE q == [request[r] EXCEPT !.at = IF request[r].email = NoEmail THEN "write" ELSE "email",
                                       !.begun = commits]
    <3>0. commits \in Nat /\ request[r] \in Locals
      BY <1>0 DEF TypeOK
    <3>1. q \in Locals /\ q.answer = request[r].answer /\ (q.at = "email" => q.email # NoEmail)
      <4>1. CASE request[r].email = NoEmail
        BY <3>0, <4>1 DEF Locals
      <4>2. CASE request[r].email # NoEmail
        BY <3>0, <4>2 DEF Locals
      <4> QED
        BY <4>1, <4>2
    <3>2. request' = [request EXCEPT ![r] = q]
      BY <2>3
    <3> HIDE DEF q
    <3> QED
      BY <1>6, <3>1, <3>2, GoesOn DEF ProfileChecksName
  <2> QED
    BY <1>6, <2>1, <2>2, <2>3 DEF ProfileChecksName
<1>7. ASSUME NEW r \in Requests, ProfileChecksEmail(r) PROVE TakenInv'
  <2>1. CASE Answer(r, "conflict") /\ Holders(request[r].email) \ {request[r].id} # {}
    BY <1>0, <1>7, <2>1, ConflictsAreTaken DEF ProfileChecksEmail, Holders, InOrder
  <2>2. CASE Go(r, "write")
    <3> DEFINE q == [request[r] EXCEPT !.at = "write"]
    <3>1. q \in Locals /\ q.answer = request[r].answer /\ q.at = "write"
      BY <1>0 DEF Locals
    <3>2. request' = [request EXCEPT ![r] = q]
      BY <2>2 DEF Go
    <3> HIDE DEF q
    <3> QED
      BY <1>7, <3>1, <3>2, GoesOn DEF ProfileChecksEmail
  <2> QED
    BY <1>7, <2>1, <2>2 DEF ProfileChecksEmail
<1>8. ASSUME NEW r \in Requests, ProfileWrites(r) PROVE TakenInv'
  BY <1>8, OtherAnswers, WritingEndsTaken DEF ProfileWrites, Answers
<1>9. ASSUME NEW i \in Ids, DeleteTenant(i) PROVE TakenInv'
  <2>1. \A s \in Requests : request[s].begun <= commits /\ request[s].begun \in Nat /\ commits \in Nat
    BY DEF TypeOK, Locals
  <2>2. \A s \in Requests : request'[s] = request[s] /\ request'[s].begun # commits'
    BY <1>9, <2>1 DEF DeleteTenant
  <2> QED
    BY <1>0, <2>2 DEF TakenInv, Taken, InOrder
<1>10. CASE Crash
  <2>1. \A s \in Requests : request'[s] = Idle \/ request'[s] = request[s]
    BY <1>10 DEF Crash
  <2>2. Idle.at = "idle" /\ Idle.answer = "none"
    BY DEF Idle
  <2>3. UNCHANGED <<user, commits>>
    BY <1>10 DEF Crash
  <2>4. ASSUME NEW s \in Requests PROVE InOrder(request'[s]) /\ Taken(request'[s])
    BY <2>1, <2>2, UnderWayIsNotTaken DEF TakenInv, InOrder
  <2> QED
    BY <2>3, <2>4 DEF TakenInv, InOrder, Taken, Same, normalizeUsername
<1>11. CASE UNCHANGED vars
  BY <1>11 DEF vars, TakenInv, InOrder, Taken, Same, normalizeUsername
<1> QED
  BY <1>1, <1>2, <1>3, <1>4, <1>5, <1>6, <1>7, <1>8, <1>9, <1>10, <1>11 DEF Next

(* A profile that keeps its name and its e-mail meets a conflict only with *)
(* an account that has one of them too, on any database and whatever else  *)
(* is under way (service.go: UpdateProfile).                               *)
THEOREM KeptNamesAreFree == Spec => []KeepingIsNoConflict
<1>1. Init => TakenInv
  <2> SUFFICES ASSUME Init PROVE TakenInv
    OBVIOUS
  <2>1. \A r \in Requests : request[r] = Idle
    BY DEF Init
  <2>2. Idle.at = "idle" /\ Idle.answer = "none"
    BY DEF Idle
  <2> QED
    BY <2>1, <2>2, UnderWayIsNotTaken DEF TakenInv, InOrder
<1>2. TypeOK /\ TakenInv /\ [Next]_vars => TakenInv'
  BY TakenStep
<1>3. TakenInv => KeepingIsNoConflict
  BY DEF TakenInv, Taken, KeepingIsNoConflict
<1> QED
  BY <1>1, <1>2, <1>3, AccountsTypes, PTL DEF Spec
=============================================================================
