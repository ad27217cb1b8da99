------------------------------ MODULE Accounts ------------------------------
(***************************************************************************)
(* Registrations, profiles and the deletion of tenants, statement by       *)
(* statement: each runs in one transaction, and what it writes is seen by  *)
(* the others, all at once, when it commits.  There is no unique index on  *)
(* user names and e-mails, so they are looked up before they are written;  *)
(* the slug of a tenant has one.  What a lookup is worth depends on the    *)
(* database: SQLite refuses to write in a transaction that has read before *)
(* another one committed, MySQL and PostgreSQL do not.                     *)
(***************************************************************************)
EXTENDS Naturals, Sequences

CONSTANTS
  Requests,
  Names,       \* user names as they are written
  Capital,     \* the names in capitals among them: each another name's double
  Emails,
  Bases,       \* slugs made from tenant names: sequences, see Slug
  SQLite,      \* BOOLEAN: the database
  MaxUsers,    \* bound: accounts ever made
  MaxSlugs,    \* candidates for a slug (999 in the code)
  MaxSent      \* bound: requests

ASSUME AccountsAssumption ==
  /\ SQLite \in BOOLEAN
  /\ MaxUsers \in Nat /\ MaxSlugs \in Nat \ {0} /\ MaxSent \in Nat
  /\ Bases \subseteq Seq(Nat)
  /\ DOMAIN Capital \subseteq Names /\ \A n \in DOMAIN Capital : Capital[n] \in Names

VARIABLES
  user,      \* [Ids -> account, or NoUser]; its tenant and its policy go with it
  lastId,
  commits,   \* transactions that have written
  request,   \* [Requests -> locals of the handler]
  sent

vars == <<user, lastId, commits, request, sent>>

Ids     == 1 .. MaxUsers
NoUser    == [there |-> FALSE, name |-> "", email |-> "", slug |-> <<>>, named |-> <<0, 0>>]
NoEmail == ""

normalizeUsername(n) == IF n \in DOMAIN Capital THEN Capital[n] ELSE n

(* The candidates for a slug: the name, the name followed by 2, by 3, ...  *)
Slug(base, i) == IF i = 1 THEN base ELSE Append(base, i)

Idle == [at |-> "idle", kind |-> "none", id |-> 0, name |-> "", email |-> "", base |-> <<>>, cand |-> 1,
         begun |-> 0, answer |-> "none"]
Answers == {"none", "ok", "conflict", "no slug", "not found", "error"}

Account == [there : BOOLEAN, name : Names \cup {""}, email : Emails \cup {NoEmail},
            slug : Seq(Nat), named : Nat \X Nat]
Locals  == [at : {"idle", "name", "slug", "insert", "email", "write"}, kind : {"none", "register", "profile"},
            id : Ids \cup {0}, name : Names \cup {""}, email : Emails \cup {NoEmail}, base : Bases \cup {<<>>},
            cand : 1 .. MaxSlugs, begun : Nat, answer : Answers]

TypeOK ==
  /\ user \in [Ids -> Account]
  /\ lastId \in 0 .. MaxUsers /\ commits \in Nat /\ sent \in 0 .. MaxSent
  /\ request \in [Requests -> Locals]
  /\ \A i \in Ids : i > lastId => user[i] = NoUser
  /\ \A r \in Requests :
       LET q == request[r] IN
       /\ q.begun <= commits
       /\ q.at \in {"slug", "insert"} => q.kind = "register"
       /\ q.at \in {"email", "write"} => q.kind = "profile"
       /\ q.kind = "register" /\ q.at # "idle" => q.name \in Names /\ q.base \in Bases
       /\ q.kind = "profile" => q.id \in 1 .. lastId
       /\ q.kind = "none" => q.at = "idle"

Init ==
  /\ user = [i \in Ids |-> NoUser] /\ lastId = 0
  /\ commits = 0
  /\ request = [r \in Requests |-> Idle]
  /\ sent = 0

-----------------------------------------------------------------------------
(* The database.                                                           *)

Owners(name) == {i \in Ids : user[i].there /\ normalizeUsername(user[i].name) = normalizeUsername(name)}
Holders(email) == {i \in Ids : user[i].there /\ user[i].email = email}
Slugs == {user[i].slug : i \in {j \in Ids : user[j].there}}

(* May a transaction that has read since `begun` write?                    *)
MayWrite(begun) == SQLite => begun = commits

Answer(r, a) == request' = [request EXCEPT ![r] = [Idle EXCEPT !.answer = a, !.kind = request[r].kind,
                                                   !.name = request[r].name, !.email = request[r].email,
                                                   !.id = request[r].id, !.begun = request[r].begun]]
Go(r, at) == request' = [request EXCEPT ![r].at = at]

Receive(r, q) ==
  /\ sent < MaxSent
  /\ sent' = sent + 1
  /\ request[r].at = "idle"
  /\ request' = [request EXCEPT ![r] = q]

-----------------------------------------------------------------------------
(* Register.                                                               *)

(* The transaction reads first in its next step.                           *)
Register(r, n, b) ==
  /\ Receive(r, [Idle EXCEPT !.at = "name", !.kind = "register", !.name = n, !.base = b, !.begun = commits])
  /\ UNCHANGED <<user, lastId, commits>>

(* Mutant: the name is looked for as it is written.                        *)
RegisterChecksAsWritten(r) ==
  /\ request[r].at = "name" /\ request[r].kind = "register"
  /\ IF \E i \in Ids : user[i].there /\ user[i].name = request[r].name THEN Answer(r, "conflict")
     ELSE request' = [request EXCEPT ![r].at = "slug", ![r].begun = commits]
  /\ UNCHANGED <<user, lastId, commits, sent>>

RegisterChecks(r) ==
  /\ request[r].at = "name" /\ request[r].kind = "register"
  /\ IF Owners(request[r].name) # {} THEN Answer(r, "conflict")
     ELSE request' = [request EXCEPT ![r].at = "slug", ![r].begun = commits]
  /\ UNCHANGED <<user, lastId, commits, sent>>

(* Mutant: one candidate more.                                             *)
TrySlugOneMore(r) ==
  /\ request[r].at = "slug"
  /\ IF Slug(request[r].base, request[r].cand) \notin Slugs THEN Go(r, "insert")
     ELSE IF request[r].cand <= MaxSlugs THEN request' = [request EXCEPT ![r].cand = @ + 1]
     ELSE Answer(r, "no slug")
  /\ UNCHANGED <<user, lastId, commits, sent>>

(* uniqueTenantSlug: a statement for each candidate.                       *)
TrySlug(r) ==
  /\ request[r].at = "slug"
  /\ IF Slug(request[r].base, request[r].cand) \notin Slugs THEN Go(r, "insert")
     ELSE IF request[r].cand < MaxSlugs THEN request' = [request EXCEPT ![r].cand = @ + 1]
     ELSE Answer(r, "no slug")
  /\ UNCHANGED <<user, lastId, commits, sent>>

(* Tenant, account and policy are created, and the transaction commits.    *)
Insert(r) ==
  /\ request[r].at = "insert"
  /\ IF ~MayWrite(request[r].begun) \/ Slug(request[r].base, request[r].cand) \in Slugs
     THEN Answer(r, "error") /\ UNCHANGED <<user, lastId, commits>>
     ELSE /\ lastId < MaxUsers
          /\ lastId' = lastId + 1 /\ commits' = commits + 1
          /\ user' = [user EXCEPT ![lastId + 1] =
                        [there |-> TRUE, name |-> request[r].name, email |-> NoEmail, named |-> <<request[r].begun, commits>>,
                         slug |-> Slug(request[r].base, request[r].cand)]]
          /\ Answer(r, "ok")
  /\ UNCHANGED sent

-----------------------------------------------------------------------------
(* UpdateProfile.                                                          *)

UpdateProfile(r, i, n, e) ==
  /\ i <= lastId
  /\ Receive(r, [Idle EXCEPT !.at = "name", !.kind = "profile", !.id = i, !.name = n, !.email = e, !.begun = commits])
  /\ UNCHANGED <<user, lastId, commits>>

(* Mutant: the account itself is found too.                                *)
ProfileChecksNameOfAll(r) ==
  /\ request[r].at = "name" /\ request[r].kind = "profile"
  /\ IF ~user[request[r].id].there THEN Answer(r, "not found")
     ELSE IF Owners(request[r].name) # {} THEN Answer(r, "conflict")
     ELSE request' = [request EXCEPT ![r].at = IF request[r].email = NoEmail THEN "write" ELSE "email",
                                     ![r].begun = commits]
  /\ UNCHANGED <<user, lastId, commits, sent>>

(* First(&user), the beginning of the transaction, is one step with the    *)
(* lookup of the name: the account it reads is used for its id alone.      *)
ProfileChecksName(r) ==
  /\ request[r].at = "name" /\ request[r].kind = "profile"
  /\ IF ~user[request[r].id].there THEN Answer(r, "not found")
     ELSE IF Owners(request[r].name) \ {request[r].id} # {} THEN Answer(r, "conflict")
     ELSE request' = [request EXCEPT ![r].at = IF request[r].email = NoEmail THEN "write" ELSE "email",
                                     ![r].begun = commits]
  /\ UNCHANGED <<user, lastId, commits, sent>>

ProfileChecksEmail(r) ==
  /\ request[r].at = "email"
  /\ IF Holders(request[r].email) \ {request[r].id} # {} THEN Answer(r, "conflict") ELSE Go(r, "write")
  /\ UNCHANGED <<user, lastId, commits, sent>>

(* Updates and commit; the account may be gone, and is read once more.     *)
ProfileWrites(r) ==
  /\ request[r].at = "write"
  /\ IF ~MayWrite(request[r].begun) THEN Answer(r, "error") /\ UNCHANGED <<user, commits>>
     ELSE IF ~user[request[r].id].there THEN Answer(r, "not found") /\ UNCHANGED <<user, commits>>
     ELSE /\ user' = [user EXCEPT ![request[r].id].name = request[r].name, ![request[r].id].email = request[r].email,
                                  ![request[r].id].named = <<request[r].begun, commits>>]
          /\ commits' = commits + 1
          /\ Answer(r, "ok")
  /\ UNCHANGED <<lastId, sent>>

-----------------------------------------------------------------------------
(* deleteTenantCascade: the account goes with its tenant.                  *)
DeleteTenant(i) ==
  /\ user[i].there
  /\ user' = [user EXCEPT ![i] = NoUser]
  /\ commits' = commits + 1
  /\ UNCHANGED <<lastId, request, sent>>

(* The process dies, and with it every transaction under way.              *)
Crash ==
  /\ \E r \in Requests : request[r].at # "idle"
  /\ request' = [r \in Requests |-> IF request[r].at # "idle" THEN Idle ELSE request[r]]
  /\ UNCHANGED <<user, lastId, commits, sent>>

Next ==
  \/ \E r \in Requests :
       \/ \E n \in Names : \E b \in Bases : Register(r, n, b)
       \/ RegisterChecks(r)
       \/ TrySlug(r)
       \/ Insert(r)
       \/ \E i \in Ids : \E n \in Names : \E e \in Emails \cup {NoEmail} : UpdateProfile(r, i, n, e)
       \/ ProfileChecksName(r)
       \/ ProfileChecksEmail(r)
       \/ ProfileWrites(r)
  \/ \E i \in Ids : DeleteTenant(i)
  \/ Crash

Spec == Init /\ [][Next]_vars

-----------------------------------------------------------------------------
Same(i, j) ==
  \/ normalizeUsername(user[i].name) = normalizeUsername(user[j].name)
  \/ user[i].email = user[j].email /\ user[i].email # NoEmail

(* A name, in whatever letters, and an e-mail are one account's: Login and *)
(* ForgotPassword take the first account they find, and the other one has  *)
(* no way in (service.go: Register, UpdateProfile, Login).                 *)
NamesAreUnique ==
  \A i, j \in Ids : user[i].there /\ user[j].there /\ i # j => ~Same(i, j)

(* Two accounts can only have one name or e-mail if the transactions that  *)
(* gave it to them overlapped: each had looked before the other one        *)
(* committed (service.go: lookups of Register and UpdateProfile).          *)
SameOnlyByOverlap ==
  \A i, j \in Ids : user[i].there /\ user[j].there /\ i # j /\ Same(i, j) =>
    /\ user[i].named[1] <= user[j].named[2]
    /\ user[j].named[1] <= user[i].named[2]

(* No two tenants have one slug, although it is looked for by statements   *)
(* of their own (service.go: uniqueTenantSlug; models.go: Tenant.Slug).    *)
SlugsAreUnique ==
  \A i, j \in Ids : user[i].there /\ user[j].there /\ i # j => user[i].slug # user[j].slug

(* Who keeps the name and the e-mail he has is told that they are taken    *)
(* only if another account has got one of them too, whatever else is under *)
(* way (service.go: UpdateProfile).                                        *)
KeepingIsNoConflict ==
  \A r \in Requests :
    LET q == request[r] IN
    q.kind = "profile" /\ q.answer = "conflict" /\ q.begun = commits /\ user[q.id].there =>
      \/ normalizeUsername(user[q.id].name) # normalizeUsername(q.name) \/ user[q.id].email # q.email
      \/ \E j \in Ids \ {q.id} : user[j].there /\ Same(q.id, j)
=============================================================================
