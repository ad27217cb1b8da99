------------------------------ MODULE Sessions ------------------------------
(***************************************************************************)
(* The sessions of one tenant's user: logins and refreshes, each a series  *)
(* of statements that ends in a transaction, against the operations that   *)
(* revoke sessions, each a single statement or transaction: logout, a      *)
(* change of the password (by a reset or by the administrator), suspending *)
(* and deleting the tenant.  A super administrator, whose tenant is not    *)
(* looked at, is not modelled.                                             *)
(***************************************************************************)
EXTENDS Integers

CONSTANTS
  Requests,     \* login and refresh requests that may be in flight at one time
  MaxSessions,  \* bound: session rows ever created
  MaxEpochs     \* bound: changes that revoke every session

ASSUME SessionsAssumption ==
  /\ MaxSessions \in Nat
  /\ MaxEpochs \in Nat

Ids == 1 .. MaxSessions
NoSession == 0

VARIABLES
  (* database *)
  session,     \* [Ids -> row]; rows above lastId do not exist yet
  lastId,
  password,    \* version of the user's password
  tenant,      \* "active" | "disabled" | "deleted"
  (* locals of Login and Refresh, one entry per request *)
  pc, from, origin, began, knew,
  (* history *)
  epoch        \* how often every session has been revoked

dbVars    == <<session, lastId, password, tenant>>
localVars == <<pc, from, origin, began, knew>>
vars      == <<dbVars, localVars, epoch>>

(* A row of auth_sessions.  One that has expired is told from one that is  *)
(* revoked, but not from one that is both: either is refused for good.     *)
(* Of the request that made it, the row keeps as history: the password     *)
(* entered at the head of its chain, the session it replaces, the epoch    *)
(* when the request began and when the row was made, and the rows there    *)
(* were when the request began.                                            *)
Row == [status : {"none", "live", "expired", "revoked", "deleted"},
        origin : Nat, from : Nat, began : Nat, made : Nat, knew : Nat]

NoRow == [status |-> "none", origin |-> 0, from |-> NoSession, began |-> 0, made |-> 0, knew |-> 0]

Pcs == {"idle", "loginTenant", "loginCreate", "refreshUser", "refreshTenant", "refreshCommit"}

TypeOK ==
  /\ session \in [Ids -> Row]
  /\ lastId \in 0 .. MaxSessions
  /\ password \in Nat
  /\ tenant \in {"active", "disabled", "deleted"}
  /\ pc \in [Requests -> Pcs]
  /\ from \in [Requests -> Ids \cup {NoSession}]
  /\ origin \in [Requests -> Nat]
  /\ began \in [Requests -> Nat]
  /\ knew \in [Requests -> 0 .. MaxSessions]
  /\ epoch \in Nat

Init ==
  /\ session = [s \in Ids |-> NoRow]
  /\ lastId = 0
  /\ password = 0
  /\ tenant = "active"
  /\ pc = [r \in Requests |-> "idle"]
  /\ from = [r \in Requests |-> NoSession]
  /\ origin = [r \in Requests |-> 0]
  /\ began = [r \in Requests |-> 0]
  /\ knew = [r \in Requests |-> 0]
  /\ epoch = 0

Live(s) == session[s].status = "live"

-----------------------------------------------------------------------------
(* Login and Refresh.                                                      *)

Begin(r, step, s, pw) ==
  /\ pc[r] = "idle"
  /\ pc' = [pc EXCEPT ![r] = step]
  /\ from' = [from EXCEPT ![r] = s]
  /\ origin' = [origin EXCEPT ![r] = pw]
  /\ began' = [began EXCEPT ![r] = epoch]
  /\ knew' = [knew EXCEPT ![r] = lastId]
  /\ UNCHANGED <<dbVars, epoch>>

(* The request is answered.                                                *)
Return(r) ==
  /\ pc' = [pc EXCEPT ![r] = "idle"]
  /\ from' = [from EXCEPT ![r] = NoSession]
  /\ origin' = [origin EXCEPT ![r] = 0]
  /\ began' = [began EXCEPT ![r] = 0]
  /\ knew' = [knew EXCEPT ![r] = 0]

Advance(r, step) ==
  /\ pc' = [pc EXCEPT ![r] = step]
  /\ UNCHANGED <<from, origin, began, knew>>

(* The row createSessionTx inserts for r in a table of the given sessions. *)
Insert(r, table) ==
  /\ lastId < MaxSessions
  /\ lastId' = lastId + 1
  /\ session' = [table EXCEPT ![lastId + 1] =
                   [status |-> "live", origin |-> origin[r], from |-> from[r],
                    began |-> began[r], made |-> epoch, knew |-> knew[r]]]

(* The user is read and the password compared with the hash just read.     *)
LoginRead(r) == tenant # "deleted" /\ Begin(r, "loginTenant", NoSession, password)

(* Mutant: a request that meets a suspended tenant is not answered.        *)
LoginTenantHangs(r) ==
  /\ pc[r] = "loginTenant"
  /\ Advance(r, IF tenant = "active" THEN "loginCreate" ELSE "refused")
  /\ UNCHANGED <<dbVars, epoch>>

(* ensureTenantActive.                                                     *)
LoginTenant(r) ==
  /\ pc[r] = "loginTenant"
  /\ IF tenant = "active" THEN Advance(r, "loginCreate") ELSE Return(r)
  /\ UNCHANGED <<dbVars, epoch>>

LoginCreate(r) ==
  /\ pc[r] = "loginCreate"
  /\ Insert(r, session)
  /\ Return(r)
  /\ UNCHANGED <<password, tenant, epoch>>

(* A session that is revoked, expired or gone is refused.                  *)
RefreshRead(r, s) ==
  /\ Live(s)
  /\ Begin(r, "refreshUser", s, session[s].origin)

RefreshUser(r) ==
  /\ pc[r] = "refreshUser"
  /\ IF tenant # "deleted" THEN Advance(r, "refreshTenant") ELSE Return(r)
  /\ UNCHANGED <<dbVars, epoch>>

(* Mutant: the tenant is not looked at.                                    *)
RefreshTenantUnchecked(r) ==
  /\ pc[r] = "refreshTenant"
  /\ Advance(r, "refreshCommit")
  /\ UNCHANGED <<dbVars, epoch>>

RefreshTenant(r) ==
  /\ pc[r] = "refreshTenant"
  /\ IF tenant = "active" THEN Advance(r, "refreshCommit") ELSE Return(r)
  /\ UNCHANGED <<dbVars, epoch>>

(* Mutant: the old session is not revoked.                                 *)
RevokeOldKept(s) == session

(* The old session is revoked by its id, whatever has become of it since   *)
(* it was read.                                                            *)
RevokeOld(s) ==
  IF session[s].status = "live" THEN [session EXCEPT ![s].status = "revoked"] ELSE session

RefreshCommit(r) ==
  /\ pc[r] = "refreshCommit"
  /\ Insert(r, RevokeOld(from[r]))
  /\ Return(r)
  /\ UNCHANGED <<password, tenant, epoch>>

(* A statement fails, or the client goes away: the transaction, if any, is *)
(* rolled back.                                                            *)
RequestFails(r) ==
  /\ pc[r] # "idle"
  /\ Return(r)
  /\ UNCHANGED <<dbVars, epoch>>

-----------------------------------------------------------------------------
(* What ends sessions.                                                     *)

Expire(s) ==
  /\ Live(s)
  /\ session' = [session EXCEPT ![s].status = "expired"]
  /\ UNCHANGED <<lastId, password, tenant, localVars, epoch>>

Logout(s) ==
  /\ Live(s)
  /\ session' = [session EXCEPT ![s].status = "revoked"]
  /\ UNCHANGED <<lastId, password, tenant, localVars, epoch>>

RevokeAll(status) ==
  /\ epoch < MaxEpochs
  /\ epoch' = epoch + 1
  /\ session' = [s \in Ids |->
                   IF Live(s) \/ (status = "deleted" /\ session[s].status # "none")
                   THEN [session[s] EXCEPT !.status = status] ELSE session[s]]

(* Mutant: a new password leaves the sessions alone.                       *)
ChangePasswordOnly ==
  /\ tenant # "deleted"
  /\ epoch < MaxEpochs
  /\ epoch' = epoch + 1
  /\ password' = password + 1
  /\ UNCHANGED <<session, lastId, tenant, localVars>>

(* ResetPassword with a good token, and SetUserPassword.                   *)
ChangePassword ==
  /\ tenant # "deleted"
  /\ RevokeAll("revoked")
  /\ password' = password + 1
  /\ UNCHANGED <<lastId, tenant, localVars>>

DisableTenant ==
  /\ tenant # "deleted"
  /\ RevokeAll("revoked")
  /\ tenant' = "disabled"
  /\ UNCHANGED <<lastId, password, localVars>>

EnableTenant ==
  /\ tenant = "disabled"
  /\ tenant' = "active"
  /\ UNCHANGED <<session, lastId, password, localVars, epoch>>

DeleteTenant ==
  /\ tenant # "deleted"
  /\ RevokeAll("deleted")
  /\ tenant' = "deleted"
  /\ UNCHANGED <<lastId, password, localVars>>

-----------------------------------------------------------------------------
Next ==
  \/ \E r \in Requests :
       \/ LoginRead(r) \/ LoginTenant(r) \/ LoginCreate(r)
       \/ \E s \in Ids : RefreshRead(r, s)
       \/ RefreshUser(r) \/ RefreshTenant(r) \/ RefreshCommit(r)
       \/ RequestFails(r)
  \/ \E s \in Ids : Expire(s) \/ Logout(s)
  \/ ChangePassword \/ DisableTenant \/ EnableTenant \/ DeleteTenant

Spec == Init /\ [][Next]_vars

-----------------------------------------------------------------------------
(* A live session that goes back to a login with an earlier password owes   *)
(* it to a request that was in flight when sessions were revoked: it, or    *)
(* one before it in the same chain (Login and Refresh read the user and the *)
(* old session outside the transaction that creates the new one).           *)
OldPasswordOnlyByOverlap ==
  \A s \in Ids :
    Live(s) /\ session[s].origin # password =>
      \E t \in Ids : /\ session[t].origin = session[s].origin
                     /\ session[t].began < session[t].made

(* A suspended or deleted tenant has no live session but those of requests *)
(* that were in flight when it was suspended or deleted, and no refresh    *)
(* continues these (Login, Refresh, ensureTenantActive).                   *)
OnlyOverlapsSurvive ==
  tenant # "active" =>
    \A s \in Ids : Live(s) => session[s].began < session[s].made

(* When a session is replaced twice, the second refresh had read it before *)
(* the first one replaced it: no refresh that begins after the replacement *)
(* succeeds (Refresh: the session is read outside the transaction).        *)
ReplacedTwiceOnlyByOverlap ==
  \A s, t \in Ids :
    /\ s < t
    /\ session[s].status # "none" /\ session[t].status # "none"
    /\ session[s].from = session[t].from
    /\ session[s].from # NoSession
    => session[t].knew < s

(* Every live session goes back to a login with the present password.      *)
PasswordChangeEndsSessions ==
  \A s \in Ids : Live(s) => session[s].origin = password
=============================================================================
