----------------------------- MODULE TenantData -----------------------------
(***************************************************************************)
(* What belongs to a tenant, and its end: requests of its owner, checks of *)
(* its domains and the administrator's deletions, interleaved statement by *)
(* statement.  The rows refer to each other by numbers without foreign     *)
(* keys: a statement may write a row about a domain, or of a tenant, that  *)
(* is gone by then.  Ids are never given twice.                            *)
(***************************************************************************)
EXTENDS Naturals

CONSTANTS
  Tenants,
  Handlers,    \* what is under way at one time: requests and checks
  MaxDomains,  \* bound: domains ever made
  MaxWork      \* bound: requests and checks

Nobody == "nobody"

ASSUME TenantDataAssumption == MaxDomains \in Nat /\ MaxWork \in Nat /\ Nobody \notin Tenants

VARIABLES
  tenants,    \* those that are there
  domains,    \* ids of the domains that are there
  owner,      \* id -> the tenant the domain was made for
  newest,
  policies,   \* rows [tenant, domain]; domain 0 is the default policy
  results,    \* rows [tenant, domain]: history of checks
  deliveries, \* rows [tenant, domain]
  handler,    \* [Handlers -> locals of the handler or of processDomain]
  work,
  dropped,    \* history: domains deleted by themselves
  crossed     \* history: domains and tenants deleted while somebody was at work on them

dataVars == <<tenants, domains, owner, newest, policies, results, deliveries, handler, work, dropped, crossed>>

DomainIds  == 1 .. MaxDomains
Row  == [tenant : Tenants, domain : DomainIds \cup {0}]
Rest == [at |-> "idle", kind |-> "none", tenant |-> Nobody, domain |-> 0, found |-> {}]
Kinds == {"create", "policy", "unpolicy", "drop", "check", "erase"}
Frames ==
  [at : {"idle", "find", "write", "load", "owner", "record", "reload", "notify", "pluck", "erase"},
   kind : Kinds \cup {"none"}, tenant : Tenants \cup {Nobody}, domain : DomainIds \cup {0}, found : SUBSET DomainIds]

DataTypeOK ==
  /\ tenants \subseteq Tenants /\ domains \subseteq 1 .. newest /\ newest \in 0 .. MaxDomains
  /\ owner \in [DomainIds -> Tenants \cup {Nobody}]
  /\ \A d \in DomainIds : (owner[d] = Nobody) = (d > newest)
  /\ policies \subseteq Row /\ results \subseteq Row /\ deliveries \subseteq Row
  /\ handler \in [Handlers -> Frames]
  /\ \A r \in Handlers : handler[r].at \in {"record", "reload", "notify"} => owner[handler[r].domain] = handler[r].tenant
  /\ work \in 0 .. MaxWork
  /\ dropped \subseteq (1 .. newest) \ domains /\ crossed \subseteq DomainIds \cup Tenants

DataInit ==
  /\ tenants = Tenants /\ domains = {} /\ newest = 0
  /\ owner = [d \in DomainIds |-> Nobody]
  /\ policies = [tenant : Tenants, domain : {0}] /\ results = {} /\ deliveries = {}
  /\ handler = [r \in Handlers |-> Rest] /\ work = 0
  /\ dropped = {} /\ crossed = {}

-----------------------------------------------------------------------------
End(r)    == handler' = [handler EXCEPT ![r] = Rest]
To(r, at) == handler' = [handler EXCEPT ![r].at = at]

Begin(r, q) ==
  /\ handler[r].at = "idle" /\ work < MaxWork
  /\ work' = work + 1
  /\ handler' = [handler EXCEPT ![r] = q]
  /\ UNCHANGED <<tenants, domains, owner, newest, policies, results, deliveries, dropped, crossed>>

Reading == UNCHANGED <<tenants, domains, owner, newest, policies, results, deliveries, work, dropped, crossed>>

(* Requests under way that are about a domain, or of a tenant.             *)
About(t, d) == {r \in Handlers : handler[r].at # "idle" /\ handler[r].tenant = t /\ handler[r].domain = d}
Of(t)       == {r \in Handlers : handler[r].at # "idle" /\ handler[r].tenant = t /\ handler[r].kind # "erase"}

-----------------------------------------------------------------------------
(* A request of the owner passes requireAuth.                              *)
Enter(r, k, t, d) ==
  /\ t \in tenants
  /\ d \in (IF k = "create" THEN {0} ELSE IF k = "policy" THEN 0 .. newest ELSE 1 .. newest)
  /\ Begin(r, [Rest EXCEPT !.kind = k, !.tenant = t, !.domain = d,
                           !.at = IF k \in {"create", "drop"} \/ d = 0 THEN "write" ELSE "find"])

FindDomain(r) ==
  /\ handler[r].at = "find"
  /\ LET q == handler[r] IN
     IF q.domain \in domains /\ owner[q.domain] = q.tenant
     THEN To(r, IF q.kind = "check" THEN "load" ELSE "write") ELSE End(r)
  /\ Reading

(* Mutant: the id of a domain that is gone is given again.                 *)
CreateAgain(r) ==
  /\ handler[r].at = "write" /\ handler[r].kind = "create"
  /\ \E d \in 1 .. newest + 1 :
       /\ d \in DomainIds \ domains
       /\ \A e \in DomainIds \ domains : d <= e
       /\ newest' = (IF d > newest THEN d ELSE newest)
       /\ domains' = domains \cup {d}
       /\ owner' = [owner EXCEPT ![d] = handler[r].tenant]
  /\ End(r)
  /\ UNCHANGED <<tenants, policies, results, deliveries, work, dropped, crossed>>

CreateDomain(r) ==
  /\ handler[r].at = "write" /\ handler[r].kind = "create"
  /\ newest < MaxDomains
  /\ newest' = newest + 1
  /\ domains' = domains \cup {newest'}
  /\ owner' = [owner EXCEPT ![newest'] = handler[r].tenant]
  /\ End(r)
  /\ UNCHANGED <<tenants, policies, results, deliveries, work, dropped, crossed>>

(* UpsertPolicy; without thresholds and endpoints it removes an override.  *)
SavePolicy(r) ==
  /\ handler[r].at = "write" /\ handler[r].kind \in {"policy", "unpolicy"}
  /\ LET row == [tenant |-> handler[r].tenant, domain |-> handler[r].domain] IN
     policies' = IF handler[r].kind = "policy" THEN policies \cup {row} ELSE policies \ {row}
  /\ End(r)
  /\ UNCHANGED <<tenants, domains, owner, newest, results, deliveries, work, dropped, crossed>>

(* Mutant: the override of the domain is left.                             *)
DropLeavesPolicy(r) ==
  /\ handler[r].at = "write" /\ handler[r].kind = "drop"
  /\ LET t == handler[r].tenant
         d == handler[r].domain IN
     IF d \in domains /\ owner[d] = t
     THEN /\ domains' = domains \ {d} /\ UNCHANGED policies
          /\ dropped' = dropped \cup {d}
          /\ crossed' = IF About(t, d) \ {r} = {} THEN crossed ELSE crossed \cup {d}
     ELSE UNCHANGED <<domains, policies, dropped, crossed>>
  /\ End(r)
  /\ UNCHANGED <<tenants, owner, newest, results, deliveries, work>>

(* deleteDomain: the domain and its override, in one transaction; what was *)
(* recorded of it stays.                                                   *)
DropDomain(r) ==
  /\ handler[r].at = "write" /\ handler[r].kind = "drop"
  /\ LET t == handler[r].tenant
         d == handler[r].domain IN
     IF d \in domains /\ owner[d] = t
     THEN /\ domains' = domains \ {d}
          /\ policies' = policies \ {[tenant |-> t, domain |-> d]}
          /\ dropped' = dropped \cup {d}
          /\ crossed' = IF About(t, d) \ {r} = {} THEN crossed ELSE crossed \cup {d}
     ELSE UNCHANGED <<domains, policies, dropped, crossed>>
  /\ End(r)
  /\ UNCHANGED <<tenants, owner, newest, results, deliveries, work>>

-----------------------------------------------------------------------------
(* processDomain, for a domain that was dispatched or asked for.           *)

(* dispatchDueDomains takes domains whose tenant is there.                 *)
Dispatch(r, d) ==
  /\ d \in domains /\ owner[d] \in tenants
  /\ Begin(r, [Rest EXCEPT !.at = "load", !.kind = "check", !.tenant = owner[d], !.domain = d])

LoadDomain(r) ==
  /\ handler[r].at = "load"
  /\ IF handler[r].domain \in domains THEN To(r, "owner") ELSE End(r)
  /\ Reading

(* The tenant is looked up before the host is called.                      *)
LoadOwner(r) ==
  /\ handler[r].at = "owner"
  /\ IF handler[r].tenant \in tenants THEN To(r, "record") ELSE End(r)
  /\ Reading

RowOf(r) == [tenant |-> handler[r].tenant, domain |-> handler[r].domain]

(* The result is inserted whether the domain is still there or not.        *)
Record(r) ==
  /\ handler[r].at = "record"
  /\ results' = results \cup {RowOf(r)}
  /\ To(r, "reload")
  /\ UNCHANGED <<tenants, domains, owner, newest, policies, deliveries, work, dropped, crossed>>

Reload(r) ==
  /\ handler[r].at = "reload"
  /\ IF handler[r].domain \in domains THEN To(r, "notify") ELSE End(r)
  /\ Reading

(* MaybeNotify: a delivery is recorded, or there is nothing to tell.       *)
Notify(r, tells) ==
  /\ handler[r].at = "notify"
  /\ deliveries' = IF tells THEN deliveries \cup {RowOf(r)} ELSE deliveries
  /\ End(r)
  /\ UNCHANGED <<tenants, domains, owner, newest, policies, results, work, dropped, crossed>>

-----------------------------------------------------------------------------
(* The administrator deletes a tenant.                                     *)

LoadTenant(r, t) ==
  /\ t \in tenants
  /\ Begin(r, [Rest EXCEPT !.at = "pluck", !.kind = "erase", !.tenant = t])

Pluck(r) ==
  /\ handler[r].at = "pluck"
  /\ handler' = [handler EXCEPT ![r].at = "erase",
                                ![r].found = {d \in domains : owner[d] = handler[r].tenant}]
  /\ Reading

(* Somebody else has been at work on the tenant since the ids were read.   *)
Crossing(r) ==
  LET t == handler[r].tenant
  IN  Of(t) # {} \/ {d \in domains : owner[d] = t} # handler[r].found

NotOf(rows, t) == {row \in rows : row.tenant # t}

(* Mutant: only the policies of plucked domains go.                        *)
EraseLeavesDefault(r) ==
  /\ handler[r].at = "erase"
  /\ LET t == handler[r].tenant IN
     IF t \in tenants
     THEN /\ tenants' = tenants \ {t}
          /\ domains' = {d \in domains : owner[d] # t}
          /\ results' = {row \in results : row.domain \notin handler[r].found}
          /\ policies' = {row \in policies : row.domain \notin handler[r].found}
          /\ deliveries' = NotOf(deliveries, t)
          /\ crossed' = IF Crossing(r) THEN crossed \cup {t} ELSE crossed
     ELSE UNCHANGED <<tenants, domains, results, policies, deliveries, crossed>>
  /\ End(r)
  /\ UNCHANGED <<owner, newest, work, dropped>>

(* The statements of deleteTenantCascade that write, up to the commit: the *)
(* results of the domains plucked before, all else by tenant.  If somebody *)
(* else has deleted the tenant the transaction is rolled back.             *)
Erase(r) ==
  /\ handler[r].at = "erase"
  /\ LET t == handler[r].tenant IN
     IF t \in tenants
     THEN /\ tenants' = tenants \ {t}
          /\ domains' = {d \in domains : owner[d] # t}
          /\ results' = {row \in results : row.domain \notin handler[r].found}
          /\ policies' = NotOf(policies, t) /\ deliveries' = NotOf(deliveries, t)
          /\ crossed' = IF Crossing(r) THEN crossed \cup {t} ELSE crossed
     ELSE UNCHANGED <<tenants, domains, results, policies, deliveries, crossed>>
  /\ End(r)
  /\ UNCHANGED <<owner, newest, work, dropped>>

(* The database refuses, or the process dies: what is not committed is     *)
(* undone.                                                                 *)
Fail(r) == handler[r].at # "idle" /\ End(r) /\ Reading

DataNext ==
  \E r \in Handlers :
    \/ \E k \in Kinds \ {"erase"} : \E t \in Tenants : \E d \in DomainIds \cup {0} : Enter(r, k, t, d)
    \/ FindDomain(r) \/ CreateDomain(r) \/ SavePolicy(r) \/ DropDomain(r)
    \/ \E d \in DomainIds : Dispatch(r, d)
    \/ LoadDomain(r) \/ LoadOwner(r) \/ Record(r) \/ Reload(r)
    \/ \E tells \in BOOLEAN : Notify(r, tells)
    \/ \E t \in Tenants : LoadTenant(r, t)
    \/ Pluck(r) \/ Erase(r) \/ Fail(r)

DataSpec == DataInit /\ [][DataNext]_dataVars

-----------------------------------------------------------------------------
Gone == Tenants \ tenants
OfGone(rows) == {row \in rows : row.tenant \in Gone \ crossed}

(* All it may leave is the history of domains that were deleted before it  *)
(* (handlers_admin.go: deleteTenantCascade; handlers_resources.go:         *)
(* deleteDomain).                                                          *)
OnlyHistoryIsLeft ==
  /\ OfGone(policies \cup deliveries) = {}
  /\ \A d \in domains : owner[d] \notin Gone \ crossed
  /\ \A row \in OfGone(results) : row.domain \in dropped

(* An override policy of a domain that is gone is there only if somebody   *)
(* was about to save it, or to delete the tenant, when the domain went     *)
(* (handlers_resources.go: handleUpsertDomainPolicy, deleteDomain).        *)
OverridesHaveDomains ==
  \A row \in policies :
    row.domain \in domains \cup {0} \/ row.domain \in crossed \/ row.tenant \in crossed
=============================================================================
