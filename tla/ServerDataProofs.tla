--------------------------- MODULE ServerDataProofs ---------------------------
(***************************************************************************)
(* The properties of the run "server_data", for every value of its         *)
(* constants. What is left of a tenant, and the overrides of domains that  *)
(* are gone, are proved here; and so is what a start of the process finds  *)
(* and leaves, for every value b of the constants of module Bootstrap. Of  *)
(* the accounts and of the starts a behaviour of the run is one of their   *)
(* parts, and each follows from the theorems about it.                     *)
(***************************************************************************)
EXTENDS MCServerData, AccountsProofs, FiniteSetTheorems, WellFoundedInduction

-----------------------------------------------------------------------------
(* The data of tenants.                                                    *)
Checking == {"load", "owner", "record", "reload", "notify"}

(* What a request under way knows of its tenant and its domain.            *)
Busy(r) ==
  LET q == handler[r] IN
  /\ q.at # "idle" => q.tenant \in Tenants /\ q.domain \in 0 .. newest
  /\ q.at # "idle" => (q.kind = "erase" <=> q.at \in {"pluck", "erase"})
  /\ q.at \in Checking => q.domain \in 1 .. newest /\ owner[q.domain] = q.tenant
  /\ q.at \in {"find", "write"} => q.kind \in Kinds \ {"erase"}
  /\ q.at = "write" /\ q.kind = "policy" /\ q.domain # 0 =>
       /\ q.domain \in 1 .. newest /\ owner[q.domain] = q.tenant
       /\ q.domain \in domains \/ q.domain \in crossed \/ q.tenant \in crossed

AllBusy == \A r \in Handlers : Busy(r)

(* Rows are about domains of their tenant; a tenant that is there has all  *)
(* the domains it made, but for those it dropped.                          *)
Owned ==
  /\ \A row \in results : row.domain \in 1 .. newest /\ owner[row.domain] = row.tenant
  /\ \A row \in policies : row.domain # 0 => row.domain \in 1 .. newest /\ owner[row.domain] = row.tenant
  /\ \A d \in 1 .. newest : owner[d] \in tenants => d \in domains \cup dropped

(* Nobody works on a tenant that went while nobody did.                    *)
Quiet == \A t \in Gone \ crossed : Of(t) = {}

DataInv == DataTypeOK /\ AllBusy /\ Owned /\ Quiet /\ OnlyHistoryIsLeft /\ OverridesHaveDomains

-----------------------------------------------------------------------------
(* Steps that move one request and touch no row.                           *)

LEMMA IdleIsFrame == Rest \in Frames /\ Rest.at = "idle"
BY DEF Rest, Frames

(* The facts about the tables that a step does not touch.                  *)
Untouched == UNCHANGED <<tenants, domains, owner, newest, policies, results, deliveries, dropped, crossed>>

(* A request goes to q: it ends, or it is about a tenant that is there, or *)
(* it was about the same tenant before.                                    *)
LEMMA MoveKeepsInv ==
  ASSUME DataInv, NEW r \in Handlers, NEW q \in Frames, handler' = [handler EXCEPT ![r] = q],
         Untouched, work' \in 0 .. MaxWork, Busy(r)',
         \/ q.at = "idle" \/ q.kind = "erase" \/ q.tenant \in tenants
         \/ r \in Of(q.tenant)
  PROVE  DataInv'
<1>1. /\ handler' \in [Handlers -> Frames] /\ handler'[r] = q
      /\ \A s \in Handlers \ {r} : handler'[s] = handler[s]
  BY DEF DataInv, DataTypeOK
<1>2. \A s \in Handlers \ {r} : Busy(s)'
  BY <1>1 DEF DataInv, AllBusy, Busy, Untouched
<1>3. AllBusy'
  BY <1>2 DEF AllBusy
<1>4. \A s \in Handlers : handler'[s].at \in {"record", "reload", "notify"} => owner'[handler'[s].domain] = handler'[s].tenant
  BY <1>3 DEF AllBusy, Busy, Checking
<1>5. DataTypeOK'
  BY <1>1, <1>4 DEF DataInv, DataTypeOK, Untouched
<1>6. Quiet'
  <2> SUFFICES ASSUME NEW t \in Gone \ crossed, NEW s \in Of(t)' PROVE FALSE
    BY DEF Quiet, Gone, Untouched
  <2>1. s \in Handlers /\ Of(t) = {} /\ t \in Tenants /\ t \notin tenants
    BY DEF Of, DataInv, Quiet, Gone
  <2>2. CASE s # r
    BY <1>1, <2>1, <2>2 DEF Of
  <2>3. CASE s = r
    BY <1>1, <2>1, <2>3 DEF Of
  <2> QED
    BY <2>2, <2>3
<1>7. Owned' /\ OnlyHistoryIsLeft' /\ OverridesHaveDomains'
  BY DEF DataInv, Owned, OnlyHistoryIsLeft, OverridesHaveDomains, OfGone, Gone, Untouched
<1> QED
  BY <1>3, <1>5, <1>6, <1>7 DEF DataInv

LEMMA EndKeepsInv ==
  ASSUME DataInv, NEW r \in Handlers, End(r), Reading
  PROVE  DataInv'
<1>1. Rest \in Frames /\ handler' = [handler EXCEPT ![r] = Rest] /\ work' \in 0 .. MaxWork /\ Untouched
  BY IdleIsFrame DEF DataInv, DataTypeOK, End, Reading, Untouched
<1>2. handler'[r].at = "idle"
  BY IdleIsFrame DEF DataInv, DataTypeOK, End
<1>3. Busy(r)'
  BY <1>2 DEF Busy, Checking
<1> QED
  BY <1>1, <1>3, IdleIsFrame, MoveKeepsInv

(* The request goes on about the same tenant and domain.                   *)
LEMMA GoKeepsInv ==
  ASSUME DataInv, NEW r \in Handlers, handler[r].at # "idle",
         NEW q \in Frames, handler' = [handler EXCEPT ![r] = q],
         q.kind = handler[r].kind, q.tenant = handler[r].tenant, q.domain = handler[r].domain,
         Reading, Busy(r)'
  PROVE  DataInv'
<1>1. work' \in 0 .. MaxWork /\ Untouched
  BY DEF DataInv, DataTypeOK, Reading, Untouched
<1>2. q.kind = "erase" \/ r \in Of(q.tenant)
  BY DEF Of
<1> QED
  BY <1>1, <1>2, MoveKeepsInv

LEMMA GoIsLocal ==
  ASSUME DataTypeOK, NEW r \in Handlers, NEW next \in {"write", "load", "owner", "record", "reload", "notify"},
         To(r, next)
  PROVE  /\ [handler[r] EXCEPT !.at = next] \in Frames
         /\ handler' = [handler EXCEPT ![r] = [handler[r] EXCEPT !.at = next]]
         /\ handler'[r] = [handler[r] EXCEPT !.at = next]
         /\ handler'[r].at = next /\ handler'[r].kind = handler[r].kind
         /\ handler'[r].tenant = handler[r].tenant /\ handler'[r].domain = handler[r].domain
BY DEF DataTypeOK, Frames, To

-----------------------------------------------------------------------------
(* The beginning of a request, and its reading statements.                 *)

LEMMA BeginKeepsInv ==
  ASSUME DataInv, NEW r \in Handlers, NEW q \in Frames, Begin(r, q), Busy(r)',
         q.kind = "erase" \/ q.tenant \in tenants
  PROVE  DataInv'
<1>1. work' \in 0 .. MaxWork /\ Untouched /\ handler' = [handler EXCEPT ![r] = q]
  BY TenantDataAssumption DEF DataInv, DataTypeOK, Begin, Untouched
<1> QED
  BY <1>1, MoveKeepsInv

LEMMA EnterStep ==
  ASSUME DataInv, NEW r \in Handlers, NEW k \in Kinds \ {"erase"}, NEW t \in Tenants, NEW d \in DomainIds \cup {0}, Enter(r, k, t, d)
  PROVE  DataInv'
<1> DEFINE q == [Rest EXCEPT !.kind = k, !.tenant = t, !.domain = d,
                             !.at = IF k \in {"create", "drop"} \/ d = 0 THEN "write" ELSE "find"]
<1>1. q \in Frames /\ q.kind = k /\ q.tenant = t /\ q.domain = d /\ q.at \in {"find", "write"}
      /\ (q.at = "write" /\ k = "policy" => d = 0)
  BY DEF Rest, Frames, Kinds
<1>2. Begin(r, q) /\ t \in tenants
  BY DEF Enter
<1> HIDE DEF q
<1>3. handler'[r] = q /\ newest' = newest /\ owner' = owner /\ newest \in 0 .. MaxDomains
  BY <1>2 DEF Begin, DataInv, DataTypeOK
<1>4. d \in 0 .. newest
  BY <1>3, TenantDataAssumption DEF Enter, DomainIds
<1>5. Busy(r)'
  BY <1>1, <1>3, <1>4 DEF Busy, Checking, Kinds
<1> QED
  BY <1>1, <1>2, <1>5, BeginKeepsInv

LEMMA DispatchStep ==
  ASSUME DataInv, NEW r \in Handlers, NEW d \in DomainIds, Dispatch(r, d)
  PROVE  DataInv'
<1> DEFINE q == [Rest EXCEPT !.at = "load", !.kind = "check", !.tenant = owner[d], !.domain = d]
<1>1. Begin(r, q) /\ owner[d] \in tenants /\ owner[d] \in Tenants /\ d \in 1 .. newest /\ newest \in 0 .. MaxDomains
  BY DEF Dispatch, DataInv, DataTypeOK
<1>2. q \in Frames /\ q.kind = "check" /\ q.tenant = owner[d] /\ q.domain = d /\ q.at = "load"
  BY <1>1 DEF Rest, Frames, Kinds
<1> HIDE DEF q
<1>3. handler'[r] = q /\ newest' = newest /\ owner' = owner
  BY <1>1 DEF Begin, DataInv, DataTypeOK
<1>4. Busy(r)'
  BY <1>1, <1>2, <1>3 DEF Busy, Checking
<1> QED
  BY <1>1, <1>2, <1>4, BeginKeepsInv

LEMMA LoadTenantStep ==
  ASSUME DataInv, NEW r \in Handlers, NEW t \in Tenants, LoadTenant(r, t)
  PROVE  DataInv'
<1> DEFINE q == [Rest EXCEPT !.at = "pluck", !.kind = "erase", !.tenant = t]
<1>1. q \in Frames /\ q.kind = "erase" /\ q.tenant = t /\ q.domain = 0 /\ q.at = "pluck"
  BY DEF Rest, Frames, Kinds
<1>2. Begin(r, q)
  BY DEF LoadTenant
<1> HIDE DEF q
<1>3. handler'[r] = q /\ newest' = newest /\ newest \in 0 .. MaxDomains
  BY <1>2 DEF Begin, DataInv, DataTypeOK
<1>4. 0 \in 0 .. newest
  BY <1>3, TenantDataAssumption
<1>5. Busy(r)'
  BY <1>1, <1>3, <1>4 DEF Busy, Checking
<1> QED
  BY <1>1, <1>2, <1>5, BeginKeepsInv

LEMMA FindDomainStep ==
  ASSUME DataInv, NEW r \in Handlers, FindDomain(r)
  PROVE  DataInv'
<1>1. Reading /\ handler[r].at = "find" /\ Busy(r) /\ DataTypeOK
  BY DEF FindDomain, DataInv, AllBusy
<1>2. CASE End(r)
  BY <1>1, <1>2, EndKeepsInv
<1>3. CASE /\ handler[r].domain \in domains /\ owner[handler[r].domain] = handler[r].tenant
           /\ To(r, IF handler[r].kind = "check" THEN "load" ELSE "write")
  <2>1. PICK next \in {"write", "load"} : To(r, next) /\ (next = "load" <=> handler[r].kind = "check")
    BY <1>3
  <2> DEFINE q == [handler[r] EXCEPT !.at = next]
  <2>2. /\ q \in Frames /\ handler' = [handler EXCEPT ![r] = q]
        /\ handler'[r].at = next /\ handler'[r].kind = handler[r].kind
        /\ handler'[r].tenant = handler[r].tenant /\ handler'[r].domain = handler[r].domain
        /\ handler'[r] = q
    <3>1. next \in {"write", "load", "owner", "record", "reload", "notify"}
      OBVIOUS
    <3> QED
      BY <1>1, <2>1, <3>1, GoIsLocal
  <2> HIDE DEF q
  <2>3. handler[r].domain \in 1 .. newest
    BY <1>1, <1>3 DEF DataTypeOK
  <2>4. UNCHANGED <<owner, newest, domains, crossed>>
    BY <1>1 DEF Reading
  <2>5. Busy(r)'
    BY <1>1, <1>3, <2>1, <2>2, <2>3, <2>4 DEF Busy, Checking
  <2> QED
    BY <1>1, <2>2, <2>5, GoKeepsInv
<1> QED
  BY <1>2, <1>3 DEF FindDomain

(* A check goes from one of its statements to the next.                    *)
LEMMA CheckGoesOn ==
  ASSUME DataInv, NEW r \in Handlers, handler[r].at \in Checking, Reading, NEW next \in Checking, To(r, next)
  PROVE  DataInv'
<1> DEFINE q == [handler[r] EXCEPT !.at = next]
<1>1. DataTypeOK /\ Busy(r) /\ handler[r].at # "idle"
  BY DEF DataInv, AllBusy, Checking
<1>2. /\ q \in Frames /\ handler' = [handler EXCEPT ![r] = q] /\ handler'[r] = q
      /\ handler'[r].at = next /\ handler'[r].kind = handler[r].kind
      /\ handler'[r].tenant = handler[r].tenant /\ handler'[r].domain = handler[r].domain
  <2>1. next \in {"write", "load", "owner", "record", "reload", "notify"}
    BY DEF Checking
  <2> QED
    BY <1>1, <2>1, GoIsLocal
<1> HIDE DEF q
<1>3. UNCHANGED <<owner, newest, domains, crossed>>
  BY DEF Reading
<1>4. Busy(r)'
  BY <1>1, <1>2, <1>3 DEF Busy, Checking
<1> QED
  BY <1>1, <1>2, <1>4, GoKeepsInv

LEMMA CheckReadsStep ==
  ASSUME DataInv, NEW r \in Handlers, LoadDomain(r) \/ LoadOwner(r) \/ Reload(r)
  PROVE  DataInv'
<1>1. Reading /\ handler[r].at \in Checking /\ (End(r) \/ \E next \in Checking : To(r, next))
  BY DEF LoadDomain, LoadOwner, Reload, Checking
<1> QED
  BY <1>1, EndKeepsInv, CheckGoesOn

LEMMA PluckStep ==
  ASSUME DataInv, NEW r \in Handlers, Pluck(r)
  PROVE  DataInv'
<1>1. DataTypeOK /\ Busy(r) /\ handler[r].at = "pluck" /\ Reading
  BY DEF DataInv, AllBusy, Pluck
<1> DEFINE found == {d \in domains : owner[d] = handler[r].tenant}
           q == [handler[r] EXCEPT !.at = "erase", !.found = found]
<1>2. found \in SUBSET DomainIds
  <2>1. domains \subseteq 1 .. newest /\ newest \in 0 .. MaxDomains
    BY <1>1 DEF DataTypeOK
  <2>2. domains \subseteq DomainIds
    BY <2>1, TenantDataAssumption DEF DomainIds
  <2> QED
    BY <2>2
<1>3. handler' = [handler EXCEPT ![r] = q] /\ handler[r] \in Frames
  BY <1>1 DEF Pluck, DataTypeOK
<1> HIDE DEF found
<1>4. q \in Frames /\ handler'[r] = q /\ q.at = "erase" /\ q.kind = handler[r].kind
      /\ q.tenant = handler[r].tenant /\ q.domain = handler[r].domain
  BY <1>1, <1>2, <1>3 DEF Frames, DataTypeOK
<1> HIDE DEF q
<1>5. UNCHANGED <<owner, newest, domains, crossed>>
  BY <1>1 DEF Reading
<1>6. Busy(r)'
  BY <1>1, <1>4, <1>5 DEF Busy, Checking
<1> QED
  BY <1>1, <1>3, <1>4, <1>6, GoKeepsInv

LEMMA FailStep ==
  ASSUME DataInv, NEW r \in Handlers, Fail(r)
  PROVE  DataInv'
BY EndKeepsInv DEF Fail

-----------------------------------------------------------------------------
(* The statements that write.                                              *)

LEMMA EndFacts ==
  ASSUME DataTypeOK, NEW r \in Handlers, End(r)
  PROVE  /\ handler' \in [Handlers -> Frames] /\ handler'[r].at = "idle"
         /\ \A s \in Handlers \ {r} : handler'[s] = handler[s]
         /\ \A t \in Tenants : Of(t)' = Of(t) \ {r}
<1>1. /\ handler' \in [Handlers -> Frames] /\ handler'[r].at = "idle"
      /\ \A s \in Handlers \ {r} : handler'[s] = handler[s]
  BY IdleIsFrame DEF DataTypeOK, End
<1>2. \A t \in Tenants : Of(t)' = Of(t) \ {r}
  BY <1>1 DEF Of
<1> QED
  BY <1>1, <1>2

(* A request at a statement of its own is at work on its tenant, so that   *)
(* the tenant is there or did not go in silence.                           *)
LEMMA WorkerIsSeen ==
  ASSUME DataInv, NEW r \in Handlers, handler[r].at \in {"write"} \cup Checking
  PROVE  /\ handler[r].tenant \in Tenants /\ handler[r].kind # "erase"
         /\ r \in Of(handler[r].tenant)
         /\ handler[r].tenant \in tenants \cup crossed
<1>1. Busy(r) /\ handler[r].at # "idle" /\ handler[r].at \notin {"pluck", "erase"}
  BY DEF DataInv, AllBusy, Checking
<1>2. handler[r].tenant \in Tenants /\ handler[r].kind # "erase"
  BY <1>1 DEF Busy
<1>3. r \in Of(handler[r].tenant)
  BY <1>1, <1>2 DEF Of
<1> QED
  BY <1>2, <1>3 DEF DataInv, Quiet, Gone

LEMMA SavePolicyStep ==
  ASSUME DataInv, NEW r \in Handlers, SavePolicy(r)
  PROVE  DataInv'
<1> DEFINE mine == [tenant |-> handler[r].tenant, domain |-> handler[r].domain]
<1>1. /\ DataTypeOK /\ Busy(r) /\ End(r) /\ handler[r].at = "write" /\ handler[r].at # "idle"
      /\ UNCHANGED <<tenants, domains, owner, newest, results, deliveries, work, dropped, crossed>>
  BY DEF SavePolicy, DataInv, AllBusy
<1>2. (policies' = policies \cup {mine} /\ handler[r].kind = "policy") \/ policies' \subseteq policies
  BY DEF SavePolicy
<1>3. /\ handler[r].tenant \in Tenants /\ handler[r].domain \in 0 .. newest /\ newest \in 0 .. MaxDomains
      /\ handler[r].tenant \in tenants \cup crossed
  BY <1>1, WorkerIsSeen DEF Busy, DataTypeOK
<1>4. handler[r].domain \in DomainIds \cup {0}
  BY <1>3, TenantDataAssumption DEF DomainIds
<1>5. mine \in Row /\ mine.tenant = handler[r].tenant /\ mine.domain = handler[r].domain
  BY <1>3, <1>4 DEF Row
<1>6. handler[r].kind = "policy" /\ mine.domain # 0 =>
        /\ mine.domain \in 1 .. newest /\ owner[mine.domain] = mine.tenant
        /\ mine.domain \in domains \/ mine.domain \in crossed \/ mine.tenant \in crossed
  BY <1>1, <1>5 DEF Busy
<1>7. mine.tenant \notin Gone \ crossed
  BY <1>3, <1>5 DEF Gone
<1> HIDE DEF mine
<1>8. /\ handler' \in [Handlers -> Frames] /\ handler'[r].at = "idle"
      /\ \A s \in Handlers \ {r} : handler'[s] = handler[s]
      /\ \A t \in Tenants : Of(t)' = Of(t) \ {r}
  BY <1>1, EndFacts
<1>9. AllBusy'
  <2>1. Busy(r)'
    BY <1>8 DEF Busy, Checking
  <2>2. \A s \in Handlers \ {r} : Busy(s)'
    BY <1>1, <1>8 DEF DataInv, AllBusy, Busy
  <2> QED
    BY <2>1, <2>2 DEF AllBusy
<1>10. DataTypeOK'
  <2>1. policies' \subseteq Row
    BY <1>1, <1>2, <1>5 DEF DataTypeOK
  <2>2. \A s \in Handlers : handler'[s].at \in {"record", "reload", "notify"} => owner'[handler'[s].domain] = handler'[s].tenant
    BY <1>9 DEF AllBusy, Busy, Checking
  <2> QED
    BY <1>1, <1>8, <2>1, <2>2 DEF DataTypeOK
<1>11. Owned'
  BY <1>1, <1>2, <1>6 DEF DataInv, Owned
<1>12. Quiet'
  BY <1>1, <1>8 DEF DataInv, Quiet, Gone
<1>13. OnlyHistoryIsLeft'
  <2>1. OfGone(results)' = OfGone(results) /\ OfGone(deliveries)' = OfGone(deliveries)
    BY <1>1 DEF OfGone, Gone
  <2>2. OfGone(policies)' \subseteq OfGone(policies)
    BY <1>1, <1>2, <1>7 DEF OfGone, Gone
  <2>3. OfGone(policies \cup deliveries)' = {}
    BY <2>1, <2>2 DEF DataInv, OnlyHistoryIsLeft, OfGone
  <2>4. \A d \in domains' : owner'[d] \notin (Gone \ crossed)'
    BY <1>1 DEF DataInv, OnlyHistoryIsLeft, Gone
  <2> QED
    BY <1>1, <2>1, <2>3, <2>4 DEF DataInv, OnlyHistoryIsLeft
<1>14. OverridesHaveDomains'
  BY <1>1, <1>2, <1>6 DEF DataInv, OverridesHaveDomains
<1> QED
  BY <1>9, <1>10, <1>11, <1>12, <1>13, <1>14 DEF DataInv

LEMMA RecordStep ==
  ASSUME DataInv, NEW r \in Handlers, Record(r)
  PROVE  DataInv'
<1>1. /\ DataTypeOK /\ Busy(r) /\ To(r, "reload") /\ handler[r].at = "record" /\ handler[r].at \in Checking
      /\ results' = results \cup {RowOf(r)}
      /\ UNCHANGED <<tenants, domains, owner, newest, policies, deliveries, work, dropped, crossed>>
  BY DEF Record, DataInv, AllBusy, Checking
<1>2. /\ handler[r].tenant \in Tenants /\ handler[r].domain \in 1 .. newest /\ newest \in 0 .. MaxDomains
      /\ handler[r].tenant \in tenants \cup crossed /\ owner[handler[r].domain] = handler[r].tenant
      /\ r \in Of(handler[r].tenant)
  BY <1>1, WorkerIsSeen DEF Busy, DataTypeOK
<1>3. RowOf(r) \in Row /\ RowOf(r).tenant = handler[r].tenant /\ RowOf(r).domain = handler[r].domain
  <2>1. handler[r].domain \in DomainIds \cup {0}
    BY <1>2, TenantDataAssumption DEF DomainIds
  <2> QED
    BY <1>2, <2>1 DEF Row, RowOf
<1>4. /\ handler' \in [Handlers -> Frames] /\ handler'[r].at = "reload" /\ handler'[r].kind = handler[r].kind
      /\ handler'[r].tenant = handler[r].tenant /\ handler'[r].domain = handler[r].domain
      /\ \A s \in Handlers \ {r} : handler'[s] = handler[s]
  <2>1. [handler[r] EXCEPT !.at = "reload"] \in Frames /\ handler' = [handler EXCEPT ![r] = [handler[r] EXCEPT !.at = "reload"]]
        /\ handler'[r].at = "reload" /\ handler'[r].kind = handler[r].kind
        /\ handler'[r].tenant = handler[r].tenant /\ handler'[r].domain = handler[r].domain
    BY <1>1, GoIsLocal
  <2> QED
    BY <1>1, <2>1 DEF DataTypeOK
<1>5. AllBusy'
  <2>1. Busy(r)'
    BY <1>1, <1>2, <1>4 DEF Busy, Checking
  <2>2. \A s \in Handlers \ {r} : Busy(s)'
    BY <1>1, <1>4 DEF DataInv, AllBusy, Busy
  <2> QED
    BY <2>1, <2>2 DEF AllBusy
<1>6. DataTypeOK'
  <2>1. \A s \in Handlers : handler'[s].at \in {"record", "reload", "notify"} => owner'[handler'[s].domain] = handler'[s].tenant
    BY <1>5 DEF AllBusy, Busy, Checking
  <2> QED
    BY <1>1, <1>3, <1>4, <2>1 DEF DataTypeOK
<1>7. Owned'
  BY <1>1, <1>2, <1>3 DEF DataInv, Owned
<1>8. Quiet'
  <2>1. \A t \in Tenants : Of(t)' = Of(t)
    BY <1>1, <1>4 DEF Of
  <2> QED
    BY <1>1, <2>1 DEF DataInv, Quiet, Gone
<1>9. OnlyHistoryIsLeft'
  <2>1. RowOf(r).tenant \notin Gone \ crossed
    BY <1>2, <1>3 DEF Gone
  <2>2. OfGone(results)' \subseteq OfGone(results)
    BY <1>1, <2>1 DEF OfGone, Gone
  <2>3. OfGone(policies \cup deliveries)' = OfGone(policies \cup deliveries)
    BY <1>1 DEF OfGone, Gone
  <2>4. \A d \in domains' : owner'[d] \notin (Gone \ crossed)'
    BY <1>1 DEF DataInv, OnlyHistoryIsLeft, Gone
  <2> QED
    BY <1>1, <2>2, <2>3, <2>4 DEF DataInv, OnlyHistoryIsLeft
<1>10. OverridesHaveDomains'
  BY <1>1 DEF DataInv, OverridesHaveDomains
<1> QED
  BY <1>5, <1>6, <1>7, <1>8, <1>9, <1>10 DEF DataInv

LEMMA NotifyStep ==
  ASSUME DataInv, NEW r \in Handlers, NEW tells \in BOOLEAN, Notify(r, tells)
  PROVE  DataInv'
<1>1. /\ DataTypeOK /\ Busy(r) /\ End(r) /\ handler[r].at = "notify" /\ handler[r].at \in Checking
      /\ deliveries' \subseteq deliveries \cup {RowOf(r)}
      /\ UNCHANGED <<tenants, domains, owner, newest, policies, results, work, dropped, crossed>>
  BY DEF Notify, DataInv, AllBusy, Checking
<1>2. /\ handler[r].tenant \in Tenants /\ handler[r].domain \in 1 .. newest /\ newest \in 0 .. MaxDomains
      /\ handler[r].tenant \in tenants \cup crossed
  BY <1>1, WorkerIsSeen DEF Busy, DataTypeOK
<1>3. RowOf(r) \in Row /\ RowOf(r).tenant = handler[r].tenant
  <2>1. handler[r].domain \in DomainIds \cup {0}
    BY <1>2, TenantDataAssumption DEF DomainIds
  <2> QED
    BY <1>2, <2>1 DEF Row, RowOf
<1>4. /\ handler' \in [Handlers -> Frames] /\ handler'[r].at = "idle"
      /\ \A s \in Handlers \ {r} : handler'[s] = handler[s]
      /\ \A t \in Tenants : Of(t)' = Of(t) \ {r}
  BY <1>1, EndFacts
<1>5. AllBusy'
  <2>1. Busy(r)'
    BY <1>4 DEF Busy, Checking
  <2>2. \A s \in Handlers \ {r} : Busy(s)'
    BY <1>1, <1>4 DEF DataInv, AllBusy, Busy
  <2> QED
    BY <2>1, <2>2 DEF AllBusy
<1>6. DataTypeOK'
  <2>1. \A s \in Handlers : handler'[s].at \in {"record", "reload", "notify"} => owner'[handler'[s].domain] = handler'[s].tenant
    BY <1>5 DEF AllBusy, Busy, Checking
  <2>2. deliveries' \subseteq Row
    BY <1>1, <1>3 DEF DataTypeOK
  <2> QED
    BY <1>1, <1>4, <2>1, <2>2 DEF DataTypeOK
<1>7. Owned' /\ OverridesHaveDomains'
  BY <1>1 DEF DataInv, Owned, OverridesHaveDomains
<1>8. Quiet'
  BY <1>1, <1>4 DEF DataInv, Quiet, Gone
<1>9. OnlyHistoryIsLeft'
  <2>1. RowOf(r).tenant \notin Gone \ crossed
    BY <1>2, <1>3 DEF Gone
  <2>2. OfGone(policies \cup deliveries)' \subseteq OfGone(policies \cup deliveries)
    BY <1>1, <2>1 DEF OfGone, Gone
  <2>3. OfGone(results)' = OfGone(results)
    BY <1>1 DEF OfGone, Gone
  <2>4. \A d \in domains' : owner'[d] \notin (Gone \ crossed)'
    BY <1>1 DEF DataInv, OnlyHistoryIsLeft, Gone
  <2> QED
    BY <1>1, <2>2, <2>3, <2>4 DEF DataInv, OnlyHistoryIsLeft
<1> QED
  BY <1>5, <1>6, <1>7, <1>8, <1>9 DEF DataInv

LEMMA CreateDomainStep ==
  ASSUME DataInv, NEW r \in Handlers, CreateDomain(r)
  PROVE  DataInv'
<1>1. /\ DataTypeOK /\ Busy(r) /\ End(r) /\ handler[r].at = "write"
      /\ newest < MaxDomains /\ newest' = newest + 1 /\ newest \in 0 .. MaxDomains
      /\ domains' = domains \cup {newest'}
      /\ owner' = [owner EXCEPT ![newest'] = handler[r].tenant]
      /\ UNCHANGED <<tenants, policies, results, deliveries, work, dropped, crossed>>
  BY DEF CreateDomain, DataInv, AllBusy, DataTypeOK
<1>2. handler[r].tenant \in Tenants /\ handler[r].tenant \in tenants \cup crossed /\ handler[r].tenant # Nobody
  BY <1>1, WorkerIsSeen, TenantDataAssumption
<1>3. newest + 1 \in DomainIds /\ newest' \in 0 .. MaxDomains /\ newest \in Nat /\ 1 .. newest \subseteq DomainIds
      /\ 1 .. newest' = 1 .. newest \cup {newest + 1} /\ newest + 1 \notin 1 .. newest
      /\ 0 .. newest \subseteq 0 .. newest'
  BY <1>1, TenantDataAssumption DEF DomainIds
<1>4. PICK k \in DomainIds : k = newest + 1
  BY <1>3
<1>5. /\ owner' \in [DomainIds -> Tenants \cup {Nobody}] /\ owner'[k] = handler[r].tenant
      /\ \A d \in DomainIds : d # k => owner'[d] = owner[d]
      /\ \A d \in 1 .. newest : owner'[d] = owner[d]
  BY <1>1, <1>2, <1>3, <1>4 DEF DataTypeOK
<1>6. /\ handler' \in [Handlers -> Frames] /\ handler'[r].at = "idle"
      /\ \A s \in Handlers \ {r} : handler'[s] = handler[s]
      /\ \A t \in Tenants : Of(t)' = Of(t) \ {r}
  BY <1>1, EndFacts
<1>7. AllBusy'
  <2>1. Busy(r)'
    BY <1>6 DEF Busy, Checking
  <2>2. ASSUME NEW s \in Handlers \ {r} PROVE Busy(s)'
    <3>1. handler'[s] = handler[s] /\ Busy(s)
      BY <1>6 DEF DataInv, AllBusy
    <3> QED
      BY <1>1, <1>3, <1>5, <3>1 DEF Busy
  <2> QED
    BY <2>1, <2>2 DEF AllBusy
<1>8. DataTypeOK'
  <2>1. \A s \in Handlers : handler'[s].at \in {"record", "reload", "notify"} => owner'[handler'[s].domain] = handler'[s].tenant
    BY <1>7 DEF AllBusy, Busy, Checking
  <2>2. \A d \in DomainIds : (owner'[d] = Nobody) = (d > newest')
    <3> SUFFICES ASSUME NEW d \in DomainIds PROVE (owner'[d] = Nobody) = (d > newest')
      OBVIOUS
    <3>1. CASE d = k
      BY <1>1, <1>2, <1>3, <1>4, <1>5, <3>1
    <3>2. CASE d # k
      <4>1. owner'[d] = owner[d] /\ (owner[d] = Nobody) = (d > newest)
        BY <1>1, <1>5, <3>2 DEF DataTypeOK
      <4>2. (d > newest) = (d > newest')
        BY <1>1, <1>4, <3>2 DEF DomainIds
      <4> QED
        BY <4>1, <4>2
    <3> QED
      BY <3>1, <3>2
  <2>3. domains' \subseteq 1 .. newest' /\ dropped' \subseteq (1 .. newest') \ domains'
    BY <1>1, <1>3 DEF DataTypeOK
  <2> QED
    BY <1>1, <1>3, <1>5, <1>6, <2>1, <2>2, <2>3 DEF DataTypeOK
<1>9. Owned'
  <2>1. \A d \in 1 .. newest' : owner'[d] \in tenants' => d \in domains' \cup dropped'
    BY <1>1, <1>3, <1>5 DEF DataInv, Owned
  <2>2. \A row \in results' : row.domain \in 1 .. newest' /\ owner'[row.domain] = row.tenant
    BY <1>1, <1>3, <1>5 DEF DataInv, Owned
  <2>3. \A row \in policies' : row.domain # 0 => row.domain \in 1 .. newest' /\ owner'[row.domain] = row.tenant
    BY <1>1, <1>3, <1>5 DEF DataInv, Owned
  <2> QED
    BY <2>1, <2>2, <2>3 DEF Owned
<1>10. Quiet'
  BY <1>1, <1>6 DEF DataInv, Quiet, Gone
<1>11. OnlyHistoryIsLeft'
  <2>1. OfGone(policies \cup deliveries)' = OfGone(policies \cup deliveries) /\ OfGone(results)' = OfGone(results)
    BY <1>1 DEF OfGone, Gone
  <2>2. ASSUME NEW d \in domains' PROVE owner'[d] \notin (Gone \ crossed)'
    <3>1. CASE d = k
      BY <1>1, <1>2, <1>5, <3>1 DEF Gone
    <3>2. CASE d # k
      <4>1. d \in domains /\ d \in 1 .. newest
        BY <1>1, <1>4, <3>2 DEF DataTypeOK
      <4> QED
        BY <1>1, <1>5, <4>1 DEF DataInv, OnlyHistoryIsLeft, Gone
    <3> QED
      BY <3>1, <3>2
  <2> QED
    BY <1>1, <2>1, <2>2 DEF DataInv, OnlyHistoryIsLeft
<1>12. OverridesHaveDomains'
  BY <1>1 DEF DataInv, OverridesHaveDomains
<1> QED
  BY <1>7, <1>8, <1>9, <1>10, <1>11, <1>12 DEF DataInv

(* A request that ends without writing anything.                           *)
LEMMA EndedKeepsInv ==
  ASSUME DataInv, NEW r \in Handlers, End(r), Untouched, work' = work
  PROVE  DataInv'
BY EndKeepsInv DEF Reading, Untouched

LEMMA DropDomainStep ==
  ASSUME DataInv, NEW r \in Handlers, DropDomain(r)
  PROVE  DataInv'
<1> DEFINE t == handler[r].tenant
           d == handler[r].domain
<1>1. DataTypeOK /\ End(r) /\ handler[r].at = "write" /\ UNCHANGED <<tenants, owner, newest, results, deliveries, work>>
  BY DEF DropDomain, DataInv
<1>2. CASE UNCHANGED <<domains, policies, dropped, crossed>>
  BY <1>1, <1>2, EndedKeepsInv DEF Untouched
<1>3. CASE /\ d \in domains /\ owner[d] = t
           /\ domains' = domains \ {d}
           /\ policies' = policies \ {[tenant |-> t, domain |-> d]}
           /\ dropped' = dropped \cup {d}
           /\ crossed' = IF About(t, d) \ {r} = {} THEN crossed ELSE crossed \cup {d}
  <2>1. d \in 1 .. newest /\ d \in DomainIds /\ newest \in 0 .. MaxDomains
    <3>1. d \in 1 .. newest /\ newest \in 0 .. MaxDomains
      BY <1>1, <1>3 DEF DataTypeOK
    <3> QED
      BY <3>1, TenantDataAssumption DEF DomainIds
  <2>2. crossed \subseteq crossed' /\ crossed' \subseteq crossed \cup {d}
    BY <1>3
  <2>3. /\ handler' \in [Handlers -> Frames] /\ handler'[r].at = "idle"
        /\ \A s \in Handlers \ {r} : handler'[s] = handler[s]
        /\ \A u \in Tenants : Of(u)' = Of(u) \ {r}
    BY <1>1, EndFacts
  <2>4. AllBusy'
    <3>1. Busy(r)'
      BY <2>3 DEF Busy, Checking
    <3>2. ASSUME NEW s \in Handlers \ {r} PROVE Busy(s)'
      <4>1. handler'[s] = handler[s] /\ Busy(s)
        BY <2>3 DEF DataInv, AllBusy
      <4>2. ASSUME handler[s].at = "write", handler[s].kind = "policy", handler[s].domain # 0
            PROVE  handler[s].domain \in domains' \/ handler[s].domain \in crossed' \/ handler[s].tenant \in crossed'
        <5>1. CASE handler[s].domain = d
          <6>1. handler[s].tenant = t
            BY <1>3, <4>1, <4>2, <5>1 DEF Busy
          <6>2. s \in About(t, d) \ {r}
            BY <4>2, <5>1, <6>1 DEF About
          <6> QED
            BY <1>3, <5>1, <6>2
        <5>2. CASE handler[s].domain # d
          BY <1>3, <2>2, <4>1, <4>2, <5>2 DEF Busy
        <5> QED
          BY <5>1, <5>2
      <4> QED
        BY <1>1, <4>1, <4>2 DEF Busy
    <3> QED
      BY <3>1, <3>2 DEF AllBusy
  <2>5. DataTypeOK'
    <3>1. \A s \in Handlers : handler'[s].at \in {"record", "reload", "notify"} => owner'[handler'[s].domain] = handler'[s].tenant
      BY <2>4 DEF AllBusy, Busy, Checking
    <3>2. domains' \subseteq 1 .. newest' /\ dropped' \subseteq (1 .. newest') \ domains' /\ policies' \subseteq Row
          /\ crossed' \subseteq DomainIds \cup Tenants
      BY <1>1, <1>3, <2>1, <2>2 DEF DataTypeOK
    <3> QED
      BY <1>1, <2>3, <3>1, <3>2 DEF DataTypeOK
  <2>6. Owned'
    BY <1>1, <1>3 DEF DataInv, Owned
  <2>7. Quiet'
    BY <1>1, <2>2, <2>3 DEF DataInv, Quiet, Gone
  <2>8. OnlyHistoryIsLeft'
    <3>1. (Gone \ crossed)' \subseteq Gone \ crossed
      BY <1>1, <2>2 DEF Gone
    <3>2. OfGone(policies \cup deliveries)' \subseteq OfGone(policies \cup deliveries)
          /\ OfGone(results)' \subseteq OfGone(results)
      BY <1>1, <1>3, <3>1 DEF OfGone
    <3>3. \A e \in domains' : owner'[e] \notin (Gone \ crossed)'
      BY <1>1, <1>3, <3>1 DEF DataInv, OnlyHistoryIsLeft
    <3> QED
      BY <1>3, <3>2, <3>3 DEF DataInv, OnlyHistoryIsLeft
  <2>9. OverridesHaveDomains'
    <3> SUFFICES ASSUME NEW row \in policies'
                 PROVE  row.domain \in domains' \cup {0} \/ row.domain \in crossed' \/ row.tenant \in crossed'
      BY DEF OverridesHaveDomains
    <3>1. row \in policies /\ row \in Row
      BY <1>1, <1>3 DEF DataTypeOK
    <3>2. CASE row.domain = d
      <4>1. d # 0
        BY <2>1
      <4>2. row.tenant = t
        BY <1>3, <3>1, <3>2, <4>1 DEF DataInv, Owned
      <4>3. row = [tenant |-> t, domain |-> d]
        BY <3>1, <3>2, <4>2 DEF Row
      <4> QED
        BY <1>3, <4>3
    <3>3. CASE row.domain # d
      BY <1>3, <2>2, <3>1, <3>3 DEF DataInv, OverridesHaveDomains
    <3> QED
      BY <3>2, <3>3
  <2> QED
    BY <2>4, <2>5, <2>6, <2>7, <2>8, <2>9 DEF DataInv
<1> QED
  BY <1>2, <1>3 DEF DropDomain

LEMMA EraseStep ==
  ASSUME DataInv, NEW r \in Handlers, Erase(r)
  PROVE  DataInv'
<1> DEFINE t == handler[r].tenant
<1>1. /\ DataTypeOK /\ End(r) /\ handler[r].at = "erase" /\ Busy(r)
      /\ UNCHANGED <<owner, newest, work, dropped>>
  BY DEF Erase, DataInv, AllBusy
<1>2. CASE UNCHANGED <<tenants, domains, results, policies, deliveries, crossed>>
  BY <1>1, <1>2, EndedKeepsInv DEF Untouched
<1>3. CASE /\ t \in tenants
           /\ tenants' = tenants \ {t}
           /\ domains' = {d \in domains : owner[d] # t}
           /\ results' = {row \in results : row.domain \notin handler[r].found}
           /\ policies' = NotOf(policies, t) /\ deliveries' = NotOf(deliveries, t)
           /\ crossed' = IF Crossing(r) THEN crossed \cup {t} ELSE crossed
  <2>1. t \in Tenants /\ handler[r].kind = "erase" /\ r \notin Of(t) /\ t \notin Gone
    BY <1>1, <1>3 DEF Busy, Of, DataTypeOK, Gone
  <2>2. crossed \subseteq crossed' /\ crossed' \subseteq crossed \cup {t} /\ domains' \subseteq domains
        /\ results' \subseteq results /\ policies' \subseteq policies /\ deliveries' \subseteq deliveries
        /\ tenants' \subseteq tenants
    BY <1>3 DEF NotOf
  <2>3. /\ handler' \in [Handlers -> Frames] /\ handler'[r].at = "idle"
        /\ \A s \in Handlers \ {r} : handler'[s] = handler[s]
        /\ \A u \in Tenants : Of(u)' = Of(u) \ {r}
    BY <1>1, EndFacts
  <2>4. ASSUME t \notin crossed'
        PROVE  Of(t) = {} /\ {d \in domains : owner[d] = t} = handler[r].found
    BY <1>3, <2>4 DEF Crossing
  <2>5. (Gone \ crossed)' \subseteq (Gone \ crossed) \cup {t}
    BY <1>3, <2>2 DEF Gone
  <2>6. AllBusy'
    <3>1. Busy(r)'
      BY <2>3 DEF Busy, Checking
    <3>2. ASSUME NEW s \in Handlers \ {r} PROVE Busy(s)'
      <4>1. handler'[s] = handler[s] /\ Busy(s)
        BY <2>3 DEF DataInv, AllBusy
      <4>2. ASSUME handler[s].at = "write", handler[s].kind = "policy", handler[s].domain # 0
            PROVE  handler[s].domain \in domains' \/ handler[s].domain \in crossed' \/ handler[s].tenant \in crossed'
        <5>1. CASE handler[s].tenant = t
          <6>1. s \in Of(t)
            BY <4>2, <5>1 DEF Of
          <6> QED
            BY <2>4, <5>1, <6>1
        <5>2. CASE handler[s].tenant # t
          BY <1>3, <2>2, <4>1, <4>2, <5>2 DEF Busy
        <5> QED
          BY <5>1, <5>2
      <4> QED
        BY <1>1, <4>1, <4>2 DEF Busy
    <3> QED
      BY <3>1, <3>2 DEF AllBusy
  <2>7. DataTypeOK'
    <3>1. \A s \in Handlers : handler'[s].at \in {"record", "reload", "notify"} => owner'[handler'[s].domain] = handler'[s].tenant
      BY <2>6 DEF AllBusy, Busy, Checking
    <3>2. /\ tenants' \subseteq Tenants /\ domains' \subseteq 1 .. newest' /\ dropped' \subseteq (1 .. newest') \ domains'
          /\ policies' \subseteq Row /\ results' \subseteq Row /\ deliveries' \subseteq Row
          /\ crossed' \subseteq DomainIds \cup Tenants
      BY <1>1, <2>1, <2>2 DEF DataTypeOK
    <3> QED
      BY <1>1, <2>3, <3>1, <3>2 DEF DataTypeOK
  <2>8. Owned'
    BY <1>1, <1>3, <2>2 DEF DataInv, Owned
  <2>9. Quiet'
    BY <2>1, <2>3, <2>4, <2>5 DEF DataInv, Quiet, Gone
  <2>10. OnlyHistoryIsLeft'
    <3>1. OfGone(policies \cup deliveries)' \subseteq OfGone(policies \cup deliveries)
      BY <1>3, <2>5 DEF OfGone, NotOf
    <3>2. \A d \in domains' : owner'[d] \notin (Gone \ crossed)'
      BY <1>1, <1>3, <2>5 DEF DataInv, OnlyHistoryIsLeft
    <3>3. ASSUME NEW row \in OfGone(results)' PROVE row.domain \in dropped'
      <4>1. row \in results /\ row \in results' /\ row.tenant \in (Gone \ crossed)'
        BY <2>2 DEF OfGone
      <4>2. CASE row.tenant = t
        <5>1. row.domain \in 1 .. newest /\ owner[row.domain] = t
          BY <4>1, <4>2 DEF DataInv, Owned
        <5>2. row.domain \notin domains
          BY <1>3, <2>4, <4>1, <4>2, <5>1
        <5> QED
          BY <1>1, <1>3, <5>1, <5>2 DEF DataInv, Owned
      <4>3. CASE row.tenant # t
        BY <1>1, <2>5, <4>1, <4>3 DEF DataInv, OnlyHistoryIsLeft, OfGone
      <4> QED
        BY <4>2, <4>3
    <3> QED
      BY <3>1, <3>2, <3>3 DEF DataInv, OnlyHistoryIsLeft
  <2>11. OverridesHaveDomains'
    <3> SUFFICES ASSUME NEW row \in policies'
                 PROVE  row.domain \in domains' \cup {0} \/ row.domain \in crossed' \/ row.tenant \in crossed'
      BY DEF OverridesHaveDomains
    <3>1. row \in policies /\ row.tenant # t
      BY <1>3 DEF NotOf
    <3>2. row.domain # 0 => owner[row.domain] = row.tenant
      BY <3>1 DEF DataInv, Owned
    <3> QED
      BY <1>3, <2>2, <3>1, <3>2 DEF DataInv, OverridesHaveDomains
  <2> QED
    BY <2>6, <2>7, <2>8, <2>9, <2>10, <2>11 DEF DataInv
<1> QED
  BY <1>2, <1>3 DEF Erase

LEMMA DataStutterStep ==
  ASSUME DataInv, UNCHANGED dataVars
  PROVE  DataInv'
BY DEF DataInv, DataTypeOK, AllBusy, Busy, Owned, Quiet, OnlyHistoryIsLeft, OverridesHaveDomains,
       Gone, Of, OfGone, dataVars

-----------------------------------------------------------------------------
(* The theorems.                                                           *)

LEMMA DataInvHolds == DataSpec => []DataInv
<1>1. DataInit => DataInv
  <2> SUFFICES ASSUME DataInit PROVE DataInv
    OBVIOUS
  <2>1. \A r \in Handlers : handler[r].at = "idle" /\ handler[r] = Rest
    BY IdleIsFrame DEF DataInit
  <2>2. AllBusy
    BY <2>1 DEF AllBusy, Busy, Checking
  <2>3. Gone = {} /\ domains = {} /\ results = {} /\ newest = 0
    BY DEF DataInit, Gone
  <2>4. \A d \in DomainIds : (owner[d] = Nobody) = (d > newest)
    BY TenantDataAssumption DEF DataInit, DomainIds
  <2>5. policies \subseteq Row /\ \A row \in policies : row.domain = 0
    BY DEF DataInit, Row
  <2>6. DataTypeOK
    <3>1. handler \in [Handlers -> Frames]
      BY IdleIsFrame DEF DataInit
    <3>2. \A r \in Handlers : handler[r].at \notin {"record", "reload", "notify"}
      BY <2>1
    <3>3. newest \in 0 .. MaxDomains /\ work \in 0 .. MaxWork
      BY TenantDataAssumption DEF DataInit
    <3> QED
      BY <2>4, <2>5, <3>1, <3>2, <3>3 DEF DataInit, DataTypeOK
  <2>7. Owned
    BY <2>3, <2>5 DEF Owned
  <2>8. Quiet /\ OnlyHistoryIsLeft /\ OverridesHaveDomains
    BY <2>3, <2>5 DEF Quiet, OnlyHistoryIsLeft, OverridesHaveDomains, OfGone
  <2> QED
    BY <2>2, <2>6, <2>7, <2>8 DEF DataInv
<1>2. DataInv /\ [DataNext]_dataVars => DataInv'
  <2> SUFFICES ASSUME DataInv, [DataNext]_dataVars PROVE DataInv'
    OBVIOUS
  <2>1. CASE UNCHANGED dataVars
    BY <2>1, DataStutterStep
  <2>2. ASSUME NEW r \in Handlers, NEW k \in Kinds \ {"erase"}, NEW t \in Tenants, NEW d \in DomainIds \cup {0}, Enter(r, k, t, d)
        PROVE  DataInv'
    BY <2>2, EnterStep
  <2>3. ASSUME NEW r \in Handlers, FindDomain(r) \/ CreateDomain(r) \/ SavePolicy(r) \/ DropDomain(r) PROVE DataInv'
    BY <2>3, FindDomainStep, CreateDomainStep, SavePolicyStep, DropDomainStep
  <2>4. ASSUME NEW r \in Handlers, NEW d \in DomainIds, Dispatch(r, d) PROVE DataInv'
    BY <2>4, DispatchStep
  <2>5. ASSUME NEW r \in Handlers, LoadDomain(r) \/ LoadOwner(r) \/ Record(r) \/ Reload(r) PROVE DataInv'
    BY <2>5, CheckReadsStep, RecordStep
  <2>6. ASSUME NEW r \in Handlers, NEW tells \in BOOLEAN, Notify(r, tells) PROVE DataInv'
    BY <2>6, NotifyStep
  <2>7. ASSUME NEW r \in Handlers, NEW t \in Tenants, LoadTenant(r, t) PROVE DataInv'
    BY <2>7, LoadTenantStep
  <2>8. ASSUME NEW r \in Handlers, Pluck(r) \/ Erase(r) \/ Fail(r) PROVE DataInv'
    BY <2>8, PluckStep, EraseStep, FailStep
  <2> QED
    BY <2>1, <2>2, <2>3, <2>4, <2>5, <2>6, <2>7, <2>8 DEF DataNext
<1> QED
  BY <1>1, <1>2, PTL DEF DataSpec

(* Tables and requests keep their types.                                   *)
THEOREM DataTypes == DataSpec => []DataTypeOK
BY DataInvHolds, PTL DEF DataInv

(* A tenant that went in silence leaves nothing but the history of domains *)
(* it dropped before.                                                      *)
THEOREM OnlyHistory == DataSpec => []OnlyHistoryIsLeft
BY DataInvHolds, PTL DEF DataInv

(* An override of a domain that is gone was saved, or the tenant deleted,  *)
(* across the deletion of the domain.                                      *)
THEOREM OverridesOfDomains == DataSpec => []OverridesHaveDomains
BY DataInvHolds, PTL DEF DataInv

-----------------------------------------------------------------------------
(* Names.                                                                  *)

LEMMA LeastNumber ==
  ASSUME NEW S \in SUBSET Nat, S # {}
  PROVE  \E k \in S : \A m \in S : k <= m
<1>1. PICK k \in S : \A m \in S : ~ (<<m, k>> \in OpToRel(<, Nat))
  BY NatLessThanWellFounded, WFMin
<1>2. \A m \in S : ~(m < k)
  BY <1>1 DEF OpToRel
<1> QED
  BY <1>2

(* Only the empty name is the empty name in small letters.                 *)
LEMMA NormalOfEmpty ==
  ASSUME NEW b, NEW n \in Seq(Nat), Boot(b)!normalizeUsername(n) = Boot(b)!normalizeUsername(Boot(b)!Unnamed)
  PROVE  n = Boot(b)!Unnamed
<1>1. DOMAIN Boot(b)!normalizeUsername(n) = DOMAIN n /\ DOMAIN Boot(b)!normalizeUsername(Boot(b)!Unnamed) = DOMAIN Boot(b)!Unnamed
  BY DEF Boot!normalizeUsername
<1>2. DOMAIN n = 1 .. Len(n) /\ DOMAIN Boot(b)!Unnamed = {} /\ Len(n) \in Nat
  BY DEF Boot!Unnamed
<1>3. Len(n) = 0
  <2>1. 1 \notin 1 .. Len(n)
    BY <1>1, <1>2
  <2> QED
    BY <1>2, <2>1
<1> QED
  BY <1>3 DEF Boot!Unnamed

LEMMA CountUpTo ==
  ASSUME NEW n \in Nat
  PROVE  IsFiniteSet(1 .. n) /\ Cardinality(1 .. n) = n
<1>1. /\ 1 \in Int /\ n \in Int /\ n - 1 + 1 = n
      /\ (1 > n => n = 0)
  OBVIOUS
<1> QED
  BY <1>1, FS_Interval

(* Two candidates differ, in whatever letters.                             *)
LEMMA NumberedAreDistinct ==
  ASSUME NEW b, Boot(b)!BootstrapAssumption, NEW base \in Seq(Nat),
         NEW k \in 1 .. b.maxUsers + 1, NEW m \in 1 .. b.maxUsers + 1, k # m
  PROVE  Boot(b)!normalizeUsername(Boot(b)!Numbered(base, k)) # Boot(b)!normalizeUsername(Boot(b)!Numbered(base, m))
<1>0. b.maxUsers \in Nat /\ k \in Nat /\ m \in Nat /\ Len(base) \in Nat
  <2>1. b.maxUsers \in Nat
    BY DEF Boot!BootstrapAssumption
  <2> QED
    BY <2>1
<1>1. \A x \in 1 .. b.maxUsers + 1 : x # 1 =>
        /\ x \notin DOMAIN b.capital
        /\ DOMAIN Boot(b)!normalizeUsername(Boot(b)!Numbered(base, x)) = 1 .. Len(base) + 1
        /\ Boot(b)!normalizeUsername(Boot(b)!Numbered(base, x))[Len(base) + 1] = x
  <2> SUFFICES ASSUME NEW x \in 1 .. b.maxUsers + 1, x # 1
               PROVE  /\ x \notin DOMAIN b.capital
                      /\ DOMAIN Boot(b)!normalizeUsername(Boot(b)!Numbered(base, x)) = 1 .. Len(base) + 1
                      /\ Boot(b)!normalizeUsername(Boot(b)!Numbered(base, x))[Len(base) + 1] = x
    OBVIOUS
  <2>1. x \in 2 .. b.maxUsers + 1
    BY <1>0
  <2>2. x \notin DOMAIN b.capital
    BY <2>1 DEF Boot!BootstrapAssumption
  <2>3. x \in Nat
    BY <1>0
  <2>4. Append(base, x) \in Seq(Nat) /\ DOMAIN Append(base, x) = 1 .. Len(base) + 1
        /\ Append(base, x)[Len(base) + 1] = x
    BY <1>0, <2>3
  <2>5. Len(base) + 1 \in 1 .. Len(base) + 1
    BY <1>0
  <2> QED
    BY <2>2, <2>4, <2>5 DEF Boot!Numbered, Boot!normalizeUsername
<1>2. DOMAIN Boot(b)!normalizeUsername(Boot(b)!Numbered(base, 1)) = 1 .. Len(base)
  BY DEF Boot!Numbered, Boot!normalizeUsername
<1>3. 1 .. Len(base) # 1 .. Len(base) + 1
  <2>1. Len(base) + 1 \in 1 .. Len(base) + 1 /\ Len(base) + 1 \notin 1 .. Len(base)
    BY <1>0
  <2> QED
    BY <2>1
<1>4. CASE k = 1
  BY <1>1, <1>2, <1>3, <1>4
<1>5. CASE m = 1
  BY <1>1, <1>2, <1>3, <1>5
<1>6. CASE k # 1 /\ m # 1
  BY <1>1, <1>6
<1> QED
  BY <1>4, <1>5, <1>6

LEMMA NumberedIsName ==
  ASSUME NEW b, NEW base \in Seq(Nat) \ {Boot(b)!Unnamed}, NEW k \in Nat
  PROVE  Boot(b)!Numbered(base, k) \in Seq(Nat) \ {Boot(b)!Unnamed}
<1>1. Append(base, k) \in Seq(Nat) /\ Len(Append(base, k)) = Len(base) + 1 /\ Len(base) \in Nat
  OBVIOUS
<1>2. Append(base, k) # Boot(b)!Unnamed
  BY <1>1 DEF Boot!Unnamed
<1> QED
  BY <1>1, <1>2 DEF Boot!Numbered

(* Among more candidates than accounts one is free, and the first of these *)
(* is taken (nextAvailableLegacyUsername).                                 *)
LEMMA FirstFreeIsFree ==
  ASSUME NEW b, Boot(b)!BootstrapAssumption, Boot(b)!TypeOK, NEW i \in DOMAIN users, NEW base \in Seq(Nat) \ {Boot(b)!Unnamed}
  PROVE  /\ Boot(b)!FirstFree(i, base) \in Seq(Nat) \ {Boot(b)!Unnamed}
         /\ Boot(b)!Called(Boot(b)!FirstFree(i, base)) \ {i} = {}
<1> DEFINE S == 1 .. b.maxUsers + 1
           others(k) == Boot(b)!Called(Boot(b)!Numbered(base, k)) \ {i}
           free == {k \in S : others(k) = {}}
           f == [k \in S |-> CHOOSE j \in others(k) : TRUE]
<1>0. b.maxUsers \in Nat /\ Len(users) \in Nat /\ Len(users) <= b.maxUsers /\ DOMAIN users = 1 .. Len(users)
  <2>1. b.maxUsers \in Nat
    BY DEF Boot!BootstrapAssumption
  <2>2. users \in Seq(Boot(b)!Account) /\ Len(users) <= b.maxUsers
    BY DEF Boot!TypeOK
  <2> QED
    BY <2>1, <2>2
<1>1. free # {}
  <2> SUFFICES ASSUME free = {} PROVE FALSE
    OBVIOUS
  <2>1. \A k \in S : f[k] \in others(k)
    <3> SUFFICES ASSUME NEW k \in S PROVE f[k] \in others(k)
      OBVIOUS
    <3>1. others(k) # {}
      OBVIOUS
    <3> HIDE DEF others
    <3> QED
      BY <3>1
  <2>2. \A k \in S : f[k] \in DOMAIN users
    BY <2>1 DEF Boot!Called
  <2>3. f \in [S -> 1 .. Len(users)]
    BY <1>0, <2>2
  <2>4. /\ IsFiniteSet(S) /\ Cardinality(S) = b.maxUsers + 1
        /\ IsFiniteSet(1 .. Len(users)) /\ Cardinality(1 .. Len(users)) = Len(users)
    <3>1. b.maxUsers + 1 \in Nat /\ Len(users) \in Nat
      BY <1>0
    <3> QED
      BY <3>1, CountUpTo
  <2>5. Cardinality(1 .. Len(users)) < Cardinality(S)
    BY <1>0, <2>4
  <2> HIDE DEF f
  <2> HIDE DEF S
  <2>6. PICK k, m \in S : k # m /\ f[k] = f[m]
    BY <2>3, <2>4, <2>5, FS_PigeonHole
  <2>7. Boot(b)!normalizeUsername(Boot(b)!Numbered(base, k)) = Boot(b)!normalizeUsername(Boot(b)!Numbered(base, m))
    BY <2>1, <2>6 DEF Boot!Called
  <2> QED
    BY <2>6, <2>7, NumberedAreDistinct DEF S
<1>2. free \in SUBSET Nat
  BY <1>0
<1>3. \E k \in free : \A m \in free : k <= m
  BY <1>1, <1>2, LeastNumber
<1> DEFINE k0 == CHOOSE k \in free : \A m \in free : k <= m
<1>4. k0 \in free
  BY <1>3
<1>5. Boot(b)!FirstFree(i, base) = Boot(b)!Numbered(base, k0)
  BY DEF Boot!FirstFree
<1>6. k0 \in Nat /\ others(k0) = {}
  BY <1>2, <1>4
<1> QED
  BY <1>5, <1>6, NumberedIsName

-----------------------------------------------------------------------------
(* Types.                                                                  *)

LEMMA AccountsAreIndexed ==
  ASSUME NEW b, NEW u \in Seq(Boot(b)!Account)
  PROVE  /\ Len(u) \in Nat /\ DOMAIN u = 1 .. Len(u)
         /\ \A i \in DOMAIN u : u[i] \in Boot(b)!Account
OBVIOUS

LEMMA EntriesAreMembers ==
  ASSUME NEW S, NEW s \in Seq(S), NEW i \in DOMAIN s
  PROVE  s[i] \in S
OBVIOUS

(* An account that is changed is an account, of as many.                   *)
LEMMA ChangedIsTyped ==
  ASSUME NEW b, NEW u \in Seq(Boot(b)!Account), NEW i \in DOMAIN u, NEW a \in Boot(b)!Account
  PROVE  /\ [u EXCEPT ![i] = a] \in Seq(Boot(b)!Account)
         /\ Len([u EXCEPT ![i] = a]) = Len(u)
         /\ DOMAIN [u EXCEPT ![i] = a] = DOMAIN u
         /\ \A j \in DOMAIN u : [u EXCEPT ![i] = a][j] = IF j = i THEN a ELSE u[j]
OBVIOUS

LEMMA AddedIsTyped ==
  ASSUME NEW b, NEW u \in Seq(Boot(b)!Account), NEW a \in Boot(b)!Account
  PROVE  /\ Append(u, a) \in Seq(Boot(b)!Account)
         /\ Len(Append(u, a)) = Len(u) + 1
         /\ DOMAIN Append(u, a) = DOMAIN u \cup {Len(u) + 1}
         /\ Len(u) + 1 \notin DOMAIN u
         /\ Append(u, a)[Len(u) + 1] = a
         /\ \A j \in DOMAIN u : Append(u, a)[j] = u[j]
<1>1. Len(u) \in Nat /\ DOMAIN u = 1 .. Len(u)
  OBVIOUS
<1>2. DOMAIN Append(u, a) = 1 .. Len(u) + 1
  OBVIOUS
<1>3. 1 .. Len(u) + 1 = (1 .. Len(u)) \cup {Len(u) + 1} /\ Len(u) + 1 \notin 1 .. Len(u)
  BY <1>1
<1> QED
  BY <1>1, <1>2, <1>3

(* What the steps do to the accounts: i is given another name, or all the  *)
(* fields but two are kept, or one account is added.                       *)
Renames(b, i, n, e) ==
  /\ i \in DOMAIN users /\ n \in Seq(Nat) \ {Boot(b)!Unnamed} /\ e \in b.emails \cup {""}
  /\ users' = [users EXCEPT ![i] = [users[i] EXCEPT !.name = n, !.contact = e]]
Adds(b, a) == a \in Boot(b)!Account /\ a.name # Boot(b)!Unnamed /\ users' = Append(users, a)

LEMMA RenamedIs ==
  ASSUME NEW b, users \in Seq(Boot(b)!Account), NEW i, NEW n, NEW e, Renames(b, i, n, e)
  PROVE  /\ users' \in Seq(Boot(b)!Account) /\ Len(users') = Len(users) /\ DOMAIN users' = DOMAIN users
         /\ users'[i].name = n
         /\ \A j \in DOMAIN users : j # i => users'[j] = users[j]
         /\ \A j \in DOMAIN users : users'[j].admin = users[j].admin /\ users'[j].made = users[j].made
                                     /\ users'[j].email = users[j].email
<1> DEFINE a == [users[i] EXCEPT !.name = n, !.contact = e]
<1>1. users[i] \in Boot(b)!Account /\ i \in DOMAIN users
  BY AccountsAreIndexed DEF Renames
<1>2. a \in Boot(b)!Account /\ a.name = n /\ a.admin = users[i].admin /\ a.made = users[i].made /\ a.email = users[i].email
  BY <1>1 DEF Renames, Boot!Account
<1>3. users' = [users EXCEPT ![i] = a]
  BY DEF Renames
<1> HIDE DEF a
<1> QED
  BY <1>1, <1>2, <1>3, ChangedIsTyped

(* An account without a name is one of before the migration.               *)
NamelessAreOld(b) == \A i \in DOMAIN users : users[i].name = Boot(b)!Unnamed => i \in DOMAIN b.legacy

LEMMA BackfillRenames ==
  ASSUME NEW b, Boot(b)!BootstrapAssumption, Boot(b)!TypeOK, NamelessAreOld(b), Boot(b)!Backfill
  PROVE  \/ /\ users' = users /\ at' = "setting"
            /\ \A i \in DOMAIN users : users[i].name # Boot(b)!Unnamed
         \/ /\ at' = at
            /\ \E i \in DOMAIN users : \E n, e : Renames(b, i, n, e) /\ Boot(b)!Called(n) \ {i} = {} /\ users[i].name = Boot(b)!Unnamed
<1> DEFINE nameless == {i \in DOMAIN users : users[i].name = Boot(b)!Unnamed}
           i == CHOOSE i \in nameless : \A j \in nameless : i <= j
<1>0. users \in Seq(Boot(b)!Account) /\ DOMAIN users = 1 .. Len(users) /\ Len(users) \in Nat
  BY AccountsAreIndexed DEF Boot!TypeOK
<1>1. CASE nameless = {}
  BY <1>1 DEF Boot!Backfill
<1>2. CASE nameless # {}
  <2>1. nameless \in SUBSET Nat
    BY <1>0
  <2>2. i \in nameless
    BY <1>2, <2>1, LeastNumber
  <2>3. /\ users' = [users EXCEPT ![i].name = Boot(b)!FirstFree(i, b.legacy[i].name), ![i].contact = users[i].email]
        /\ at' = at
    BY <1>2 DEF Boot!Backfill
  <2> HIDE DEF i
  <2>4. i \in DOMAIN users /\ i \in DOMAIN b.legacy /\ users[i] \in Boot(b)!Account /\ users[i].name = Boot(b)!Unnamed
    BY <1>0, <2>2, AccountsAreIndexed DEF NamelessAreOld
  <2> DEFINE n == Boot(b)!FirstFree(i, b.legacy[i].name)
  <2>5. b.legacy[i].name \in Seq(Nat) \ {Boot(b)!Unnamed}
    <3>1. b.legacy \in Seq([name : Seq(Nat) \ {Boot(b)!Unnamed}, email : b.emails])
      BY DEF Boot!BootstrapAssumption
    <3>2. b.legacy[i] \in [name : Seq(Nat) \ {Boot(b)!Unnamed}, email : b.emails]
      BY <2>4, <3>1, EntriesAreMembers
    <3> QED
      BY <3>2
  <2>6. n \in Seq(Nat) \ {Boot(b)!Unnamed} /\ Boot(b)!Called(n) \ {i} = {}
    BY <2>4, <2>5, FirstFreeIsFree
  <2> HIDE DEF n
  <2>7. users[i].email \in b.emails \cup {""}
    BY <2>4 DEF Boot!Account
  <2>8. users' = [users EXCEPT ![i] = [users[i] EXCEPT !.name = n, !.contact = users[i].email]]
    BY <2>3, <2>4 DEF n
  <2>9. Renames(b, i, n, users[i].email)
    BY <2>4, <2>6, <2>7, <2>8 DEF Renames
  <2> QED
    BY <2>3, <2>4, <2>6, <2>9
<1> QED
  BY <1>1, <1>2

LEMMA ProfileRenames ==
  ASSUME NEW b, Boot(b)!BootstrapAssumption, Boot(b)!TypeOK, NEW i \in DOMAIN users, NEW n \in b.names,
         NEW e \in b.emails \cup {""}, Boot(b)!UpdateProfile(i, n, e)
  PROVE  Renames(b, i, n, e) /\ Boot(b)!Called(n) \ {i} = {}
<1>1. n \in Seq(Nat) \ {Boot(b)!Unnamed}
  BY DEF Boot!BootstrapAssumption
<1>2. users' = [users EXCEPT ![i].name = n, ![i].contact = e] /\ Boot(b)!Called(n) \ {i} = {}
  BY DEF Boot!UpdateProfile
<1>3. users' = [users EXCEPT ![i] = [users[i] EXCEPT !.name = n, !.contact = e]]
  BY <1>2, AccountsAreIndexed DEF Boot!TypeOK
<1> QED
  BY <1>1, <1>2, <1>3 DEF Renames

Registers(b, n, a) == Adds(b, a) /\ a.name = n /\ ~a.admin /\ a.made = "register" /\ a.email = ""

LEMMA RegisterAdds ==
  ASSUME NEW b, Boot(b)!BootstrapAssumption, Boot(b)!TypeOK, NEW n \in b.names, Boot(b)!Register(n)
  PROVE  /\ Len(users) < b.maxUsers /\ Boot(b)!Called(n) = {}
         /\ \E a : Registers(b, n, a)
<1> DEFINE a == [name |-> n, email |-> "", contact |-> "", admin |-> FALSE, made |-> "register"]
<1>1. n \in Seq(Nat) \ {Boot(b)!Unnamed}
  BY DEF Boot!BootstrapAssumption
<1>2. a \in Boot(b)!Account
  BY <1>1 DEF Boot!Account
<1>3. users' = Append(users, a) /\ Len(users) < b.maxUsers /\ Boot(b)!Called(n) = {}
  BY DEF Boot!Register
<1>4. a.name = n /\ ~a.admin /\ a.made = "register" /\ a.email = ""
  OBVIOUS
<1> HIDE DEF a
<1> QED
  BY <1>1, <1>2, <1>3, <1>4 DEF Adds, Registers

LEMMA MakeAdminAdds ==
  ASSUME NEW b, Boot(b)!BootstrapAssumption, Boot(b)!TypeOK, Boot(b)!MakeAdmin
  PROVE  \/ /\ UNCHANGED users /\ Boot(b)!Fail /\ b.config.email # ""
            /\ \E i \in DOMAIN users : users[i].email = b.config.email
         \/ /\ Len(users) < b.maxUsers /\ at' = "policy" /\ failed' = failed
            /\ \E a : Adds(b, a) /\ a.name = b.config.name /\ a.admin /\ a.made = "bootstrap" /\ a.email = b.config.email
<1> DEFINE a == [name |-> b.config.name, email |-> b.config.email, contact |-> b.config.email,
                 admin |-> TRUE, made |-> "bootstrap"]
<1>1. a \in Boot(b)!Account /\ a.name # Boot(b)!Unnamed
  BY DEF Boot!BootstrapAssumption, Boot!Account
<1>2. /\ a.name = b.config.name /\ a.admin /\ a.made = "bootstrap" /\ a.email = b.config.email
  OBVIOUS
<1>3. CASE b.config.email # "" /\ \E i \in DOMAIN users : users[i].email = b.config.email
  BY <1>3 DEF Boot!MakeAdmin
<1>4. CASE ~(b.config.email # "" /\ \E i \in DOMAIN users : users[i].email = b.config.email)
  <2>1. Len(users) < b.maxUsers /\ at' = "policy" /\ failed' = failed /\ users' = Append(users, a)
    BY <1>4 DEF Boot!MakeAdmin
  <2> QED
    BY <1>1, <1>2, <2>1 DEF Adds
<1> QED
  BY <1>3, <1>4

(* The contact of the administrator is put, and nothing else.              *)
LEMMA SetContactKeeps ==
  ASSUME NEW b, Boot(b)!BootstrapAssumption, Boot(b)!TypeOK, Boot(b)!SetContact
  PROVE  /\ users' \in Seq(Boot(b)!Account) /\ Len(users') = Len(users) /\ DOMAIN users' = DOMAIN users
         /\ \A i \in DOMAIN users : /\ users'[i].name = users[i].name /\ users'[i].admin = users[i].admin
                                    /\ users'[i].made = users[i].made /\ users'[i].email = users[i].email
<1>0. users \in Seq(Boot(b)!Account) /\ DOMAIN users = 1 .. Len(users) /\ Len(users) \in Nat
      /\ \A i \in DOMAIN users : users[i] \in Boot(b)!Account
  BY AccountsAreIndexed DEF Boot!TypeOK
<1>1. b.config.email \in b.emails \cup {""}
  BY DEF Boot!BootstrapAssumption
<1> DEFINE g(i) == IF i \in Boot(b)!Called(b.config.name) THEN [users[i] EXCEPT !.contact = b.config.email] ELSE users[i]
<1>2. users' = [i \in 1 .. Len(users) |-> g(i)]
  BY <1>0 DEF Boot!SetContact
<1>3. \A i \in 1 .. Len(users) : /\ g(i) \in Boot(b)!Account
                                 /\ g(i).name = users[i].name /\ g(i).admin = users[i].admin
                                 /\ g(i).made = users[i].made /\ g(i).email = users[i].email
  <2> TAKE i \in 1 .. Len(users)
  <2>1. users[i] \in Boot(b)!Account
    BY <1>0
  <2>2. CASE i \in Boot(b)!Called(b.config.name)
    BY <1>1, <2>1, <2>2 DEF Boot!Account
  <2>3. CASE i \notin Boot(b)!Called(b.config.name)
    BY <2>1, <2>3
  <2> QED
    BY <2>2, <2>3
<1> HIDE DEF g
<1>4. users' \in Seq(Boot(b)!Account) /\ Len(users') = Len(users)
  BY <1>0, <1>2, <1>3
<1> QED
  BY <1>0, <1>2, <1>3, <1>4

-----------------------------------------------------------------------------
(* The types are kept.                                                     *)

AllNamed(b) == \A i \in DOMAIN users : users[i].name # Boot(b)!Unnamed

TypesInv(b) == Boot(b)!TypeOK /\ NamelessAreOld(b)

LEMMA TypesSplit ==
  ASSUME NEW b
  PROVE
  /\ TypesInv(b) <=> /\ users \in Seq(Boot(b)!Account) /\ Len(users) <= b.maxUsers
                     /\ platform \in [tenant : BOOLEAN, policy : BOOLEAN]
                     /\ allowed \in BOOLEAN /\ at \in Boot(b)!Steps /\ failed \in BOOLEAN
                     /\ starts \in 0 .. b.maxStarts /\ edits \in 0 .. b.maxEdits
                     /\ renamed \in BOOLEAN /\ cut \in BOOLEAN
                     /\ failed => at = "down"
                     /\ at \notin {"down", "names"} => AllNamed(b)
                     /\ at \in {"admin", "policy"} => platform.tenant
                     /\ NamelessAreOld(b)
BY DEF TypesInv, Boot!TypeOK, AllNamed

LEMMA StartTypes ==
  ASSUME NEW b
  PROVE  Boot(b)!BootstrapAssumption /\ Boot(b)!Init => TypesInv(b)
<1> SUFFICES ASSUME Boot(b)!BootstrapAssumption, Boot(b)!Init PROVE TypesInv(b)
  OBVIOUS
<1> DEFINE old(i) == [name |-> Boot(b)!Unnamed, email |-> b.legacy[i].email, contact |-> "", admin |-> i \in b.legacyAdmin,
                      made |-> "legacy"]
<1>1. b.legacy \in Seq([name : Seq(Nat) \ {Boot(b)!Unnamed}, email : b.emails]) /\ Len(b.legacy) <= b.maxUsers
  BY DEF Boot!BootstrapAssumption
<1>2. DOMAIN b.legacy = 1 .. Len(b.legacy) /\ Len(b.legacy) \in Nat
  BY <1>1
<1>3. \A i \in DOMAIN b.legacy : old(i) \in Boot(b)!Account
  <2> TAKE i \in DOMAIN b.legacy
  <2>1. b.legacy[i] \in [name : Seq(Nat) \ {Boot(b)!Unnamed}, email : b.emails]
    BY <1>1, EntriesAreMembers
  <2>2. b.legacy[i].email \in b.emails /\ Boot(b)!Unnamed \in Seq(Nat)
    BY <2>1 DEF Boot!Unnamed
  <2>3. (i \in b.legacyAdmin) \in BOOLEAN
    OBVIOUS
  <2> HIDE DEF Boot!Unnamed
  <2> QED
    BY <2>2, <2>3 DEF Boot!Account
<1>4. users = [i \in 1 .. Len(b.legacy) |-> old(i)]
  BY <1>2 DEF Boot!Init
<1> HIDE DEF old
<1>5. users \in Seq(Boot(b)!Account) /\ Len(users) = Len(b.legacy) /\ DOMAIN users = DOMAIN b.legacy
  BY <1>2, <1>3, <1>4
<1>6. b.maxStarts \in Nat /\ b.maxEdits \in Nat
  BY DEF Boot!BootstrapAssumption
<1>7. 0 \in 0 .. b.maxStarts /\ 0 \in 0 .. b.maxEdits
  BY <1>6
<1>8. /\ platform \in [tenant : BOOLEAN, policy : BOOLEAN]
      /\ allowed = FALSE /\ at = "down" /\ failed = FALSE
      /\ starts = 0 /\ edits = 0 /\ renamed = FALSE /\ cut = FALSE
  BY DEF Boot!Init
<1> QED
  BY <1>1, <1>5, <1>7, <1>8, TypesSplit DEF NamelessAreOld, Boot!Steps

(* No field but the contacts is changed.                                   *)
KeepsAccounts(b) ==
  /\ users' \in Seq(Boot(b)!Account) /\ Len(users') = Len(users) /\ DOMAIN users' = DOMAIN users
  /\ \A i \in DOMAIN users : /\ users'[i].name = users[i].name /\ users'[i].admin = users[i].admin
                             /\ users'[i].made = users[i].made /\ users'[i].email = users[i].email

(* What a step does to the accounts keeps them typed and those that have   *)
(* names with names.                                                       *)
LEMMA AccountsTyped ==
  ASSUME NEW b, users \in Seq(Boot(b)!Account), Len(users) <= b.maxUsers, b.maxUsers \in Nat, NamelessAreOld(b),
         \/ KeepsAccounts(b)
         \/ \E i, n, e : Renames(b, i, n, e)
         \/ Len(users) < b.maxUsers /\ \E a : Adds(b, a)
  PROVE  /\ users' \in Seq(Boot(b)!Account) /\ Len(users') <= b.maxUsers /\ NamelessAreOld(b)'
         /\ AllNamed(b) => AllNamed(b)'
<1>1. CASE KeepsAccounts(b)
  BY <1>1 DEF KeepsAccounts, NamelessAreOld, AllNamed
<1>2. ASSUME NEW i, NEW n, NEW e, Renames(b, i, n, e)
      PROVE  /\ users' \in Seq(Boot(b)!Account) /\ Len(users') <= b.maxUsers /\ NamelessAreOld(b)'
             /\ AllNamed(b) => AllNamed(b)'
  <2>1. n # Boot(b)!Unnamed
    BY <1>2 DEF Renames
  <2> QED
    BY <1>2, <2>1, RenamedIs DEF NamelessAreOld, AllNamed
<1>3. ASSUME NEW a, Adds(b, a), Len(users) < b.maxUsers
      PROVE  /\ users' \in Seq(Boot(b)!Account) /\ Len(users') <= b.maxUsers /\ NamelessAreOld(b)'
             /\ AllNamed(b) => AllNamed(b)'
  <2>1. /\ users' \in Seq(Boot(b)!Account) /\ Len(users') = Len(users) + 1
        /\ DOMAIN users' = DOMAIN users \cup {Len(users) + 1}
        /\ users'[Len(users) + 1].name # Boot(b)!Unnamed
        /\ \A j \in DOMAIN users : users'[j] = users[j]
    BY <1>3, AddedIsTyped DEF Adds
  <2>2. Len(users') <= b.maxUsers
    BY <1>3, <2>1, AccountsAreIndexed
  <2> QED
    BY <2>1, <2>2 DEF NamelessAreOld, AllNamed
<1> QED
  BY <1>1, <1>2, <1>3

LEMMA EditsAreCounted ==
  ASSUME NEW b, b.maxEdits \in Nat, edits \in 0 .. b.maxEdits, Boot(b)!Edit
  PROVE  edits' \in 0 .. b.maxEdits
BY DEF Boot!Edit

LEMMA TypesStep ==
  ASSUME NEW b, Boot(b)!BootstrapAssumption, TypesInv(b), [Boot(b)!Next]_(Boot(b)!vars)
  PROVE  TypesInv(b)'
<1> DEFINE Typed == /\ platform \in [tenant : BOOLEAN, policy : BOOLEAN]
                    /\ allowed \in BOOLEAN /\ at \in Boot(b)!Steps /\ failed \in BOOLEAN
                    /\ starts \in 0 .. b.maxStarts /\ edits \in 0 .. b.maxEdits
                    /\ renamed \in BOOLEAN /\ cut \in BOOLEAN
                    /\ failed => at = "down"
                    /\ at \in {"admin", "policy"} => platform.tenant
<1>1. Typed /\ Boot(b)!TypeOK
  BY TypesSplit DEF TypesInv
<1>2. b.maxUsers \in Nat /\ b.maxStarts \in Nat /\ b.maxEdits \in Nat /\ b.config.allow \in BOOLEAN
  BY DEF Boot!BootstrapAssumption
<1>3. /\ users \in Seq(Boot(b)!Account) /\ Len(users) <= b.maxUsers /\ NamelessAreOld(b)
      /\ at \notin {"down", "names"} => AllNamed(b)
  BY TypesSplit
<1>4. TypesInv(b)' <=> /\ Typed' /\ users' \in Seq(Boot(b)!Account) /\ Len(users') <= b.maxUsers /\ NamelessAreOld(b)'
                       /\ at' \notin {"down", "names"} => AllNamed(b)'
  BY DEF TypesInv, Boot!TypeOK, AllNamed
<1>5. UNCHANGED users => KeepsAccounts(b)
  BY <1>3 DEF KeepsAccounts
<1>6. UNCHANGED users => (AllNamed(b)' <=> AllNamed(b))
  BY DEF AllNamed
<1>7. CASE Boot(b)!Start
  <2>3. starts' \in 0 .. b.maxStarts
    BY <1>1, <1>2, <1>7 DEF Boot!Start
  <2>1. Typed'
    BY <1>1, <1>7, <2>3 DEF Boot!Start, Boot!Steps
  <2>2. UNCHANGED users /\ at' = "names"
    BY <1>7 DEF Boot!Start
  <2> QED
    BY <1>2, <1>3, <1>4, <1>5, <2>1, <2>2, AccountsTyped
<1>8. CASE Boot(b)!Backfill
  <2>1. Typed' /\ at = "names"
    BY <1>1, <1>8 DEF Boot!Backfill, Boot!Steps
  <2>2. CASE users' = users /\ at' = "setting" /\ \A i \in DOMAIN users : users[i].name # Boot(b)!Unnamed
    BY <1>2, <1>3, <1>4, <1>5, <1>6, <2>1, <2>2, AccountsTyped DEF AllNamed
  <2>3. CASE at' = at /\ \E i, n, e : Renames(b, i, n, e)
    BY <1>2, <1>3, <1>4, <2>1, <2>3, AccountsTyped
  <2> QED
    BY <1>1, <1>3, <1>8, <2>2, <2>3, BackfillRenames
<1>9. CASE Boot(b)!SaveSetting \/ Boot(b)!Look \/ Boot(b)!MakeTenant \/ Boot(b)!MakePolicy \/ Boot(b)!Crash
  <2>1. UNCHANGED users /\ (at' # "down" => at \notin {"down", "names"})
    BY <1>9 DEF Boot!SaveSetting, Boot!Look, Boot!MakeTenant, Boot!MakePolicy, Boot!Crash, Boot!Ready, Boot!Fail
  <2>2. Typed'
    <3>1. CASE Boot(b)!SaveSetting
      BY <1>1, <1>2, <3>1 DEF Boot!SaveSetting, Boot!Steps
    <3>2. CASE Boot(b)!Look
      BY <1>1, <3>2 DEF Boot!Look, Boot!Steps, Boot!Ready, Boot!Fail
    <3>3. CASE Boot(b)!MakeTenant
      <4>1. platform' \in [tenant : BOOLEAN, policy : BOOLEAN] /\ platform'.tenant
        BY <1>1, <3>3 DEF Boot!MakeTenant
      <4> QED
        BY <1>1, <3>3, <4>1 DEF Boot!MakeTenant, Boot!Steps
    <3>4. CASE Boot(b)!MakePolicy
      <4>1. platform' \in [tenant : BOOLEAN, policy : BOOLEAN]
        BY <1>1, <3>4 DEF Boot!MakePolicy
      <4> QED
        BY <1>1, <3>4, <4>1 DEF Boot!MakePolicy, Boot!Ready, Boot!Steps
    <3>5. CASE Boot(b)!Crash
      BY <1>1, <3>5 DEF Boot!Crash, Boot!Steps
    <3> QED
      BY <1>9, <3>1, <3>2, <3>3, <3>4, <3>5
  <2> HIDE DEF Typed
  <2> QED
    BY <1>2, <1>3, <1>4, <1>5, <1>6, <2>1, <2>2, AccountsTyped
<1>10. CASE Boot(b)!SetContact
  <2>1. Typed' /\ at = "contact"
    BY <1>1, <1>10 DEF Boot!SetContact, Boot!Ready, Boot!Steps
  <2>2. KeepsAccounts(b)
    BY <1>1, <1>10, SetContactKeeps DEF KeepsAccounts
  <2> HIDE DEF Typed
  <2> QED
    BY <1>2, <1>3, <1>4, <2>1, <2>2, AccountsTyped
<1>11. CASE Boot(b)!MakeAdmin
  <2>1. Typed' /\ at = "admin"
    BY <1>1, <1>11 DEF Boot!MakeAdmin, Boot!Fail, Boot!Steps
  <2>2. UNCHANGED users \/ (Len(users) < b.maxUsers /\ \E a : Adds(b, a))
    BY <1>1, <1>11, MakeAdminAdds
  <2> HIDE DEF Typed
  <2> QED
    BY <1>2, <1>3, <1>4, <1>5, <2>1, <2>2, AccountsTyped
<1>12. ASSUME NEW n \in b.names, Boot(b)!Register(n) PROVE TypesInv(b)'
  <2>5. Boot(b)!Edit
    BY <1>12 DEF Boot!Register
  <2>3. edits' \in 0 .. b.maxEdits
    BY <1>1, <1>2, <2>5, EditsAreCounted
  <2>1. Typed' /\ at = "up"
    BY <1>1, <1>12, <2>3 DEF Boot!Register, Boot!Edit, Boot!Steps
  <2>2. Len(users) < b.maxUsers /\ \E a : Adds(b, a)
    BY <1>1, <1>12, RegisterAdds DEF Registers
  <2> HIDE DEF Typed
  <2> QED
    BY <1>2, <1>3, <1>4, <2>1, <2>2, AccountsTyped
<1>13. ASSUME NEW i \in DOMAIN users, NEW n \in b.names, NEW e \in b.emails \cup {""}, Boot(b)!UpdateProfile(i, n, e)
       PROVE  TypesInv(b)'
  <2>1. Renames(b, i, n, e)
    BY <1>1, <1>13, ProfileRenames
  <2>2. users[i].admin \in BOOLEAN
    BY <1>3, AccountsAreIndexed DEF Boot!Account
  <2>3. renamed' \in BOOLEAN
    BY <1>1, <1>13, <2>2 DEF Boot!UpdateProfile
  <2>5. Boot(b)!Edit
    BY <1>13 DEF Boot!UpdateProfile
  <2>6. edits' \in 0 .. b.maxEdits
    BY <1>1, <1>2, <2>5, EditsAreCounted
  <2>4. Typed' /\ at = "up"
    BY <1>1, <1>13, <2>3, <2>6 DEF Boot!UpdateProfile, Boot!Edit, Boot!Steps
  <2> HIDE DEF Typed
  <2> QED
    BY <1>2, <1>3, <1>4, <2>1, <2>4, AccountsTyped
<1>14. CASE UNCHANGED Boot(b)!vars
  BY <1>14, TypesSplit DEF Boot!vars, TypesInv, Boot!TypeOK, NamelessAreOld
<1> QED
  BY <1>7, <1>8, <1>9, <1>10, <1>11, <1>12, <1>13, <1>14 DEF Boot!Next

(* What the starts leave has its types, wherever they were cut.            *)
THEOREM BootstrapTypes ==
  ASSUME NEW b, Boot(b)!BootstrapAssumption
  PROVE  Boot(b)!Spec => []Boot(b)!TypeOK
<1>1. Boot(b)!Init => TypesInv(b)
  BY StartTypes
<1>2. TypesInv(b) /\ [Boot(b)!Next]_(Boot(b)!vars) => TypesInv(b)'
  BY TypesStep
<1>3. TypesInv(b) => Boot(b)!TypeOK
  BY DEF TypesInv
<1> QED
  BY <1>1, <1>2, <1>3, PTL DEF Boot!Spec

-----------------------------------------------------------------------------
(* One account to a name.                                                  *)

(* What the lookup by the configured name has found is still so.           *)
Known(b) ==
  /\ at \in {"tenant", "admin"} => Boot(b)!Called(b.config.name) = {}
  /\ at \in {"contact", "policy"} => \E i \in Boot(b)!Called(b.config.name) : users[i].admin

NamesInv(b) == TypesInv(b) /\ Boot(b)!NamesAreUnique /\ Known(b)

(* A step that gives a name nobody else has leaves the names apart.        *)
LEMMA NamesStayApart ==
  ASSUME NEW b, users \in Seq(Boot(b)!Account), Boot(b)!NamesAreUnique,
         \/ KeepsAccounts(b)
         \/ \E i, n, e : Renames(b, i, n, e) /\ Boot(b)!Called(n) \ {i} = {}
         \/ \E a : Adds(b, a) /\ Boot(b)!Called(a.name) = {}
  PROVE  Boot(b)!NamesAreUnique'
<1>1. CASE KeepsAccounts(b)
  BY <1>1 DEF KeepsAccounts, Boot!NamesAreUnique, Boot!normalizeUsername
<1>2. ASSUME NEW i, NEW n, NEW e, Renames(b, i, n, e), Boot(b)!Called(n) \ {i} = {} PROVE Boot(b)!NamesAreUnique'
  <2>0. i \in DOMAIN users
    BY <1>2 DEF Renames
  <2>1. /\ DOMAIN users' = DOMAIN users /\ i \in DOMAIN users /\ users'[i].name = n
        /\ \A j \in DOMAIN users : j # i => users'[j] = users[j]
    BY <1>2, <2>0, RenamedIs
  <2>2. \A j \in DOMAIN users : j # i => Boot(b)!normalizeUsername(users[j].name) # Boot(b)!normalizeUsername(n)
    BY <1>2 DEF Boot!Called
  <2>3. \A p : Boot(b)!normalizeUsername(p)' = Boot(b)!normalizeUsername(p)
    BY DEF Boot!normalizeUsername
  <2>4. ASSUME NEW k \in DOMAIN users, NEW j \in DOMAIN users, k # j, users'[k].name # Boot(b)!Unnamed
        PROVE  Boot(b)!normalizeUsername(users'[k].name) # Boot(b)!normalizeUsername(users'[j].name)
    <3>1. CASE k = i
      BY <2>1, <2>2, <2>4, <3>1
    <3>2. CASE j = i
      BY <2>1, <2>2, <2>4, <3>2
    <3>3. CASE k # i /\ j # i
      BY <2>1, <2>4, <3>3 DEF Boot!NamesAreUnique
    <3> QED
      BY <3>1, <3>2, <3>3
  <2> QED
    BY <2>1, <2>3, <2>4 DEF Boot!NamesAreUnique, Boot!normalizeUsername
<1>3. ASSUME NEW a, Adds(b, a), Boot(b)!Called(a.name) = {} PROVE Boot(b)!NamesAreUnique'
  <2> DEFINE new == Len(users) + 1
  <2>1. /\ DOMAIN users' = DOMAIN users \cup {new} /\ new \notin DOMAIN users
        /\ users'[new].name = a.name
        /\ \A j \in DOMAIN users : users'[j] = users[j]
    BY <1>3, AddedIsTyped DEF Adds
  <2> HIDE DEF new
  <2>2. \A j \in DOMAIN users : Boot(b)!normalizeUsername(users[j].name) # Boot(b)!normalizeUsername(a.name)
    BY <1>3 DEF Boot!Called
  <2>4. ASSUME NEW k \in DOMAIN users', NEW j \in DOMAIN users', k # j, users'[k].name # Boot(b)!Unnamed
        PROVE  Boot(b)!normalizeUsername(users'[k].name) # Boot(b)!normalizeUsername(users'[j].name)
    <3>1. CASE k = new
      BY <2>1, <2>2, <2>4, <3>1
    <3>2. CASE j = new
      BY <2>1, <2>2, <2>4, <3>2
    <3>3. CASE k # new /\ j # new
      BY <2>1, <2>4, <3>3 DEF Boot!NamesAreUnique
    <3> QED
      BY <3>1, <3>2, <3>3
  <2> QED
    BY <2>4 DEF Boot!NamesAreUnique, Boot!normalizeUsername
<1> QED
  BY <1>1, <1>2, <1>3

LEMMA KeepsCalled ==
  ASSUME NEW b, KeepsAccounts(b)
  PROVE  /\ \A n : Boot(b)!Called(n)' = Boot(b)!Called(n)
         /\ \A i \in DOMAIN users : users'[i].admin = users[i].admin
BY DEF KeepsAccounts, Boot!Called, Boot!normalizeUsername

LEMMA SameAccounts ==
  ASSUME NEW b, TypesInv(b), UNCHANGED users
  PROVE  KeepsAccounts(b)
BY DEF KeepsAccounts, TypesInv, Boot!TypeOK

LEMMA NamesStep ==
  ASSUME NEW b, Boot(b)!BootstrapAssumption, NamesInv(b), [Boot(b)!Next]_(Boot(b)!vars)
  PROVE  NamesInv(b)'
<1>1. TypesInv(b)' /\ TypesInv(b) /\ Boot(b)!TypeOK /\ NamelessAreOld(b) /\ users \in Seq(Boot(b)!Account) /\ Boot(b)!NamesAreUnique /\ Known(b)
  BY TypesStep DEF NamesInv, TypesInv, Boot!TypeOK
<1>2. ASSUME KeepsAccounts(b), Known(b) \/ at' \in {"down", "names", "setting", "look", "up"},
             \/ at' \in {"down", "names", "setting", "look", "up"}
             \/ at' \in {"tenant", "admin"} /\ Boot(b)!Called(b.config.name) = {}
             \/ at' \in {"contact", "policy"} /\ \E i \in Boot(b)!Called(b.config.name) : users[i].admin
      PROVE  NamesInv(b)'
  <2>1. Boot(b)!NamesAreUnique'
    BY <1>1, <1>2, NamesStayApart
  <2>2. Boot(b)!Called(b.config.name)' = Boot(b)!Called(b.config.name) /\ \A i \in DOMAIN users : users'[i].admin = users[i].admin
    BY <1>2, KeepsCalled
  <2>3. Boot(b)!Called(b.config.name) \subseteq DOMAIN users
    BY DEF Boot!Called
  <2>4. Known(b)'
    BY <1>2, <2>2, <2>3 DEF Known
  <2> QED
    BY <1>1, <2>1, <2>4 DEF NamesInv
<1>3. CASE UNCHANGED users /\ at' \in {"down", "names", "setting", "look", "up"}
  BY <1>1, <1>2, <1>3, SameAccounts
<1>4. CASE Boot(b)!Start \/ Boot(b)!SaveSetting \/ Boot(b)!MakePolicy \/ Boot(b)!Crash
  BY <1>3, <1>4 DEF Boot!Start, Boot!SaveSetting, Boot!MakePolicy, Boot!Crash, Boot!Ready
<1>5. CASE Boot(b)!Look
  <2>1. UNCHANGED users
    BY <1>5 DEF Boot!Look
  <2>2. CASE Boot(b)!Called(b.config.name) = {}
    BY <1>1, <1>2, <1>5, <2>1, <2>2, SameAccounts DEF Boot!Look
  <2>3. CASE Boot(b)!Called(b.config.name) # {} /\ \E i \in Boot(b)!Called(b.config.name) : ~users[i].admin
    BY <1>3, <1>5, <2>1, <2>3 DEF Boot!Look, Boot!Fail
  <2>4. CASE Boot(b)!Called(b.config.name) # {} /\ \A i \in Boot(b)!Called(b.config.name) : users[i].admin
    <3>1. at' \in {"contact", "up"}
      BY <1>5, <2>4 DEF Boot!Look, Boot!Ready
    <3> QED
      BY <1>1, <1>2, <2>1, <2>4, <3>1, SameAccounts
  <2> QED
    BY <2>2, <2>3, <2>4
<1>6. CASE Boot(b)!MakeTenant
  BY <1>1, <1>2, <1>6, SameAccounts DEF Boot!MakeTenant, Known
<1>7. CASE Boot(b)!Backfill
  <2>1. CASE users' = users /\ at' = "setting"
    BY <1>3, <2>1
  <2>2. CASE at' = at /\ \E i \in DOMAIN users : \E n, e : Renames(b, i, n, e) /\ Boot(b)!Called(n) \ {i} = {}
    <3>1. Boot(b)!NamesAreUnique'
      BY <1>1, <2>2, NamesStayApart
    <3> QED
      BY <1>1, <1>7, <2>2, <3>1 DEF NamesInv, Known, Boot!Backfill
  <2> QED
    BY <1>1, <1>7, <2>1, <2>2, BackfillRenames
<1>8. CASE Boot(b)!SetContact
  <2>1. KeepsAccounts(b) /\ at' = "up"
    BY <1>1, <1>8, SetContactKeeps DEF KeepsAccounts, Boot!SetContact, Boot!Ready
  <2> QED
    BY <1>2, <2>1
<1>9. CASE Boot(b)!MakeAdmin
  <2>1. CASE UNCHANGED users /\ Boot(b)!Fail
    BY <1>3, <2>1 DEF Boot!Fail
  <2>2. ASSUME NEW a, Adds(b, a), a.name = b.config.name, a.admin, at' = "policy" PROVE NamesInv(b)'
    <3>1. Boot(b)!Called(b.config.name) = {}
      BY <1>1, <1>9 DEF Known, Boot!MakeAdmin
    <3>2. Boot(b)!NamesAreUnique'
      BY <1>1, <2>2, <3>1, NamesStayApart
    <3>3. DOMAIN users' = DOMAIN users \cup {Len(users) + 1} /\ users'[Len(users) + 1] = a
      BY <1>1, <2>2, AddedIsTyped DEF Adds
    <3>4. Len(users) + 1 \in Boot(b)!Called(b.config.name)'
      BY <2>2, <3>3 DEF Boot!Called, Boot!normalizeUsername
    <3> QED
      BY <1>1, <2>2, <3>2, <3>3, <3>4 DEF NamesInv, Known
  <2> QED
    BY <1>1, <1>9, <2>1, <2>2, MakeAdminAdds
<1>10. ASSUME NEW n \in b.names, Boot(b)!Register(n) PROVE NamesInv(b)'
  <2>1. \E a : Adds(b, a) /\ Boot(b)!Called(a.name) = {}
    <3>0. PICK a : Registers(b, n, a)
      BY <1>1, <1>10, RegisterAdds
    <3>1. Adds(b, a) /\ a.name = n
      BY <3>0 DEF Registers
    <3>2. Boot(b)!Called(n) = {}
      BY <1>1, <1>10, RegisterAdds
    <3> QED
      BY <3>1, <3>2
  <2>2. at' = "up"
    BY <1>10 DEF Boot!Register, Boot!Edit
  <2> QED
    BY <1>1, <2>1, <2>2, NamesStayApart DEF NamesInv, Known
<1>11. ASSUME NEW i \in DOMAIN users, NEW n \in b.names, NEW e \in b.emails \cup {""}, Boot(b)!UpdateProfile(i, n, e)
       PROVE  NamesInv(b)'
  <2>1. Renames(b, i, n, e) /\ Boot(b)!Called(n) \ {i} = {}
    BY <1>1, <1>11, ProfileRenames
  <2>2. at' = "up"
    BY <1>11 DEF Boot!UpdateProfile, Boot!Edit
  <2> QED
    BY <1>1, <2>1, <2>2, NamesStayApart DEF NamesInv, Known
<1>12. CASE UNCHANGED Boot(b)!vars
  BY <1>1, <1>12 DEF Boot!vars, NamesInv, Boot!NamesAreUnique, Known, Boot!Called, Boot!normalizeUsername
<1> QED
  BY <1>4, <1>5, <1>6, <1>7, <1>8, <1>9, <1>10, <1>11, <1>12 DEF Boot!Next

LEMMA InitNames ==
  ASSUME NEW b
  PROVE  Boot(b)!BootstrapAssumption /\ Boot(b)!Init => NamesInv(b)
<1> SUFFICES ASSUME Boot(b)!BootstrapAssumption, Boot(b)!Init PROVE NamesInv(b)
  OBVIOUS
<1>1. \A i \in DOMAIN users : users[i].name = Boot(b)!Unnamed
  BY DEF Boot!Init
<1>2. at = "down"
  BY DEF Boot!Init
<1> QED
  BY <1>1, <1>2, StartTypes DEF NamesInv, Boot!NamesAreUnique, Known

LEMMA NamesInvHolds ==
  ASSUME NEW b, Boot(b)!BootstrapAssumption
  PROVE  Boot(b)!Spec => []NamesInv(b)
<1>1. Boot(b)!Init => NamesInv(b)
  BY InitNames
<1>2. NamesInv(b) /\ [Boot(b)!Next]_(Boot(b)!vars) => NamesInv(b)'
  BY NamesStep
<1> QED
  BY <1>1, <1>2, PTL DEF Boot!Spec

(* No two accounts have one name, in whatever letters, wherever a          *)
(* migration was cut (nextAvailableLegacyUsername, EnsureBootstrap).       *)
THEOREM BootstrapNames ==
  ASSUME NEW b, Boot(b)!BootstrapAssumption
  PROVE  Boot(b)!Spec => []Boot(b)!NamesAreUnique
<1>1. NamesInv(b) => Boot(b)!NamesAreUnique
  BY DEF NamesInv
<1> QED
  BY <1>1, NamesInvHolds, PTL

-----------------------------------------------------------------------------
(* The administrator.                                                      *)

HasAdmin(b) == \E i \in Boot(b)!Called(b.config.name) : users[i].admin

AdminInv(b) ==
  /\ Boot(b)!UpHasItsAdmin
  /\ \A i \in Boot(b)!Initial : users[i].admin
  /\ ~renamed => Boot(b)!Initial \subseteq Boot(b)!Called(b.config.name)
  /\ Boot(b)!Initial # {} /\ ~platform.policy => cut \/ at = "policy"

(* Where there were no accounts before, a start fails for one reason.      *)
FreshInv(b) ==
  /\ ~renamed => \A i \in Boot(b)!Called(b.config.name) : users[i].admin
  /\ \A i \in DOMAIN users : users[i].email # "" => users[i].made = "bootstrap"
  /\ failed => renamed

LEMMA RenamedCalled ==
  ASSUME NEW b, users \in Seq(Boot(b)!Account), NEW i, NEW n, NEW e, Renames(b, i, n, e)
  PROVE  /\ \A m : \A j \in DOMAIN users :
              j \in Boot(b)!Called(m)' <=> IF j = i THEN Boot(b)!normalizeUsername(n) = Boot(b)!normalizeUsername(m) ELSE j \in Boot(b)!Called(m)
         /\ \A m : Boot(b)!Called(m)' \subseteq DOMAIN users
         /\ Boot(b)!Initial' = Boot(b)!Initial
<1>1. /\ DOMAIN users' = DOMAIN users /\ i \in DOMAIN users /\ users'[i].name = n
      /\ \A j \in DOMAIN users : j # i => users'[j] = users[j]
      /\ \A j \in DOMAIN users : users'[j].made = users[j].made
  <2>1. i \in DOMAIN users
    BY DEF Renames
  <2> QED
    BY <2>1, RenamedIs
<1> QED
  BY <1>1 DEF Boot!Called, Boot!Initial, Boot!normalizeUsername

LEMMA AddedCalled ==
  ASSUME NEW b, users \in Seq(Boot(b)!Account), NEW a, Adds(b, a)
  PROVE  \E new :
           /\ new \notin DOMAIN users /\ DOMAIN users' = DOMAIN users \cup {new} /\ users'[new] = a
           /\ \A j \in DOMAIN users : users'[j] = users[j]
           /\ \A m : Boot(b)!Called(m)' = Boot(b)!Called(m) \cup IF Boot(b)!normalizeUsername(a.name) = Boot(b)!normalizeUsername(m) THEN {new} ELSE {}
           /\ Boot(b)!Initial' = Boot(b)!Initial \cup IF a.made = "bootstrap" THEN {new} ELSE {}
<1> DEFINE new == Len(users) + 1
<1>1. /\ new \notin DOMAIN users /\ DOMAIN users' = DOMAIN users \cup {new} /\ users'[new] = a
      /\ \A j \in DOMAIN users : users'[j] = users[j]
  BY AddedIsTyped DEF Adds
<1> HIDE DEF new
<1>2. \A m : Boot(b)!Called(m)' = Boot(b)!Called(m) \cup IF Boot(b)!normalizeUsername(a.name) = Boot(b)!normalizeUsername(m) THEN {new} ELSE {}
  BY <1>1 DEF Boot!Called, Boot!normalizeUsername
<1>3. Boot(b)!Initial' = Boot(b)!Initial \cup IF a.made = "bootstrap" THEN {new} ELSE {}
  BY <1>1 DEF Boot!Initial
<1> QED
  BY <1>1, <1>2, <1>3

LEMMA ConfigIsNamed ==
  ASSUME NEW b
  PROVE  Boot(b)!BootstrapAssumption => Boot(b)!normalizeUsername(Boot(b)!Unnamed) # Boot(b)!normalizeUsername(b.config.name)
<1> SUFFICES ASSUME Boot(b)!BootstrapAssumption, Boot(b)!normalizeUsername(Boot(b)!Unnamed) = Boot(b)!normalizeUsername(b.config.name) PROVE FALSE
  OBVIOUS
<1>1. b.config.name \in Seq(Nat) /\ b.config.name # Boot(b)!Unnamed
  BY DEF Boot!BootstrapAssumption
<1> QED
  BY <1>1, NormalOfEmpty

(* Which steps keep the accounts, and where they lead.                     *)
LEMMA KeepingSteps ==
  ASSUME NEW b, Boot(b)!BootstrapAssumption, NamesInv(b),
         Boot(b)!Start \/ Boot(b)!SaveSetting \/ Boot(b)!Look \/ Boot(b)!MakeTenant \/ Boot(b)!MakePolicy \/ Boot(b)!Crash \/ Boot(b)!SetContact \/ UNCHANGED Boot(b)!vars
  PROVE  /\ KeepsAccounts(b) /\ renamed' = renamed
         /\ at' = "up" => HasAdmin(b) \/ at = "up"
         /\ platform'.policy \/ (platform'.policy = platform.policy /\ (at = "policy" => at' = "policy" \/ cut'))
         /\ cut => cut'
         /\ failed' => failed \/ (Boot(b)!Look /\ \E i \in Boot(b)!Called(b.config.name) : ~users[i].admin)
<1>0. TypesInv(b) /\ Known(b) /\ Boot(b)!TypeOK
  BY DEF NamesInv, TypesInv
<1>1. CASE Boot(b)!Start \/ Boot(b)!SaveSetting \/ Boot(b)!Crash \/ UNCHANGED Boot(b)!vars
  <2>1. KeepsAccounts(b)
    BY <1>0, <1>1, SameAccounts DEF Boot!Start, Boot!SaveSetting, Boot!Crash, Boot!vars
  <2>2. CASE Boot(b)!Start
    BY <2>1, <2>2 DEF Boot!Start
  <2>3. CASE Boot(b)!SaveSetting
    BY <2>1, <2>3 DEF Boot!SaveSetting
  <2>4. CASE Boot(b)!Crash
    BY <2>1, <2>4 DEF Boot!Crash
  <2>5. CASE UNCHANGED Boot(b)!vars
    BY <2>1, <2>5 DEF Boot!vars
  <2> QED
    BY <1>1, <2>2, <2>3, <2>4, <2>5
<1>2. CASE Boot(b)!Look
  BY <1>0, <1>2, SameAccounts DEF Boot!Look, Boot!Ready, Boot!Fail, HasAdmin
<1>3. CASE Boot(b)!MakeTenant
  <2>1. platform'.policy = platform.policy
    BY <1>0, <1>3 DEF Boot!MakeTenant, Boot!TypeOK
  <2> QED
    BY <1>0, <1>3, <2>1, SameAccounts DEF Boot!MakeTenant
<1>4. CASE Boot(b)!MakePolicy
  <2>1. platform'.policy
    BY <1>0, <1>4 DEF Boot!MakePolicy, Boot!TypeOK
  <2> QED
    BY <1>0, <1>4, <2>1, SameAccounts DEF Boot!MakePolicy, Boot!Ready, Known, HasAdmin
<1>5. CASE Boot(b)!SetContact
  <2>1. KeepsAccounts(b)
    BY <1>0, <1>5, SetContactKeeps DEF KeepsAccounts
  <2> QED
    BY <1>0, <1>5, <2>1 DEF Boot!SetContact, Boot!Ready, Known, HasAdmin
<1> QED
  BY <1>1, <1>2, <1>3, <1>4, <1>5

LEMMA KeptInitial ==
  ASSUME NEW b, KeepsAccounts(b)
  PROVE  Boot(b)!Initial' = Boot(b)!Initial
BY DEF KeepsAccounts, Boot!Initial

LEMMA AdminStep ==
  ASSUME NEW b, Boot(b)!BootstrapAssumption, NamesInv(b), AdminInv(b), [Boot(b)!Next]_(Boot(b)!vars)
  PROVE  AdminInv(b)'
<1>0. /\ TypesInv(b) /\ Boot(b)!TypeOK /\ NamelessAreOld(b) /\ users \in Seq(Boot(b)!Account) /\ Known(b)
      /\ Boot(b)!Initial \subseteq DOMAIN users /\ \A m : Boot(b)!Called(m) \subseteq DOMAIN users
  BY DEF NamesInv, TypesInv, Boot!TypeOK, Boot!Initial, Boot!Called
<1>1. CASE Boot(b)!Start \/ Boot(b)!SaveSetting \/ Boot(b)!Look \/ Boot(b)!MakeTenant \/ Boot(b)!MakePolicy \/ Boot(b)!Crash \/ Boot(b)!SetContact \/ UNCHANGED Boot(b)!vars
  <2>1. /\ KeepsAccounts(b) /\ renamed' = renamed
        /\ at' = "up" => HasAdmin(b) \/ at = "up"
        /\ platform'.policy \/ (platform'.policy = platform.policy /\ (at = "policy" => at' = "policy" \/ cut'))
        /\ cut => cut'
    BY <1>1, KeepingSteps
  <2>2. /\ Boot(b)!Initial' = Boot(b)!Initial /\ \A m : Boot(b)!Called(m)' = Boot(b)!Called(m)
        /\ \A i \in DOMAIN users : users'[i].admin = users[i].admin
    BY <2>1, KeptInitial, KeepsCalled
  <2>3. HasAdmin(b) => \E i \in Boot(b)!Called(b.config.name)' : users'[i].admin
    BY <1>0, <2>2 DEF HasAdmin
  <2>4. Boot(b)!UpHasItsAdmin'
    BY <2>1, <2>3 DEF Boot!UpHasItsAdmin, HasAdmin, AdminInv
  <2> QED
    BY <1>0, <2>1, <2>2, <2>4 DEF AdminInv
<1>2. CASE Boot(b)!Backfill
  <2>1. /\ at = "names" /\ renamed' = renamed /\ platform' = platform /\ cut' = cut
    BY <1>2 DEF Boot!Backfill
  <2>2. CASE users' = users /\ at' = "setting"
    <3>1. KeepsAccounts(b)
      BY <1>0, <2>2, SameAccounts
    <3> QED
      BY <1>0, <2>1, <2>2, <3>1, KeptInitial, KeepsCalled DEF AdminInv, Boot!UpHasItsAdmin
  <2>3. ASSUME at' = at, NEW i \in DOMAIN users, NEW n, NEW e, Renames(b, i, n, e), users[i].name = Boot(b)!Unnamed
        PROVE  AdminInv(b)'
    <3>1. i \notin Boot(b)!Called(b.config.name)
      BY <2>3, ConfigIsNamed DEF Boot!Called
    <3>2. /\ Boot(b)!Initial' = Boot(b)!Initial
          /\ \A j \in DOMAIN users : j # i => (j \in Boot(b)!Called(b.config.name)' <=> j \in Boot(b)!Called(b.config.name))
          /\ \A j \in DOMAIN users : users'[j].admin = users[j].admin
      BY <1>0, <2>3, RenamedCalled, RenamedIs
    <3>3. ~renamed => Boot(b)!Initial \subseteq Boot(b)!Called(b.config.name)'
      BY <1>0, <3>1, <3>2 DEF AdminInv
    <3> QED
      BY <1>0, <2>1, <2>3, <3>2, <3>3 DEF AdminInv, Boot!UpHasItsAdmin
  <2> QED
    BY <1>0, <1>2, <2>2, <2>3, BackfillRenames
<1>3. CASE Boot(b)!MakeAdmin
  <2>1. /\ at = "admin" /\ renamed' = renamed /\ platform' = platform /\ cut' = cut /\ Boot(b)!Called(b.config.name) = {}
    BY <1>0, <1>3 DEF Boot!MakeAdmin, Known
  <2>2. CASE UNCHANGED users /\ Boot(b)!Fail
    <3>1. KeepsAccounts(b) /\ at' = "down"
      BY <1>0, <2>2, SameAccounts DEF Boot!Fail
    <3> QED
      BY <1>0, <2>1, <3>1, KeptInitial, KeepsCalled DEF AdminInv, Boot!UpHasItsAdmin
  <2>3. ASSUME NEW a, Adds(b, a), a.name = b.config.name, a.admin, a.made = "bootstrap", at' = "policy"
        PROVE  AdminInv(b)'
    <3>1. PICK new :
           /\ new \notin DOMAIN users /\ DOMAIN users' = DOMAIN users \cup {new} /\ users'[new] = a
           /\ \A j \in DOMAIN users : users'[j] = users[j]
           /\ \A m : Boot(b)!Called(m)' = Boot(b)!Called(m) \cup IF Boot(b)!normalizeUsername(a.name) = Boot(b)!normalizeUsername(m) THEN {new} ELSE {}
           /\ Boot(b)!Initial' = Boot(b)!Initial \cup IF a.made = "bootstrap" THEN {new} ELSE {}
      BY <1>0, <2>3, AddedCalled
    <3>2. Boot(b)!Called(b.config.name)' = {new} /\ Boot(b)!Initial' = Boot(b)!Initial \cup {new}
      BY <2>1, <2>3, <3>1
    <3>3. ~renamed => Boot(b)!Initial' \subseteq Boot(b)!Called(b.config.name)'
      BY <2>1, <3>2 DEF AdminInv
    <3>4. \A i \in Boot(b)!Initial' : users'[i].admin
      BY <1>0, <2>3, <3>1, <3>2 DEF AdminInv
    <3> QED
      BY <2>1, <2>3, <3>3, <3>4 DEF AdminInv, Boot!UpHasItsAdmin
  <2> QED
    BY <1>0, <1>3, <2>2, <2>3, MakeAdminAdds
<1>4. ASSUME NEW n \in b.names, Boot(b)!Register(n) PROVE AdminInv(b)'
  <2>1. /\ at = "up" /\ at' = "up" /\ renamed' = renamed /\ platform' = platform /\ cut' = cut
    BY <1>4 DEF Boot!Register, Boot!Edit
  <2>2. PICK a : Adds(b, a) /\ a.made = "register"
    BY <1>0, <1>4, RegisterAdds DEF Registers
  <2>3. PICK new :
           /\ new \notin DOMAIN users /\ DOMAIN users' = DOMAIN users \cup {new} /\ users'[new] = a
           /\ \A j \in DOMAIN users : users'[j] = users[j]
           /\ \A m : Boot(b)!Called(m)' = Boot(b)!Called(m) \cup IF Boot(b)!normalizeUsername(a.name) = Boot(b)!normalizeUsername(m) THEN {new} ELSE {}
           /\ Boot(b)!Initial' = Boot(b)!Initial \cup IF a.made = "bootstrap" THEN {new} ELSE {}
    BY <1>0, <2>2, AddedCalled
  <2>4. Boot(b)!Initial' = Boot(b)!Initial /\ Boot(b)!Called(b.config.name) \subseteq Boot(b)!Called(b.config.name)'
    BY <2>2, <2>3
  <2>5. HasAdmin(b) => \E i \in Boot(b)!Called(b.config.name)' : users'[i].admin
    BY <1>0, <2>3, <2>4 DEF HasAdmin
  <2>6. Boot(b)!UpHasItsAdmin'
    BY <2>1, <2>5 DEF AdminInv, Boot!UpHasItsAdmin, HasAdmin
  <2> QED
    BY <1>0, <2>1, <2>3, <2>4, <2>6 DEF AdminInv
<1>5. ASSUME NEW i \in DOMAIN users, NEW n \in b.names, NEW e \in b.emails \cup {""}, Boot(b)!UpdateProfile(i, n, e)
      PROVE  AdminInv(b)'
  <2>1. /\ at = "up" /\ at' = "up" /\ platform' = platform /\ cut' = cut
        /\ renamed' = (renamed \/ (users[i].admin /\ Boot(b)!normalizeUsername(n) # Boot(b)!normalizeUsername(users[i].name)))
    BY <1>5 DEF Boot!UpdateProfile, Boot!Edit
  <2>2. Renames(b, i, n, e)
    BY <1>0, <1>5, ProfileRenames
  <2>3. /\ \A j \in DOMAIN users :
              j \in Boot(b)!Called(b.config.name)' <=>
                IF j = i THEN Boot(b)!normalizeUsername(n) = Boot(b)!normalizeUsername(b.config.name) ELSE j \in Boot(b)!Called(b.config.name)
        /\ Boot(b)!Initial' = Boot(b)!Initial
        /\ \A j \in DOMAIN users : users'[j].admin = users[j].admin
    <3>1. i \in DOMAIN users
      OBVIOUS
    <3>2. /\ DOMAIN users' = DOMAIN users
          /\ \A j \in DOMAIN users : /\ users'[j].admin = users[j].admin /\ users'[j].made = users[j].made
                                      /\ users'[j].email = users[j].email
      BY <1>0, <2>2, <3>1, RenamedIs
    <3>3. /\ \A j \in DOMAIN users :
              j \in Boot(b)!Called(b.config.name)' <=>
                IF j = i THEN Boot(b)!normalizeUsername(n) = Boot(b)!normalizeUsername(b.config.name) ELSE j \in Boot(b)!Called(b.config.name)
          /\ Boot(b)!Called(b.config.name)' \subseteq DOMAIN users
      BY <1>0, <2>2, <3>1, RenamedCalled
    <3>4. Boot(b)!Initial' = Boot(b)!Initial
      BY <1>0, <2>2, <3>1, RenamedCalled
    <3> QED
      BY <3>2, <3>3, <3>4
  <2>4. ASSUME ~renamed', NEW j \in Boot(b)!Called(b.config.name), users[j].admin
        PROVE  j \in Boot(b)!Called(b.config.name)' /\ users'[j].admin
    BY <1>0, <2>1, <2>3, <2>4 DEF Boot!Called
  <2>5. Boot(b)!UpHasItsAdmin'
    <3> SUFFICES ASSUME ~renamed' PROVE \E j \in Boot(b)!Called(b.config.name)' : users'[j].admin
      BY DEF Boot!UpHasItsAdmin
    <3>1. PICK j \in Boot(b)!Called(b.config.name) : users[j].admin
      BY <2>1 DEF AdminInv, Boot!UpHasItsAdmin
    <3> QED
      BY <2>4, <3>1
  <2>6. ~renamed' => Boot(b)!Initial' \subseteq Boot(b)!Called(b.config.name)'
    BY <2>1, <2>3, <2>4 DEF AdminInv
  <2> QED
    BY <1>0, <2>1, <2>3, <2>5, <2>6 DEF AdminInv
<1> QED
  BY <1>1, <1>2, <1>3, <1>4, <1>5 DEF Boot!Next
(* A start leaves what the next start needs: once it is up, the            *)
(* administrator is there.                                                 *)
LEMMA InitAdmin ==
  ASSUME NEW b
  PROVE  Boot(b)!BootstrapAssumption /\ Boot(b)!Init => AdminInv(b)
<1> SUFFICES ASSUME Boot(b)!BootstrapAssumption, Boot(b)!Init PROVE AdminInv(b)
  OBVIOUS
<1>1. Boot(b)!Initial = {} /\ at = "down"
  BY DEF Boot!Init, Boot!Initial
<1> QED
  BY <1>1 DEF AdminInv, Boot!UpHasItsAdmin

LEMMA AdminInvHolds ==
  ASSUME NEW b, Boot(b)!BootstrapAssumption
  PROVE  Boot(b)!Spec => [](NamesInv(b) /\ AdminInv(b))
<1>1. Boot(b)!Init => NamesInv(b) /\ AdminInv(b)
  BY InitNames, InitAdmin
<1>2. (NamesInv(b) /\ AdminInv(b)) /\ [Boot(b)!Next]_(Boot(b)!vars) => (NamesInv(b) /\ AdminInv(b))'
  BY NamesStep, AdminStep
<1> QED
  BY <1>1, <1>2, PTL DEF Boot!Spec

LEMMA SameCardinality ==
  ASSUME NEW b, NEW S
  PROVE  Boot(b)!Cardinality(S) = Cardinality(S)
BY Zenon DEF Cardinality, Boot!Cardinality

LEMMA OneIsTheConfigured ==
  ASSUME NEW b, Boot(b)!BootstrapAssumption, NamesInv(b), AdminInv(b)
  PROVE  Boot(b)!SecondOnlyAfterARename
<1> SUFFICES ASSUME Cardinality(Boot(b)!Initial) > 1, ~renamed PROVE FALSE
  BY SameCardinality DEF Boot!SecondOnlyAfterARename
<1>1. Boot(b)!Initial \subseteq Boot(b)!Called(b.config.name) /\ Boot(b)!Initial \subseteq DOMAIN users
  BY DEF AdminInv, Boot!Initial
<1>2. \A i, j \in Boot(b)!Initial : i = j
  <2> SUFFICES ASSUME NEW i \in Boot(b)!Initial, NEW j \in Boot(b)!Initial, i # j PROVE FALSE
    OBVIOUS
  <2>1. Boot(b)!normalizeUsername(users[i].name) = Boot(b)!normalizeUsername(b.config.name)
        /\ Boot(b)!normalizeUsername(users[j].name) = Boot(b)!normalizeUsername(b.config.name)
    BY <1>1 DEF Boot!Called
  <2>2. users[i].name # Boot(b)!Unnamed
    BY <2>1, ConfigIsNamed
  <2> QED
    BY <1>1, <2>1, <2>2 DEF NamesInv, Boot!NamesAreUnique
<1>3. CASE Boot(b)!Initial = {}
  <2>1. Cardinality(Boot(b)!Initial) = 0
    BY <1>3, FS_EmptySet
  <2> QED
    BY <2>1
<1>4. ASSUME NEW i \in Boot(b)!Initial PROVE FALSE
  <2>1. Boot(b)!Initial = {i}
    BY <1>2
  <2>2. Cardinality(Boot(b)!Initial) = 1
    BY <2>1, FS_Singleton
  <2> QED
    BY <2>2
<1> QED
  BY <1>3, <1>4

(* A process that is up has the configured administrator, unless he took   *)
(* another name (EnsureBootstrap).                                         *)
THEOREM UpHasAdmin ==
  ASSUME NEW b, Boot(b)!BootstrapAssumption
  PROVE  Boot(b)!Spec => []Boot(b)!UpHasItsAdmin
<1>1. AdminInv(b) => Boot(b)!UpHasItsAdmin
  BY DEF AdminInv
<1> QED
  BY <1>1, AdminInvHolds, PTL

(* A second administrator is made only after the first one took another    *)
(* name, wherever earlier starts were cut (EnsureBootstrap).               *)
THEOREM OneAdminIsMade ==
  ASSUME NEW b, Boot(b)!BootstrapAssumption
  PROVE  Boot(b)!Spec => []Boot(b)!SecondOnlyAfterARename
<1>1. NamesInv(b) /\ AdminInv(b) => Boot(b)!SecondOnlyAfterARename
  BY OneIsTheConfigured
<1> QED
  BY <1>1, AdminInvHolds, PTL

(* The policy of the administrator's tenant is missing only where the      *)
(* process died between the two (EnsureBootstrap).                         *)
THEOREM PolicyIsMade ==
  ASSUME NEW b, Boot(b)!BootstrapAssumption
  PROVE  Boot(b)!Spec => []Boot(b)!PolicyMissingOnlyByCrash
<1>1. NamesInv(b) /\ AdminInv(b) => Boot(b)!PolicyMissingOnlyByCrash
  BY DEF AdminInv, Boot!PolicyMissingOnlyByCrash
<1> QED
  BY <1>1, AdminInvHolds, PTL

-----------------------------------------------------------------------------
(* Where there were no accounts before the migration, a start fails for    *)
(* one reason: only the configured administrator has his name and has an   *)
(* e-mail of the column that is unique.                                    *)
LEMMA FreshStep ==
  ASSUME NEW b, Boot(b)!BootstrapAssumption, b.legacy = <<>>, NamesInv(b), AdminInv(b), FreshInv(b), [Boot(b)!Next]_(Boot(b)!vars)
  PROVE  FreshInv(b)'
<1>0. /\ TypesInv(b) /\ Boot(b)!TypeOK /\ NamelessAreOld(b) /\ users \in Seq(Boot(b)!Account) /\ Known(b)
      /\ \A m : Boot(b)!Called(m) \subseteq DOMAIN users
  BY DEF NamesInv, TypesInv, Boot!TypeOK, Boot!Called
<1>1. CASE Boot(b)!Start \/ Boot(b)!SaveSetting \/ Boot(b)!Look \/ Boot(b)!MakeTenant \/ Boot(b)!MakePolicy \/ Boot(b)!Crash \/ Boot(b)!SetContact \/ UNCHANGED Boot(b)!vars
  <2>1. /\ KeepsAccounts(b) /\ renamed' = renamed
        /\ failed' => failed \/ (Boot(b)!Look /\ \E i \in Boot(b)!Called(b.config.name) : ~users[i].admin)
    BY <1>1, KeepingSteps
  <2>2. /\ \A m : Boot(b)!Called(m)' = Boot(b)!Called(m)
        /\ \A i \in DOMAIN users : users'[i].admin = users[i].admin
    BY <2>1, KeepsCalled
  <2>3. /\ DOMAIN users' = DOMAIN users
        /\ \A i \in DOMAIN users : users'[i].made = users[i].made /\ users'[i].email = users[i].email
    BY <2>1 DEF KeepsAccounts
  <2>4. failed' => renamed'
    BY <2>1 DEF FreshInv
  <2> QED
    BY <1>0, <2>1, <2>2, <2>3, <2>4 DEF FreshInv
<1>2. CASE Boot(b)!Backfill
  <2>1. renamed' = renamed /\ failed' = failed
    BY <1>2 DEF Boot!Backfill
  <2>2. \A i \in DOMAIN users : users[i].name # Boot(b)!Unnamed
    BY <1>0 DEF NamelessAreOld
  <2>3. users' = users
    BY <1>0, <1>2, <2>2, BackfillRenames
  <2> QED
    BY <2>1, <2>3 DEF FreshInv, Boot!Called
<1>3. CASE Boot(b)!MakeAdmin
  <2>1. renamed' = renamed /\ Boot(b)!Called(b.config.name) = {}
    BY <1>0, <1>3 DEF Boot!MakeAdmin, Known
  <2>2. CASE UNCHANGED users /\ b.config.email # "" /\ \E i \in DOMAIN users : users[i].email = b.config.email
    <3>1. PICK i \in DOMAIN users : users[i].email = b.config.email
      BY <2>2
    <3>2. i \in Boot(b)!Initial
      BY <2>2, <3>1 DEF FreshInv, Boot!Initial
    <3>3. renamed
      BY <2>1, <3>2 DEF AdminInv
    <3> QED
      BY <2>1, <2>2, <3>3 DEF FreshInv
  <2>3. ASSUME failed' = failed, NEW a, Adds(b, a), a.name = b.config.name, a.admin, a.made = "bootstrap"
        PROVE  FreshInv(b)'
    <3>1. PICK new :
           /\ new \notin DOMAIN users /\ DOMAIN users' = DOMAIN users \cup {new} /\ users'[new] = a
           /\ \A j \in DOMAIN users : users'[j] = users[j]
           /\ \A m : Boot(b)!Called(m)' = Boot(b)!Called(m) \cup IF Boot(b)!normalizeUsername(a.name) = Boot(b)!normalizeUsername(m) THEN {new} ELSE {}
           /\ Boot(b)!Initial' = Boot(b)!Initial \cup IF a.made = "bootstrap" THEN {new} ELSE {}
      BY <1>0, <2>3, AddedCalled
    <3>2. Boot(b)!Called(b.config.name)' = {new}
      BY <2>1, <2>3, <3>1
    <3> QED
      BY <2>1, <2>3, <3>1, <3>2 DEF FreshInv
  <2> QED
    BY <1>0, <1>3, <2>2, <2>3, MakeAdminAdds
<1>4. ASSUME NEW n \in b.names, Boot(b)!Register(n) PROVE FreshInv(b)'
  <2>1. at = "up" /\ renamed' = renamed /\ failed' = failed /\ Boot(b)!Called(n) = {}
    BY <1>4 DEF Boot!Register, Boot!Edit
  <2>0. PICK a : Registers(b, n, a)
    BY <1>0, <1>4, RegisterAdds
  <2>2. Adds(b, a) /\ a.name = n /\ a.made = "register" /\ a.email = ""
    BY <2>0 DEF Registers
  <2>3. PICK new :
           /\ new \notin DOMAIN users /\ DOMAIN users' = DOMAIN users \cup {new} /\ users'[new] = a
           /\ \A j \in DOMAIN users : users'[j] = users[j]
           /\ \A m : Boot(b)!Called(m)' = Boot(b)!Called(m) \cup IF Boot(b)!normalizeUsername(a.name) = Boot(b)!normalizeUsername(m) THEN {new} ELSE {}
           /\ Boot(b)!Initial' = Boot(b)!Initial \cup IF a.made = "bootstrap" THEN {new} ELSE {}
    BY <1>0, <2>2, AddedCalled
  <2>4. ASSUME ~renamed PROVE Boot(b)!normalizeUsername(n) # Boot(b)!normalizeUsername(b.config.name)
    <3>1. Boot(b)!Called(b.config.name) # {}
      BY <2>1, <2>4 DEF AdminInv, Boot!UpHasItsAdmin
    <3> QED
      BY <2>1, <3>1 DEF Boot!Called
  <2>5. ~renamed => Boot(b)!Called(b.config.name)' = Boot(b)!Called(b.config.name)
    BY <2>2, <2>3, <2>4
  <2> QED
    <3>1. ~renamed' => \A j \in Boot(b)!Called(b.config.name) : users'[j].admin
      BY <1>0, <2>1, <2>3 DEF FreshInv
    <3>2. \A j \in DOMAIN users' : users'[j].email # "" => users'[j].made = "bootstrap"
      BY <2>2, <2>3 DEF FreshInv
    <3>3. (~renamed => \A j \in Boot(b)!Called(b.config.name)' : users'[j].admin) /\ (failed' => renamed')
      BY <2>1, <2>5, <3>1 DEF FreshInv
    <3> QED
      BY <2>1, <3>2, <3>3 DEF FreshInv
<1>5. ASSUME NEW i \in DOMAIN users, NEW n \in b.names, NEW e \in b.emails \cup {""}, Boot(b)!UpdateProfile(i, n, e)
      PROVE  FreshInv(b)'
  <2>1. /\ at = "up" /\ failed' = failed
        /\ renamed' = (renamed \/ (users[i].admin /\ Boot(b)!normalizeUsername(n) # Boot(b)!normalizeUsername(users[i].name)))
    BY <1>5 DEF Boot!UpdateProfile, Boot!Edit
  <2>2. Renames(b, i, n, e)
    BY <1>0, <1>5, ProfileRenames
  <2>8. Boot(b)!Called(n) \ {i} = {}
    BY <1>0, <1>5, ProfileRenames
  <2>3. /\ DOMAIN users' = DOMAIN users
        /\ \A j \in DOMAIN users :
              j \in Boot(b)!Called(b.config.name)' <=>
                IF j = i THEN Boot(b)!normalizeUsername(n) = Boot(b)!normalizeUsername(b.config.name) ELSE j \in Boot(b)!Called(b.config.name)
        /\ Boot(b)!Called(b.config.name)' \subseteq DOMAIN users
        /\ \A j \in DOMAIN users : /\ users'[j].admin = users[j].admin /\ users'[j].made = users[j].made
                                    /\ users'[j].email = users[j].email
    <3>1. i \in DOMAIN users
      OBVIOUS
    <3>2. /\ DOMAIN users' = DOMAIN users
          /\ \A j \in DOMAIN users : /\ users'[j].admin = users[j].admin /\ users'[j].made = users[j].made
                                      /\ users'[j].email = users[j].email
      BY <1>0, <2>2, <3>1, RenamedIs
    <3>3. /\ \A j \in DOMAIN users :
              j \in Boot(b)!Called(b.config.name)' <=>
                IF j = i THEN Boot(b)!normalizeUsername(n) = Boot(b)!normalizeUsername(b.config.name) ELSE j \in Boot(b)!Called(b.config.name)
          /\ Boot(b)!Called(b.config.name)' \subseteq DOMAIN users
      BY <1>0, <2>2, <3>1, RenamedCalled
    <3> QED
      BY <3>2, <3>3
  <2>4. ASSUME ~renamed, Boot(b)!normalizeUsername(n) = Boot(b)!normalizeUsername(b.config.name) PROVE users[i].admin
    <3>1. PICK j \in Boot(b)!Called(b.config.name) : users[j].admin
      BY <2>1, <2>4 DEF AdminInv, Boot!UpHasItsAdmin
    <3>2. j = i
      BY <2>8, <2>4, <3>1 DEF Boot!Called
    <3> QED
      BY <3>1, <3>2
  <2>5. ASSUME ~renamed', NEW j \in Boot(b)!Called(b.config.name)' PROVE users'[j].admin
    BY <2>1, <2>3, <2>4, <2>5 DEF FreshInv
  <2>6. failed' => renamed'
    BY <2>1 DEF FreshInv
  <2>7. \A j \in DOMAIN users' : users'[j].email # "" => users'[j].made = "bootstrap"
    BY <2>3 DEF FreshInv
  <2> QED
    BY <2>5, <2>6, <2>7 DEF FreshInv
<1> QED
  BY <1>1, <1>2, <1>3, <1>4, <1>5 DEF Boot!Next

LEMMA InitFresh ==
  ASSUME NEW b, b.legacy = <<>>, Boot(b)!Init
  PROVE  FreshInv(b)
BY DEF Boot!Init, FreshInv, Boot!Called

(* With one configuration from the beginning, a start fails only after the *)
(* administrator took another name (EnsureBootstrap).                      *)
THEOREM StartsSucceed ==
  ASSUME NEW b, Boot(b)!BootstrapAssumption, b.legacy = <<>>
  PROVE  Boot(b)!Spec => []Boot(b)!FailsOnlyAfterARename
<1>1. Boot(b)!Init => FreshInv(b)
  BY InitFresh
<1>2. (NamesInv(b) /\ AdminInv(b)) /\ FreshInv(b) /\ [Boot(b)!Next]_(Boot(b)!vars) => FreshInv(b)'
  BY FreshStep
<1>3. FreshInv(b) => Boot(b)!FailsOnlyAfterARename
  BY DEF FreshInv, Boot!FailsOnlyAfterARename
<1> QED
  BY <1>1, <1>2, <1>3, AdminInvHolds, PTL DEF Boot!Spec

-----------------------------------------------------------------------------
(* The theorems of AccountsProofs, with the values of SQLite.              *)
SQLiteProofs == INSTANCE AccountsProofs WITH SQLite <- TRUE, MaxSent <- 3

(* The run's instance is an instance of the same definitions.              *)
LEMMA SQLiteAgrees ==
  /\ SQLiteAccounts!Init <=> SQLiteProofs!Init
  /\ SQLiteAccounts!Next <=> SQLiteProofs!Next
  /\ SQLiteAccounts!vars = SQLiteProofs!vars
  /\ SQLiteAccounts!NamesAreUnique <=> SQLiteProofs!NamesAreUnique
  /\ SQLiteAccounts!KeepingIsNoConflict <=> SQLiteProofs!KeepingIsNoConflict
<1>1. \A n : SQLiteAccounts!normalizeUsername(n) = SQLiteProofs!normalizeUsername(n)
  BY DEF SQLiteAccounts!normalizeUsername, SQLiteProofs!normalizeUsername
<1>2. \A n : SQLiteAccounts!Owners(n) = SQLiteProofs!Owners(n)
  BY <1>1 DEF SQLiteAccounts!Owners, SQLiteProofs!Owners, SQLiteAccounts!Ids,
     SQLiteProofs!Ids
<1>3. \A e : SQLiteAccounts!Holders(e) = SQLiteProofs!Holders(e)
  BY DEF SQLiteAccounts!Holders, SQLiteProofs!Holders, SQLiteAccounts!Ids,
     SQLiteProofs!Ids
<1>4. SQLiteAccounts!Slugs = SQLiteProofs!Slugs
  BY DEF SQLiteAccounts!Slugs, SQLiteProofs!Slugs, SQLiteAccounts!Ids,
     SQLiteProofs!Ids
<1>5. \A b, i : SQLiteAccounts!Slug(b, i) = SQLiteProofs!Slug(b, i)
  BY DEF SQLiteAccounts!Slug, SQLiteProofs!Slug
<1>6. \A b : SQLiteAccounts!MayWrite(b) <=> SQLiteProofs!MayWrite(b)
  BY DEF SQLiteAccounts!MayWrite, SQLiteProofs!MayWrite
<1>7. \A r, a : SQLiteAccounts!Answer(r, a) <=> SQLiteProofs!Answer(r, a)
  BY DEF SQLiteAccounts!Answer, SQLiteProofs!Answer, SQLiteAccounts!Idle,
     SQLiteProofs!Idle
<1>8. \A r, x : SQLiteAccounts!Go(r, x) <=> SQLiteProofs!Go(r, x)
  BY DEF SQLiteAccounts!Go, SQLiteProofs!Go
<1>9. \A r, q : SQLiteAccounts!Receive(r, q) <=> SQLiteProofs!Receive(r, q)
  BY DEF SQLiteAccounts!Receive, SQLiteProofs!Receive
<1>10. SQLiteAccounts!vars = SQLiteProofs!vars
  BY DEF SQLiteAccounts!vars, SQLiteProofs!vars
<1>11. \A i, j : SQLiteAccounts!Same(i, j) <=> SQLiteProofs!Same(i, j)
  BY <1>1 DEF SQLiteAccounts!Same, SQLiteProofs!Same, SQLiteAccounts!NoEmail,
     SQLiteProofs!NoEmail
<1>12. SQLiteAccounts!NamesAreUnique <=> SQLiteProofs!NamesAreUnique
  BY <1>11 DEF SQLiteAccounts!NamesAreUnique, SQLiteProofs!NamesAreUnique,
     SQLiteAccounts!Ids, SQLiteProofs!Ids
<1>13. SQLiteAccounts!KeepingIsNoConflict <=> SQLiteProofs!KeepingIsNoConflict
  BY <1>1, <1>11 DEF SQLiteAccounts!KeepingIsNoConflict,
     SQLiteProofs!KeepingIsNoConflict, SQLiteAccounts!Ids, SQLiteProofs!Ids
<1>14. SQLiteAccounts!Init <=> SQLiteProofs!Init
  BY DEF SQLiteAccounts!Init, SQLiteProofs!Init, SQLiteAccounts!Ids,
     SQLiteProofs!Ids, SQLiteAccounts!NoUser, SQLiteProofs!NoUser,
     SQLiteAccounts!Idle, SQLiteProofs!Idle
<1>15. \A r, n, b : SQLiteAccounts!Register(r, n, b) <=> SQLiteProofs!Register(r, n, b)
  BY <1>9 DEF SQLiteAccounts!Register, SQLiteProofs!Register, SQLiteAccounts!Idle,
     SQLiteProofs!Idle
<1>16. \A r : SQLiteAccounts!RegisterChecks(r) <=> SQLiteProofs!RegisterChecks(r)
  BY <1>7, <1>2 DEF SQLiteAccounts!RegisterChecks, SQLiteProofs!RegisterChecks
<1>17. \A r : SQLiteAccounts!TrySlug(r) <=> SQLiteProofs!TrySlug(r)
  BY <1>7, <1>5, <1>8, <1>4 DEF SQLiteAccounts!TrySlug, SQLiteProofs!TrySlug
<1>18. \A r : SQLiteAccounts!Insert(r) <=> SQLiteProofs!Insert(r)
  BY <1>7, <1>6, <1>5, <1>4 DEF SQLiteAccounts!Insert, SQLiteProofs!Insert,
     SQLiteAccounts!NoEmail, SQLiteProofs!NoEmail
<1>19. \A r, i, n, e : SQLiteAccounts!UpdateProfile(r, i, n, e) <=> SQLiteProofs!UpdateProfile(r, i, n, e)
  BY <1>9 DEF SQLiteAccounts!UpdateProfile, SQLiteProofs!UpdateProfile,
     SQLiteAccounts!Idle, SQLiteProofs!Idle
<1>20. \A r : SQLiteAccounts!ProfileChecksName(r) <=> SQLiteProofs!ProfileChecksName(r)
  BY <1>7, <1>2 DEF SQLiteAccounts!ProfileChecksName,
     SQLiteProofs!ProfileChecksName, SQLiteAccounts!NoEmail, SQLiteProofs!NoEmail
<1>21. \A r : SQLiteAccounts!ProfileChecksEmail(r) <=> SQLiteProofs!ProfileChecksEmail(r)
  BY <1>8, <1>7, <1>3 DEF SQLiteAccounts!ProfileChecksEmail,
     SQLiteProofs!ProfileChecksEmail
<1>22. \A r : SQLiteAccounts!ProfileWrites(r) <=> SQLiteProofs!ProfileWrites(r)
  BY <1>6, <1>7 DEF SQLiteAccounts!ProfileWrites, SQLiteProofs!ProfileWrites
<1>23. \A i : SQLiteAccounts!DeleteTenant(i) <=> SQLiteProofs!DeleteTenant(i)
  BY DEF SQLiteAccounts!DeleteTenant, SQLiteProofs!DeleteTenant,
     SQLiteAccounts!NoUser, SQLiteProofs!NoUser
<1>24. SQLiteAccounts!Crash <=> SQLiteProofs!Crash
  BY DEF SQLiteAccounts!Crash, SQLiteProofs!Crash, SQLiteAccounts!Idle,
     SQLiteProofs!Idle
<1>25. SQLiteAccounts!Next <=> SQLiteProofs!Next
  BY <1>16, <1>22, <1>17, <1>20, <1>15, <1>18, <1>19, <1>23, <1>21, <1>24 DEF
     SQLiteAccounts!Next, SQLiteProofs!Next, SQLiteAccounts!Ids, SQLiteProofs!Ids,
     SQLiteAccounts!NoEmail, SQLiteProofs!NoEmail
<1> QED
  BY <1>14, <1>25, <1>10, <1>12, <1>13

-----------------------------------------------------------------------------
(* The parts of the run.                                                   *)
LEMMA PartsAreFixed ==
  ASSUME NEW P \in Parts
  PROVE  /\ part = P /\ [SumNext]_allVars => part' = P
         /\ part # P /\ [SumNext]_allVars => part' # P
BY DEF SumNext, allVars

LEMMA OthersAreAccounts ==
  /\ SumInit => Init
  /\ part # "sqlite" /\ [SumNext]_allVars => [Next]_vars
BY DEF SumInit, SumNext, allVars, vars

LEMMA SQLiteIsAccounts ==
  /\ SumInit => SQLiteProofs!Init
  /\ part = "sqlite" /\ [SumNext]_allVars => [SQLiteProofs!Next]_SQLiteProofs!vars
<1>1. Init => SQLiteAccounts!Init
  BY DEF Init, SQLiteAccounts!Init, Ids, SQLiteAccounts!Ids, NoUser, SQLiteAccounts!NoUser,
     Idle, SQLiteAccounts!Idle
<1>2. UNCHANGED vars => UNCHANGED SQLiteProofs!vars
  BY DEF vars, SQLiteProofs!vars
<1>3. part = "sqlite" /\ [SumNext]_allVars => SQLiteAccounts!Next \/ UNCHANGED vars
  BY DEF SumNext, allVars, vars
<1> QED
  BY <1>1, <1>2, <1>3, SQLiteAgrees DEF SumInit

LEMMA SQLiteValues == SQLiteProofs!AccountsAssumption
BY AccountsAssumption DEF AccountsAssumption, SQLiteProofs!AccountsAssumption

LEMMA OwnersAgree ==
  /\ NamesAreUnique <=> SQLiteProofs!NamesAreUnique
  /\ KeepingIsNoConflict <=> SQLiteProofs!KeepingIsNoConflict
BY DEF NamesAreUnique, SQLiteProofs!NamesAreUnique, KeepingIsNoConflict, SQLiteProofs!KeepingIsNoConflict,
   Same, SQLiteProofs!Same, normalizeUsername, SQLiteProofs!normalizeUsername,
   Ids, SQLiteProofs!Ids, NoEmail, SQLiteProofs!NoEmail

(* On SQLite a name and an e-mail are one account's, and on every database *)
(* who keeps his own is told that they are taken only if another account   *)
(* has got one of them too (Register, UpdateProfile).                      *)
THEOREM NamesAreOwned == SumSpec => []NamesHaveOneOwner
<1> DEFINE P == part = "sqlite"
<1>1. /\ P /\ [SumNext]_allVars => P'
      /\ ~P /\ [SumNext]_allVars => ~P'
  BY PartsAreFixed DEF Parts
<1>2. /\ SumInit => Init
      /\ ~P /\ [SumNext]_allVars => [Next]_vars
  BY OthersAreAccounts
<1>3. /\ SumInit => SQLiteProofs!Init
      /\ P /\ [SumNext]_allVars => [SQLiteProofs!Next]_SQLiteProofs!vars
  BY SQLiteIsAccounts
<1>4. Spec => []KeepingIsNoConflict
  BY KeptNamesAreFree
<1>5. SQLiteProofs!Spec => []SQLiteProofs!KeepingIsNoConflict
  BY SQLiteProofs!KeptNamesAreFree, SQLiteValues
<1>6. SQLiteProofs!Spec => []SQLiteProofs!NamesAreUnique
  BY SQLiteProofs!SQLiteNames, SQLiteValues
<1>7. /\ ~P /\ KeepingIsNoConflict => NamesHaveOneOwner
      /\ P /\ SQLiteProofs!KeepingIsNoConflict /\ SQLiteProofs!NamesAreUnique => NamesHaveOneOwner
  BY OwnersAgree DEF NamesHaveOneOwner
<1> HIDE DEF P
<1> QED
  BY <1>1, <1>2, <1>3, <1>4, <1>5, <1>6, <1>7, PTL DEF SumSpec, Spec, SQLiteProofs!Spec

LEMMA MovesAreOfBoot ==
  ASSUME NEW b, [SumNext]_allVars, SumNext => Boot(b)!Next
  PROVE  [Boot(b)!Next]_(Boot(b)!vars)
BY DEF allVars, bootVars, Boot!vars

(* A start picks up what an earlier one has left, wherever it was cut: the *)
(* administrator, his tenant's policy and the names of the accounts        *)
(* (EnsureBootstrap, nextAvailableLegacyUsername).                         *)
THEOREM StartsAreRepaired == SumSpec => []StartsRepair
<1> DEFINE MailedInv == NamesInv(Mailed) /\ AdminInv(Mailed) /\ FreshInv(Mailed)
           UnmailedInv == NamesInv(Unmailed) /\ AdminInv(Unmailed)
           Inv == /\ part \in Parts
                  /\ part = "bootstrap" => MailedInv
                  /\ part = "unmailed" => UnmailedInv
                  /\ part = "migration" => NamesInv(Migrated)
<1>0. Boot(Mailed)!BootstrapAssumption /\ Boot(Migrated)!BootstrapAssumption /\ Boot(Unmailed)!BootstrapAssumption
  BY MCServerDataValues
<1>1. SumInit => Inv
  <2> SUFFICES ASSUME SumInit PROVE Inv
    OBVIOUS
  <2>1. /\ part \in Parts
        /\ part = "bootstrap" => Boot(Mailed)!Init
        /\ part = "unmailed" => Boot(Unmailed)!Init
        /\ part = "migration" => Boot(Migrated)!Init
    BY DEF SumInit
  <2>2. part = "bootstrap" => MailedInv
    <3>1. Mailed.legacy = <<>>
      BY DEF Mailed
    <3> QED
      BY <1>0, <2>1, <3>1, InitNames, InitAdmin, InitFresh
  <2>3. part = "unmailed" => UnmailedInv
    BY <1>0, <2>1, InitNames, InitAdmin
  <2>4. part = "migration" => NamesInv(Migrated)
    BY <1>0, <2>1, InitNames
  <2> QED
    BY <2>1, <2>2, <2>3, <2>4
<1>2. Inv /\ [SumNext]_allVars => Inv'
  <2> SUFFICES ASSUME Inv, [SumNext]_allVars PROVE Inv'
    OBVIOUS
  <2>1. part' = part
    BY DEF SumNext, allVars
  <2>2. ASSUME part = "bootstrap" PROVE MailedInv'
    <3>1. [Boot(Mailed)!Next]_(Boot(Mailed)!vars)
      BY <2>2, MovesAreOfBoot DEF SumNext
    <3>2. Mailed.legacy = <<>>
      BY DEF Mailed
    <3> QED
      BY <1>0, <2>2, <3>1, <3>2, NamesStep, AdminStep, FreshStep
  <2>3. ASSUME part = "unmailed" PROVE UnmailedInv'
    <3>1. [Boot(Unmailed)!Next]_(Boot(Unmailed)!vars)
      BY <2>3, MovesAreOfBoot DEF SumNext
    <3> QED
      BY <1>0, <2>3, <3>1, NamesStep, AdminStep
  <2>4. ASSUME part = "migration" PROVE NamesInv(Migrated)'
    <3>1. [Boot(Migrated)!Next]_(Boot(Migrated)!vars)
      BY <2>4, MovesAreOfBoot DEF SumNext
    <3> QED
      BY <1>0, <2>4, <3>1, NamesStep
  <2> QED
    BY <2>1, <2>2, <2>3, <2>4
<1>3. Inv => StartsRepair
  <2> SUFFICES ASSUME Inv PROVE StartsRepair
    OBVIOUS
  <2>1. ASSUME part = "bootstrap"
        PROVE  /\ Boot(Mailed)!TypeOK
               /\ Boot(Mailed)!UpHasItsAdmin
               /\ Boot(Mailed)!PolicyMissingOnlyByCrash
               /\ Boot(Mailed)!FailsOnlyAfterARename
               /\ Boot(Mailed)!SecondOnlyAfterARename
    BY <1>0, <2>1, OneIsTheConfigured
       DEF NamesInv, TypesInv, AdminInv, FreshInv, Boot!PolicyMissingOnlyByCrash, Boot!FailsOnlyAfterARename
  <2>2. ASSUME part = "unmailed"
        PROVE  /\ Boot(Unmailed)!TypeOK
               /\ Boot(Unmailed)!UpHasItsAdmin
               /\ Boot(Unmailed)!SecondOnlyAfterARename
    BY <1>0, <2>2, OneIsTheConfigured DEF NamesInv, TypesInv, AdminInv
  <2>3. ASSUME part = "migration"
        PROVE  Boot(Migrated)!TypeOK /\ Boot(Migrated)!NamesAreUnique
    BY <2>3 DEF NamesInv, TypesInv
  <2> QED
    BY <2>1, <2>2, <2>3 DEF StartsRepair
<1> QED
  BY <1>1, <1>2, <1>3, PTL DEF SumSpec
=============================================================================
