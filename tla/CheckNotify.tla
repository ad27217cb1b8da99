----------------------------- MODULE CheckNotify -----------------------------
(***************************************************************************)
(* Overlapping checks of one domain, by workers and by manual requests,    *)
(* from the first read of its row to the alerts they send.  The row, the   *)
(* policies and the delivery records are in the database and outlive a     *)
(* crash; the rest is local to a call of processDomain.  When the checks   *)
(* run is the business of module Scheduler; here one may start at any      *)
(* time.  A paused domain or tenant makes a check return before it has     *)
(* done anything, so such checks are left out.                             *)
(*                                                                         *)
(* A certificate is known by the day it expires on; the day of a check is  *)
(* the day of its handshake.                                               *)
(***************************************************************************)
EXTENDS Alerting

CONSTANTS
  Checks,         \* calls of processDomain that may be in flight at one time
  Endpoints,      \* ids of the tenant's notification endpoints
  Certs,          \* the certificates, each the day it expires on
  ThresholdLists, \* the values a policy's threshold list may have
  NoPolicy,       \* no policy row
  MaxDay,         \* bound: the last day
  MaxRenewals,    \* bound: changes of the certificate the host serves
  MaxFaults,      \* bound: crashes, failing statements and cancelled contexts
  MaxEdits        \* bound: changes the tenant makes to policies, endpoints and the domain

Policies == [thresholds : ThresholdLists, endpoints : SUBSET Endpoints]

ASSUME CheckNotifyAssumption ==
  /\ Certs \subseteq Int
  /\ Certs # {}
  /\ Nil \notin Int
  /\ ThresholdLists \subseteq Seq(Int)
  /\ <<30, 7, 1>> \in ThresholdLists
  /\ IsFiniteSet(Endpoints)
  /\ NoPolicy \notin Policies
  /\ MaxDay \in Nat /\ MaxRenewals \in Nat /\ MaxFaults \in Nat /\ MaxEdits \in Nat

VARIABLES
  day, served,        \* today, and the certificate the host serves
  renewals, faults, edits,   \* how often that happened so far
  (* database *)
  row,                \* the domain: status, days_remaining, cert_expires_at; or Deleted
  tenantPolicy,       \* the default policy, or NoPolicy
  override,           \* the policy of the domain, or NoPolicy
  endpoint,           \* [Endpoints -> "enabled" | "disabled" | "deleted"]
  delivery,           \* [Alerts -> status of the delivery record, or "none"]
  (* locals of processDomain and MaybeNotify, one entry per check *)
  pc, previous, result, seen, policy, todo, accepted,
  dead,               \* the checks whose context is cancelled
  (* the outside *)
  arrived,            \* [Alerts -> number of messages that reached the endpoint]
  (* history *)
  mixed,              \* a check met the commit of another one, or an edit, half-way
  crossed             \* alerts the recorded readings call for (those settled by the next
                      \* commit are taken out)

rowVars   == <<row, tenantPolicy, override, endpoint>>
outVars   == <<delivery, arrived>>
localVars == <<pc, previous, result, seen, policy, todo, accepted, dead>>
boundVars == <<renewals, faults, edits>>
vars == <<day, served, boundVars, rowVars, outVars, localVars, mixed, crossed>>

Events == {Expired, Recovered}
            \cup {Threshold(t) : t \in UNION {{l[i] : i \in DOMAIN l} : l \in ThresholdLists}}

(* The dedup key: endpoint, type and threshold of the event, expiry.       *)
Alerts == [endpoint : Endpoints, event : Events, expires : Certs \cup {Nil}]

Readings == [status : {"pending", "healthy", "error"}, days : Int \cup {Nil},
             expires : Certs \cup {Nil}]
NoReading == [status |-> "pending", days |-> Nil, expires |-> Nil]
Deleted == [status |-> "deleted"]

ActivePcs == {"dial", "commit", "reload", "policy", "endpoints",
              "lookup", "create", "send", "record"}

Step == [event : Events, endpoint : Endpoints]

TypeOK ==
  /\ day \in Nat /\ served \in Certs
  /\ renewals \in Nat /\ faults \in Nat /\ edits \in Nat
  /\ row \in Readings \cup {Deleted}
  /\ tenantPolicy \in Policies \cup {NoPolicy}
  /\ override \in Policies \cup {NoPolicy}
  /\ endpoint \in [Endpoints -> {"enabled", "disabled", "deleted"}]
  /\ delivery \in [Alerts -> {"none", "pending", "sent", "failed"}]
  /\ pc \in [Checks -> ActivePcs \cup {"idle"}]
  /\ previous \in [Checks -> Readings]
  /\ result \in [Checks -> Readings]
  /\ seen \in [Checks -> Readings]
  /\ policy \in [Checks -> Policies]
  /\ todo \in [Checks -> Seq(Step)]
  /\ \A p \in Checks : pc[p] \in {"lookup", "create", "send", "record"} => todo[p] # <<>>
  /\ accepted \in [Checks -> BOOLEAN]
  /\ dead \subseteq Checks
  /\ arrived \in [Alerts -> Nat]
  /\ mixed \in BOOLEAN
  /\ crossed \subseteq Alerts

(* What GetPolicies answers for a tenant without a policy row.             *)
DefaultPolicy == [thresholds |-> <<30, 7, 1>>, endpoints |-> {}]

Init ==
  /\ day = 0
  /\ served \in Certs
  /\ renewals = 0 /\ faults = 0 /\ edits = 0
  /\ row = NoReading
  /\ tenantPolicy \in Policies \cup {NoPolicy}
  /\ override = NoPolicy
  /\ endpoint = [e \in Endpoints |-> "enabled"]
  /\ delivery = [a \in Alerts |-> "none"]
  /\ pc = [p \in Checks |-> "idle"]
  /\ previous = [p \in Checks |-> NoReading]
  /\ result = [p \in Checks |-> NoReading]
  /\ seen = [p \in Checks |-> NoReading]
  /\ policy = [p \in Checks |-> DefaultPolicy]
  /\ todo = [p \in Checks |-> <<>>]
  /\ accepted = [p \in Checks |-> FALSE]
  /\ dead = {}
  /\ arrived = [a \in Alerts |-> 0]
  /\ mixed = FALSE
  /\ crossed = {}

Busy == {p \in Checks : pc[p] # "idle"}

-----------------------------------------------------------------------------
(* The world outside: days pass, the host gets another certificate (or the *)
(* domain another host), the tenant edits what the checks read.            *)

NextDay ==
  /\ day < MaxDay
  /\ day' = day + 1
  /\ UNCHANGED <<served, boundVars, rowVars, outVars, localVars, mixed, crossed>>

Renew ==
  /\ renewals < MaxRenewals
  /\ renewals' = renewals + 1
  /\ served' \in Certs \ {served}
  /\ UNCHANGED <<day, faults, edits, rowVars, outVars, localVars, mixed, crossed>>

Edit ==
  /\ edits < MaxEdits
  /\ edits' = edits + 1
  /\ mixed' = (mixed \/ Busy # {})
  /\ UNCHANGED <<day, served, renewals, faults, outVars, localVars, crossed>>

(* The default policy is created or replaced, never removed.               *)
UpsertTenantPolicy ==
  /\ Edit
  /\ tenantPolicy' \in Policies
  /\ UNCHANGED <<row, override, endpoint>>

(* An override without thresholds and endpoints removes the row.           *)
UpsertOverride ==
  /\ Edit
  /\ \E new \in Policies :
       override' = IF NormalizeThresholds(new.thresholds) = {} /\ new.endpoints = {}
                   THEN NoPolicy ELSE new
  /\ UNCHANGED <<row, tenantPolicy, endpoint>>

ChangeEndpoint(e) ==
  /\ Edit
  /\ endpoint[e] # "deleted"
  /\ endpoint' \in {[endpoint EXCEPT ![e] = s] : s \in {"enabled", "disabled", "deleted"}}
  /\ UNCHANGED <<row, tenantPolicy, override>>

DeleteDomain ==
  /\ Edit
  /\ row # Deleted
  /\ row' = Deleted
  /\ override' = NoPolicy
  /\ UNCHANGED <<tenantPolicy, endpoint>>

-----------------------------------------------------------------------------
(* processDomain up to the recorded result.                                *)

(* The call returns, and what it held is gone.                             *)
Return(p) ==
  /\ pc' = [pc EXCEPT ![p] = "idle"]
  /\ previous' = [previous EXCEPT ![p] = NoReading]
  /\ result' = [result EXCEPT ![p] = NoReading]
  /\ seen' = [seen EXCEPT ![p] = NoReading]
  /\ policy' = [policy EXCEPT ![p] = DefaultPolicy]
  /\ todo' = [todo EXCEPT ![p] = <<>>]
  /\ accepted' = [accepted EXCEPT ![p] = FALSE]
  /\ dead' = dead \ {p}

Outside == <<day, served, boundVars, tenantPolicy, override, endpoint>>

ReadDomain(p) ==
  /\ pc[p] = "idle"
  /\ row # Deleted
  /\ pc' = [pc EXCEPT ![p] = "dial"]
  /\ previous' = [previous EXCEPT ![p] = row]
  /\ UNCHANGED <<Outside, row, outVars, result, seen, policy, todo, accepted, dead,
                 mixed, crossed>>

Failure == [status |-> "error", days |-> Nil, expires |-> Nil]
Success == [status |-> "healthy", days |-> served - day, expires |-> served]

(* Mutant: the handshake accepts any certificate.                          *)
AnswersUnverified(p) == {Failure, Success}

(* A handshake may always fail; it succeeds with a valid certificate only, *)
(* because the checker leaves the verification of the TLS client on.       *)
Answers(p) == {Failure} \cup (IF p \notin dead /\ served >= day THEN {Success} ELSE {})

Dial(p) ==
  /\ pc[p] = "dial"
  /\ result' \in {[result EXCEPT ![p] = r] : r \in Answers(p)}
  /\ pc' = [pc EXCEPT ![p] = "commit"]
  /\ UNCHANGED <<Outside, row, outVars, previous, seen, policy, todo, accepted, dead,
                 mixed, crossed>>

(* A failed check leaves the certificate columns alone.                    *)
Recorded(r) ==
  IF r.status = "healthy" THEN r ELSE [row EXCEPT !.status = r.status]

(* The policy in force: the override hides the default entirely.           *)
EffectivePolicy ==
  IF override # NoPolicy THEN override
  ELSE IF tenantPolicy # NoPolicy THEN tenantPolicy ELSE DefaultPolicy

(* History: what a change of the recorded reading calls for, said of the   *)
(* row and not of any check: each threshold it passes, and a recovery.     *)
CalledFor(old, new) ==
  {a \in Alerts :
     /\ old # Deleted
     /\ new.status = "healthy"
     /\ a.endpoint \in EffectivePolicy.endpoints
     /\ endpoint[a.endpoint] = "enabled"
     /\ a.expires = new.expires
     /\ \/ /\ old.days # Nil
           /\ \E i \in DOMAIN EffectivePolicy.thresholds :
                LET t == EffectivePolicy.thresholds[i] IN
                t >= 0 /\ a.event = Threshold(t) /\ old.days > t /\ t >= new.days
        \/ old.status = "error" /\ a.event = Recovered}

(* The transaction; it finds no row when the domain was deleted meanwhile. *)
Commit(p) ==
  /\ pc[p] = "commit"
  /\ \/ /\ p \in dead
        /\ Return(p)
        /\ UNCHANGED <<row, mixed, crossed>>
     \/ /\ p \notin dead
        /\ row' = IF row = Deleted THEN Deleted ELSE Recorded(result[p])
        /\ mixed' = (mixed \/ \E q \in Busy \ {p} : pc[q] \in {"dial", "commit", "reload"})
        /\ crossed' = {a \in crossed \cup CalledFor(row, result[p]) :
                         delivery[a] \notin {"sent", "failed"}}
        /\ pc' = [pc EXCEPT ![p] = "reload"]
        /\ UNCHANGED <<previous, result, seen, policy, todo, accepted, dead>>
  /\ UNCHANGED <<Outside, outVars>>

-----------------------------------------------------------------------------
(* The reload and MaybeNotify.                                             *)

(* Mutant: the notifier is told the status after the check.                *)
ReloadForgetsPrevious(p) ==
  /\ pc[p] = "reload"
  /\ p \notin dead /\ row # Deleted /\ row.status = "healthy"
  /\ seen' = [seen EXCEPT ![p] = row]
  /\ previous' = [previous EXCEPT ![p] = row]
  /\ pc' = [pc EXCEPT ![p] = "policy"]
  /\ UNCHANGED <<result, policy, todo, accepted, dead>>
  /\ UNCHANGED <<Outside, row, outVars, mixed, crossed>>

(* Only a healthy row is announced, whatever this check itself has seen.   *)
Reload(p) ==
  /\ pc[p] = "reload"
  /\ \/ /\ p \in dead \/ row = Deleted \/ row.status # "healthy"
        /\ Return(p)
     \/ /\ p \notin dead /\ row # Deleted /\ row.status = "healthy"
        /\ seen' = [seen EXCEPT ![p] = row]
        /\ pc' = [pc EXCEPT ![p] = "policy"]
        /\ UNCHANGED <<previous, result, policy, todo, accepted, dead>>
  /\ UNCHANGED <<Outside, row, outVars, mixed, crossed>>

(* Mutant: the override is not looked at.                                  *)
ReadTenantPolicyOnly(p) ==
  /\ pc[p] = "policy"
  /\ IF tenantPolicy = NoPolicy
     THEN Return(p)
     ELSE /\ policy' = [policy EXCEPT ![p] = tenantPolicy]
          /\ pc' = [pc EXCEPT ![p] = "endpoints"]
          /\ UNCHANGED <<previous, result, seen, todo, accepted, dead>>
  /\ UNCHANGED <<Outside, row, outVars, mixed, crossed>>

ReadPolicies(p) ==
  /\ pc[p] = "policy"
  /\ \/ /\ p \in dead \/ EffectivePolicy.endpoints = {}
        /\ Return(p)
     \/ /\ p \notin dead /\ EffectivePolicy.endpoints # {}
        /\ policy' = [policy EXCEPT ![p] = EffectivePolicy]
        /\ pc' = [pc EXCEPT ![p] = "endpoints"]
        /\ UNCHANGED <<previous, result, seen, todo, accepted, dead>>
  /\ UNCHANGED <<Outside, row, outVars, mixed, crossed>>

EventsOf(p) ==
  ComputeEvents(previous[p].status, previous[p].days,
                seen[p].status, seen[p].days, policy[p].thresholds)

(* The enabled ones of the policy's endpoints that still exist.            *)
Targets(p) == {e \in policy[p].endpoints : endpoint[e] = "enabled"}

(* Every event with every target, event by event; the order of the targets *)
(* is the database's.                                                      *)
Plan(events, order) ==
  [i \in 1 .. Len(events) * Len(order) |->
     [event    |-> events[((i - 1) \div Len(order)) + 1],
      endpoint |-> order[((i - 1) % Len(order)) + 1]]]

Orders(S) ==
  {o \in [1 .. Cardinality(S) -> S] : \A i, j \in DOMAIN o : i # j => o[i] # o[j]}

ReadEndpoints(p) ==
  /\ pc[p] = "endpoints"
  /\ \/ /\ p \in dead \/ Targets(p) = {} \/ EventsOf(p) = <<>>
        /\ Return(p)
     \/ /\ p \notin dead /\ Targets(p) # {} /\ EventsOf(p) # <<>>
        /\ \E order \in Orders(Targets(p)) :
             todo' = [todo EXCEPT ![p] = Plan(EventsOf(p), order)]
        /\ pc' = [pc EXCEPT ![p] = "lookup"]
        /\ UNCHANGED <<previous, result, seen, policy, accepted, dead>>
  /\ UNCHANGED <<Outside, row, outVars, mixed, crossed>>

-----------------------------------------------------------------------------
(* deliverEvent, once per event and endpoint; its errors are logged and    *)
(* the next one is tried.                                                  *)

AlertInHand(p) ==
  [endpoint |-> Head(todo[p]).endpoint, event |-> Head(todo[p]).event,
   expires |-> seen[p].expires]

(* Mutant: the end of the list is not looked for.                          *)
NextDeliveryEndless(p) ==
  /\ todo' = [todo EXCEPT ![p] = Tail(@)]
  /\ pc' = [pc EXCEPT ![p] = "lookup"]
  /\ accepted' = [accepted EXCEPT ![p] = FALSE]
  /\ UNCHANGED <<previous, result, seen, policy, dead>>

NextDelivery(p) ==
  IF Tail(todo[p]) = <<>>
  THEN Return(p)
  ELSE /\ todo' = [todo EXCEPT ![p] = Tail(@)]
       /\ pc' = [pc EXCEPT ![p] = "lookup"]
       /\ accepted' = [accepted EXCEPT ![p] = FALSE]
       /\ UNCHANGED <<previous, result, seen, policy, dead>>

DeliverUntouched == <<Outside, row, mixed, crossed>>

Lookup(p) ==
  /\ pc[p] = "lookup"
  /\ \/ /\ p \in dead \/ delivery[AlertInHand(p)] # "none"
        /\ NextDelivery(p)
     \/ /\ p \notin dead /\ delivery[AlertInHand(p)] = "none"
        /\ pc' = [pc EXCEPT ![p] = "create"]
        /\ UNCHANGED <<previous, result, seen, policy, todo, accepted, dead>>
  /\ UNCHANGED <<DeliverUntouched, outVars>>

(* Mutant: the key has no unique index.                                    *)
CreateUnindexed(p) ==
  /\ pc[p] = "create"
  /\ p \notin dead
  /\ delivery' = [delivery EXCEPT ![AlertInHand(p)] = "pending"]
  /\ pc' = [pc EXCEPT ![p] = "send"]
  /\ UNCHANGED <<previous, result, seen, policy, todo, accepted, dead>>
  /\ UNCHANGED <<DeliverUntouched, arrived>>

(* The unique index on the key decides between two that both found none.   *)
Create(p) ==
  /\ pc[p] = "create"
  /\ \/ /\ p \in dead \/ delivery[AlertInHand(p)] # "none"
        /\ NextDelivery(p)
        /\ UNCHANGED delivery
     \/ /\ p \notin dead /\ delivery[AlertInHand(p)] = "none"
        /\ delivery' = [delivery EXCEPT ![AlertInHand(p)] = "pending"]
        /\ pc' = [pc EXCEPT ![p] = "send"]
        /\ UNCHANGED <<previous, result, seen, policy, todo, accepted, dead>>
  /\ UNCHANGED <<DeliverUntouched, arrived>>

(* The message arrives or not; an error may also follow an arrival, but a  *)
(* success means one.                                                      *)
Send(p) ==
  /\ pc[p] = "send"
  /\ \E arrives, ok \in BOOLEAN :
       /\ ok => arrives
       /\ arrived' = IF arrives
                     THEN [arrived EXCEPT ![AlertInHand(p)] = @ + 1] ELSE arrived
       /\ accepted' = [accepted EXCEPT ![p] = ok]
  /\ pc' = [pc EXCEPT ![p] = "record"]
  /\ UNCHANGED <<DeliverUntouched, delivery, previous, result, seen, policy, todo, dead>>

(* Mutants: every send is recorded as a success; a failed one is not       *)
(* recorded.                                                               *)
RecordAlwaysSent(p) ==
  /\ pc[p] = "record"
  /\ delivery' = IF p \in dead THEN delivery
                 ELSE [delivery EXCEPT ![AlertInHand(p)] = "sent"]
  /\ NextDelivery(p)
  /\ UNCHANGED <<DeliverUntouched, arrived>>

RecordSuccessOnly(p) ==
  /\ pc[p] = "record"
  /\ delivery' = IF p \in dead \/ ~accepted[p] THEN delivery
                 ELSE [delivery EXCEPT ![AlertInHand(p)] = "sent"]
  /\ NextDelivery(p)
  /\ UNCHANGED <<DeliverUntouched, arrived>>

(* The update runs under the context of the send: once it is cancelled,    *)
(* the record stays pending, also after a success.                         *)
Record(p) ==
  /\ pc[p] = "record"
  /\ delivery' = IF p \in dead THEN delivery
                 ELSE [delivery EXCEPT ![AlertInHand(p)] =
                         IF accepted[p] THEN "sent" ELSE "failed"]
  /\ NextDelivery(p)
  /\ UNCHANGED <<DeliverUntouched, arrived>>

-----------------------------------------------------------------------------
(* What goes wrong.                                                        *)

(* A statement fails: before the deliveries the check ends, among them     *)
(* only the delivery in hand does.                                         *)
StatementFails(p) ==
  /\ faults < MaxFaults
  /\ faults' = faults + 1
  /\ \/ pc[p] \in {"commit", "reload", "policy", "endpoints"} /\ Return(p)
     \/ pc[p] \in {"lookup", "create", "record"} /\ NextDelivery(p)
  /\ UNCHANGED <<day, served, renewals, edits, rowVars, outVars, mixed, crossed>>

(* The client of a manual check goes away, or the server shuts down.       *)
ContextCancelled(p) ==
  /\ faults < MaxFaults
  /\ faults' = faults + 1
  /\ p \in Busy \ dead
  /\ dead' = dead \cup {p}
  /\ UNCHANGED <<day, served, renewals, edits, rowVars, outVars, pc, previous, result, seen,
                 policy, todo, accepted, mixed, crossed>>

(* The process dies with every check in it, and starts again.              *)
Crash ==
  /\ faults < MaxFaults
  /\ faults' = faults + 1
  /\ Busy # {}
  /\ pc' = [p \in Checks |-> "idle"]
  /\ previous' = [p \in Checks |-> NoReading]
  /\ result' = [p \in Checks |-> NoReading]
  /\ seen' = [p \in Checks |-> NoReading]
  /\ policy' = [p \in Checks |-> DefaultPolicy]
  /\ todo' = [p \in Checks |-> <<>>]
  /\ accepted' = [p \in Checks |-> FALSE]
  /\ dead' = {}
  /\ UNCHANGED <<day, served, renewals, edits, rowVars, outVars, mixed, crossed>>

-----------------------------------------------------------------------------
CheckStep(p) ==
  \/ ReadDomain(p) \/ Dial(p) \/ Commit(p)
  \/ Reload(p) \/ ReadPolicies(p) \/ ReadEndpoints(p)
  \/ Lookup(p) \/ Create(p) \/ Send(p) \/ Record(p)

Next ==
  \/ NextDay \/ Renew
  \/ UpsertTenantPolicy \/ UpsertOverride \/ DeleteDomain
  \/ \E e \in Endpoints : ChangeEndpoint(e)
  \/ \E p \in Checks : CheckStep(p) \/ StatementFails(p) \/ ContextCancelled(p)
  \/ Crash

Spec == Init /\ [][Next]_vars

-----------------------------------------------------------------------------
(* However many checks overlap, die or are repeated, an endpoint gets the  *)
(* same alert about the same certificate at most once (deliverEvent: the   *)
(* record is created before the send, under a unique key).                 *)
AtMostOnce == \A a \in Alerts : arrived[a] <= 1

(* The checks together do to the deliveries what AtMostOnceDelivery        *)
(* allows: a claim, one arrival under it, one settlement that is final and *)
(* calls sent only what arrived (deliverEvent).                            *)
Promise == INSTANCE AtMostOnceDelivery
             WITH Alerts <- Alerts, delivery <- delivery, arrived <- arrived
ImplementsAtMostOnce == Promise!Spec

(* A record that stays pending with no check at work on it is the trace of *)
(* a crash, a cancelled context or a failed statement; otherwise every     *)
(* claim gets its outcome recorded (deliverEvent, also when the send       *)
(* fails).                                                                 *)
Holds(p, a) == pc[p] \in {"send", "record"} /\ AlertInHand(p) = a

NoPendingLeftBehind ==
  \A a \in Alerts :
    delivery[a] = "pending" => faults > 0 \/ \E p \in Checks : Holds(p, a)

(* When a recorded reading passes a threshold or ends an outage, every     *)
(* enabled endpoint of the policy in force gets a delivery that is tried,  *)
(* by the time no check runs; what loses one is a crash, a cancelled       *)
(* context, a failed statement, or a check that met another one's commit   *)
(* or an edit between its own first read and its end (processDomain with   *)
(* MaybeNotify).                                                           *)
NoAlertLost ==
  (Busy = {} /\ faults = 0 /\ ~mixed) =>
    \A a \in crossed : delivery[a] \in {"sent", "failed"}

(* No alert says that a certificate has expired: the handshake with an     *)
(* expired one fails, so the check is an error, and errors are announced   *)
(* only when they end (Checker.Check against computeEvents, which has an   *)
(* event for it).                                                          *)
ExpiryNeverAnnounced ==
  \A a \in Alerts : a.event = Expired => delivery[a] = "none"
=============================================================================
