--------------------------- MODULE CheckNotifyProofs ---------------------------
(***************************************************************************)
(* For any number of overlapping checks, endpoints and certificates, and   *)
(* any crashes, cancelled contexts, failing statements and edits: the      *)
(* types are kept, an alert arrives at most once, a record that stays      *)
(* pending is the trace of a fault, the deliveries implement               *)
(* AtMostOnceDelivery, no alert announces an expiry, and none that a       *)
(* recorded reading calls for is lost.                                     *)
(*                                                                         *)
(* The first argument is about ownership: between the insertion of its     *)
(* record and the update with the outcome, an alert belongs to one check.  *)
(* The unique key makes the insertion exclusive, and nobody sends what it  *)
(* has not inserted.  None of it depends on which alerts a check computes. *)
(* The second one follows an alert from the commit that calls for it to    *)
(* its record: somebody owes it all the way.                               *)
(***************************************************************************)
EXTENDS CheckNotify, FiniteSetTheorems, TLAPS

Holding == {"send", "record"}

(* The parts of the state the argument looks at, and their domains.        *)
Shape ==
  /\ pc \in [Checks -> ActivePcs \cup {"idle"}]
  /\ accepted \in [Checks -> BOOLEAN]
  /\ DOMAIN todo = Checks
  /\ DOMAIN seen = Checks
  /\ delivery \in [Alerts -> {"none", "pending", "sent", "failed"}]
  /\ arrived \in [Alerts -> Nat]

(* What a check holds is pending; it has not arrived before the send, and  *)
(* has arrived if the send succeeded.                                      *)
HeldIsOpen ==
  \A p \in Checks : pc[p] \in Holding /\ AlertInHand(p) \in Alerts =>
    /\ delivery[AlertInHand(p)] = "pending"
    /\ pc[p] = "send" => arrived[AlertInHand(p)] = 0
    /\ pc[p] = "record" /\ accepted[p] => arrived[AlertInHand(p)] = 1

(* No two checks hold the same alert.                                      *)
HeldByOne ==
  \A p, q \in Checks :
    p # q /\ pc[p] \in Holding /\ pc[q] \in Holding /\ AlertInHand(p) \in Alerts
      => AlertInHand(p) # AlertInHand(q)

UnclaimedIsUnsent == \A a \in Alerts : delivery[a] = "none" => arrived[a] = 0

DeliveryInv == Shape /\ HeldIsOpen /\ HeldByOne /\ UnclaimedIsUnsent /\ AtMostOnce

(* A cancelled context is a fault.                                         *)
FaultsCounted == faults \in Nat /\ (dead # {} => faults > 0)

PendingInv == FaultsCounted /\ NoPendingLeftBehind

-----------------------------------------------------------------------------
(* A step of check p touches no other check's locals.                      *)
OthersKeep(p) ==
  /\ pc' \in [Checks -> ActivePcs \cup {"idle"}]
  /\ accepted' \in [Checks -> BOOLEAN]
  /\ DOMAIN todo' = Checks
  /\ DOMAIN seen' = Checks
  /\ \A q \in Checks \ {p} :
       pc'[q] = pc[q] /\ accepted'[q] = accepted[q] /\ todo'[q] = todo[q] /\ seen'[q] = seen[q]

(* A step of check p after which it holds nothing.                         *)
LeavesDeliveries(p) == OthersKeep(p) /\ pc'[p] \notin Holding /\ UNCHANGED outVars

LEMMA ReturnKeepsOthers ==
  ASSUME Shape, NEW p \in Checks, Return(p)
  PROVE  OthersKeep(p) /\ pc'[p] = "idle" /\ dead' \subseteq dead
BY DEF Shape, Return, OthersKeep, ActivePcs

LEMMA NextDeliveryKeepsOthers ==
  ASSUME Shape, NEW p \in Checks, NextDelivery(p)
  PROVE  OthersKeep(p) /\ pc'[p] \in {"idle", "lookup"} /\ dead' \subseteq dead
<1>1. CASE Tail(todo[p]) = <<>>
  <2>1. Return(p)
    BY <1>1 DEF NextDelivery
  <2> QED
    BY <2>1, ReturnKeepsOthers
<1>2. CASE Tail(todo[p]) # <<>>
  <2> DEFINE rest == Tail(todo[p])
  <2>1. /\ todo' = [todo EXCEPT ![p] = rest]
        /\ pc' = [pc EXCEPT ![p] = "lookup"]
        /\ accepted' = [accepted EXCEPT ![p] = FALSE]
        /\ UNCHANGED <<seen, dead>>
    BY <1>2 DEF NextDelivery
  <2> HIDE DEF rest
  <2> QED
    BY <2>1 DEF Shape, OthersKeep, ActivePcs
<1> QED
  BY <1>1, <1>2

(* The alert in the hand of a check that does not move is the same.        *)
LEMMA OthersKeepTheirAlert ==
  ASSUME NEW p \in Checks, OthersKeep(p), NEW q \in Checks \ {p}
  PROVE  AlertInHand(q)' = AlertInHand(q)
BY DEF OthersKeep, AlertInHand

(* Steps before the first delivery, between two of them and after the last.*)
LEMMA QuietSteps ==
  ASSUME Shape, NEW p \in Checks,
         \/ ReadDomain(p) \/ Dial(p) \/ Commit(p) \/ Reload(p)
         \/ ReadPolicies(p) \/ ReadEndpoints(p) \/ Lookup(p)
  PROVE  /\ LeavesDeliveries(p)
         /\ pc[p] \notin Holding
         /\ faults' = faults
         /\ dead' \subseteq dead
<1>1. CASE ReadDomain(p)
  BY <1>1 DEF ReadDomain, Shape, LeavesDeliveries, OthersKeep, outVars, Outside, boundVars, ActivePcs, Holding
<1>2. CASE Dial(p)
  BY <1>2 DEF Dial, Shape, LeavesDeliveries, OthersKeep, outVars, Outside, boundVars, ActivePcs, Holding
<1>3. CASE Commit(p)
  <2>1. CASE Return(p)
    BY <1>3, <2>1, ReturnKeepsOthers DEF Commit, LeavesDeliveries, outVars, Outside, boundVars, Holding
  <2>2. CASE ~Return(p)
    <3>1. /\ pc[p] = "commit"
          /\ pc' = [pc EXCEPT ![p] = "reload"]
          /\ UNCHANGED <<seen, todo, accepted, dead, delivery, arrived, faults>>
      BY <1>3, <2>2 DEF Commit, outVars, Outside, boundVars
    <3> QED
      BY <3>1 DEF Shape, LeavesDeliveries, OthersKeep, outVars, ActivePcs, Holding
  <2> QED
    BY <2>1, <2>2
<1>4. CASE Reload(p)
  <2>1. CASE Return(p)
    BY <1>4, <2>1, ReturnKeepsOthers DEF Reload, LeavesDeliveries, outVars, Outside, boundVars, Holding
  <2>2. CASE ~Return(p)
    <3>1. /\ pc[p] = "reload"
          /\ pc' = [pc EXCEPT ![p] = "policy"]
          /\ seen' = [seen EXCEPT ![p] = row]
          /\ UNCHANGED <<todo, accepted, dead, delivery, arrived, faults>>
      BY <1>4, <2>2 DEF Reload, outVars, Outside, boundVars
    <3> QED
      BY <3>1 DEF Shape, LeavesDeliveries, OthersKeep, outVars, ActivePcs, Holding
  <2> QED
    BY <2>1, <2>2
<1>5. CASE ReadPolicies(p)
  <2>1. CASE Return(p)
    BY <1>5, <2>1, ReturnKeepsOthers DEF ReadPolicies, LeavesDeliveries, outVars, Outside, boundVars, Holding
  <2>2. CASE ~Return(p)
    <3>1. /\ pc[p] = "policy"
          /\ pc' = [pc EXCEPT ![p] = "endpoints"]
          /\ UNCHANGED <<seen, todo, accepted, dead, delivery, arrived, faults>>
      BY <1>5, <2>2 DEF ReadPolicies, outVars, Outside, boundVars
    <3> QED
      BY <3>1 DEF Shape, LeavesDeliveries, OthersKeep, outVars, ActivePcs, Holding
  <2> QED
    BY <2>1, <2>2
<1>6. CASE ReadEndpoints(p)
  <2>1. CASE Return(p)
    BY <1>6, <2>1, ReturnKeepsOthers DEF ReadEndpoints, LeavesDeliveries, outVars, Outside, boundVars, Holding
  <2>2. CASE ~Return(p)
    <3>1. /\ pc[p] = "endpoints"
          /\ pc' = [pc EXCEPT ![p] = "lookup"]
          /\ UNCHANGED <<seen, accepted, dead, delivery, arrived, faults>>
          /\ \E order \in Orders(Targets(p)) : todo' = [todo EXCEPT ![p] = Plan(EventsOf(p), order)]
      BY <1>6, <2>2 DEF ReadEndpoints, outVars, Outside, boundVars
    <3>2. PICK plan : todo' = [todo EXCEPT ![p] = plan]
      BY <3>1
    <3> QED
      BY <3>1, <3>2 DEF Shape, LeavesDeliveries, OthersKeep, outVars, ActivePcs, Holding
  <2> QED
    BY <2>1, <2>2
<1>7. CASE Lookup(p)
  <2>1. CASE NextDelivery(p)
    BY <1>7, <2>1, NextDeliveryKeepsOthers
    DEF Lookup, LeavesDeliveries, outVars, DeliverUntouched, Outside, boundVars, Holding
  <2>2. CASE ~NextDelivery(p)
    <3>1. /\ pc[p] = "lookup"
          /\ pc' = [pc EXCEPT ![p] = "create"]
          /\ UNCHANGED <<seen, todo, accepted, dead, delivery, arrived, faults>>
      BY <1>7, <2>2 DEF Lookup, outVars, DeliverUntouched, Outside, boundVars
    <3> QED
      BY <3>1 DEF Shape, LeavesDeliveries, OthersKeep, outVars, ActivePcs, Holding
  <2> QED
    BY <2>1, <2>2
<1> QED
  BY <1>1, <1>2, <1>3, <1>4, <1>5, <1>6, <1>7

-----------------------------------------------------------------------------
(* A check that leaves the deliveries alone keeps their invariants, and    *)
(* those of the pending records if it held none, or if a fault is counted. *)
LEMMA LeavingKeepsDeliveryInv ==
  ASSUME DeliveryInv, NEW p \in Checks, LeavesDeliveries(p)
  PROVE  DeliveryInv'
<1>1. \A q \in Checks : pc'[q] \in Holding =>
        /\ q # p /\ pc'[q] = pc[q] /\ accepted'[q] = accepted[q]
        /\ AlertInHand(q)' = AlertInHand(q)
  BY OthersKeepTheirAlert DEF LeavesDeliveries, OthersKeep
<1>2. delivery' = delivery /\ arrived' = arrived
  BY DEF LeavesDeliveries, outVars
<1>3. Shape'
  BY <1>2 DEF DeliveryInv, Shape, LeavesDeliveries, OthersKeep
<1>4. HeldIsOpen'
  BY <1>1, <1>2 DEF DeliveryInv, HeldIsOpen
<1>5. HeldByOne'
  BY <1>1 DEF DeliveryInv, HeldByOne
<1>6. UnclaimedIsUnsent' /\ AtMostOnce'
  BY <1>2 DEF DeliveryInv, UnclaimedIsUnsent, AtMostOnce
<1> QED
  BY <1>3, <1>4, <1>5, <1>6 DEF DeliveryInv

LEMMA LeavingKeepsPending ==
  ASSUME NoPendingLeftBehind, NEW p \in Checks, LeavesDeliveries(p),
         pc[p] \notin Holding \/ faults' > 0, faults > 0 => faults' > 0
  PROVE  NoPendingLeftBehind'
<1>1. SUFFICES ASSUME NEW a \in Alerts, delivery'[a] = "pending", ~(faults' > 0)
               PROVE  \E q \in Checks : Holds(q, a)'
  BY DEF NoPendingLeftBehind
<1>2. PICK q \in Checks : Holds(q, a)
  BY <1>1 DEF NoPendingLeftBehind, LeavesDeliveries, outVars
<1>3. q # p
  BY <1>1, <1>2 DEF Holds, Holding
<1>4. AlertInHand(q)' = AlertInHand(q) /\ pc'[q] = pc[q]
  BY <1>3, OthersKeepTheirAlert DEF LeavesDeliveries, OthersKeep
<1> QED
  BY <1>2, <1>4 DEF Holds

-----------------------------------------------------------------------------
(* The three steps of a delivery.                                          *)

(* The insertion that succeeds: a check takes an alert nobody had.         *)
Claims(p) ==
  /\ pc[p] = "create"
  /\ p \notin dead
  /\ delivery[AlertInHand(p)] = "none"
  /\ delivery' = [delivery EXCEPT ![AlertInHand(p)] = "pending"]
  /\ pc' = [pc EXCEPT ![p] = "send"]
  /\ UNCHANGED <<arrived, faults, seen, todo, accepted, dead>>

LEMMA CreateClaimsOrLeaves ==
  ASSUME Shape, NEW p \in Checks, Create(p)
  PROVE  \/ LeavesDeliveries(p) /\ pc[p] \notin Holding /\ faults' = faults /\ dead' \subseteq dead
         \/ Claims(p)
<1>1. CASE NextDelivery(p) /\ UNCHANGED delivery
  BY <1>1, NextDeliveryKeepsOthers
  DEF Create, LeavesDeliveries, outVars, DeliverUntouched, Outside, boundVars, Holding
<1>2. CASE ~(NextDelivery(p) /\ UNCHANGED delivery)
  BY <1>2 DEF Create, Claims, DeliverUntouched, Outside, boundVars
<1> QED
  BY <1>1, <1>2

LEMMA ClaimKeepsDeliveryInv ==
  ASSUME DeliveryInv, NEW p \in Checks, Claims(p)
  PROVE  DeliveryInv'
<1> DEFINE mine == AlertInHand(p)
<1>1. \A q \in Checks : AlertInHand(q)' = AlertInHand(q)
  BY DEF Claims, AlertInHand
<1>2. pc'[p] = "send" /\ \A q \in Checks \ {p} : pc'[q] = pc[q]
  BY DEF Claims, DeliveryInv, Shape
<1>3. \A q \in Checks \ {p} :
        pc[q] \in Holding /\ AlertInHand(q) \in Alerts => AlertInHand(q) # mine
  BY DEF Claims, DeliveryInv, HeldIsOpen
<1>4. \A a \in Alerts : delivery'[a] = IF a = mine THEN "pending" ELSE delivery[a]
  BY DEF Claims, DeliveryInv, Shape
<1>5. arrived' = arrived /\ accepted' = accepted
  BY DEF Claims
<1>6. mine \in Alerts => delivery[mine] = "none" /\ arrived[mine] = 0
  BY DEF Claims, DeliveryInv, UnclaimedIsUnsent
<1> HIDE DEF mine
<1>7. Shape'
  BY DEF Claims, DeliveryInv, Shape, ActivePcs
<1>8. HeldIsOpen'
  <2>1. SUFFICES ASSUME NEW q \in Checks, pc'[q] \in Holding, AlertInHand(q) \in Alerts
                 PROVE  /\ delivery'[AlertInHand(q)] = "pending"
                        /\ pc'[q] = "send" => arrived'[AlertInHand(q)] = 0
                        /\ pc'[q] = "record" /\ accepted'[q] => arrived'[AlertInHand(q)] = 1
    BY <1>1 DEF HeldIsOpen
  <2>2. CASE q = p
    BY <2>1, <2>2, <1>2, <1>4, <1>5, <1>6 DEF mine
  <2>3. CASE q # p
    BY <2>1, <2>3, <1>2, <1>3, <1>4, <1>5 DEF DeliveryInv, HeldIsOpen
  <2> QED
    BY <2>2, <2>3
<1>9. HeldByOne'
  <2>1. SUFFICES ASSUME NEW q \in Checks, NEW r \in Checks, q # r,
                        pc'[q] \in Holding, pc'[r] \in Holding, AlertInHand(q) \in Alerts
                 PROVE  AlertInHand(q) # AlertInHand(r)
    BY <1>1 DEF HeldByOne
  <2>2. CASE q = p
    BY <2>1, <2>2, <1>2, <1>3 DEF mine
  <2>3. CASE r = p
    BY <2>1, <2>3, <1>2, <1>3 DEF mine
  <2>4. CASE q # p /\ r # p
    BY <2>1, <2>4, <1>2 DEF DeliveryInv, HeldByOne
  <2> QED
    BY <2>2, <2>3, <2>4
<1>10. UnclaimedIsUnsent' /\ AtMostOnce'
  BY <1>4, <1>5 DEF DeliveryInv, UnclaimedIsUnsent, AtMostOnce
<1> QED
  BY <1>7, <1>8, <1>9, <1>10 DEF DeliveryInv

LEMMA ClaimKeepsPending ==
  ASSUME DeliveryInv, NoPendingLeftBehind, NEW p \in Checks, Claims(p)
  PROVE  NoPendingLeftBehind'
<1>1. \A q \in Checks : AlertInHand(q)' = AlertInHand(q)
  BY DEF Claims, AlertInHand
<1>2. pc'[p] = "send" /\ \A q \in Checks \ {p} : pc'[q] = pc[q]
  BY DEF Claims, DeliveryInv, Shape
<1>3. SUFFICES ASSUME NEW a \in Alerts, delivery'[a] = "pending"
               PROVE  faults' > 0 \/ \E q \in Checks : Holds(q, a)'
  BY DEF NoPendingLeftBehind
<1>4. CASE a = AlertInHand(p)
  BY <1>1, <1>2, <1>4 DEF Holds
<1>5. CASE a # AlertInHand(p)
  <2>1. delivery[a] = "pending"
    BY <1>3, <1>5 DEF Claims, DeliveryInv, Shape
  <2>2. pc[p] = "create"
    BY DEF Claims
  <2> QED
    BY <1>1, <1>2, <2>1, <2>2 DEF NoPendingLeftBehind, Holds, Claims
<1> QED
  BY <1>4, <1>5

LEMMA SendKeepsDeliveryInv ==
  ASSUME DeliveryInv, NEW p \in Checks, Send(p)
  PROVE  DeliveryInv'
<1> DEFINE mine == AlertInHand(p)
<1>1. \A q \in Checks : AlertInHand(q)' = AlertInHand(q)
  BY DEF Send, AlertInHand
<1>2. pc[p] = "send" /\ pc'[p] = "record" /\ \A q \in Checks \ {p} : pc'[q] = pc[q]
  BY DEF Send, DeliveryInv, Shape
<1>3. PICK arrives \in BOOLEAN, ok \in BOOLEAN :
        /\ ok => arrives
        /\ arrived' = IF arrives THEN [arrived EXCEPT ![mine] = @ + 1] ELSE arrived
        /\ accepted' = [accepted EXCEPT ![p] = ok]
  BY DEF Send
<1>4. delivery' = delivery /\ UNCHANGED <<todo, seen>>
  BY DEF Send
<1>5. mine \in Alerts => delivery[mine] = "pending" /\ arrived[mine] = 0
  BY <1>2 DEF DeliveryInv, HeldIsOpen, Holding
<1>6. \A q \in Checks \ {p} :
        pc[q] \in Holding /\ AlertInHand(q) \in Alerts => AlertInHand(q) # mine
  BY <1>2 DEF DeliveryInv, HeldByOne, Holding
<1> HIDE DEF mine
<1>7. Shape'
  <2>1. arrived \in [Alerts -> Nat]
    BY DEF DeliveryInv, Shape
  <2>2. arrived' \in [Alerts -> Nat]
    <3>1. CASE mine \in Alerts
      BY <3>1, <2>1, <1>3
    <3>2. CASE mine \notin Alerts
      BY <3>2, <2>1, <1>3
    <3> QED
      BY <3>1, <3>2
  <2>3. pc' = [pc EXCEPT ![p] = "record"]
    BY DEF Send
  <2> QED
    BY <1>3, <1>4, <2>2, <2>3 DEF DeliveryInv, Shape, ActivePcs
<1>8. \A a \in Alerts : a # mine => arrived'[a] = arrived[a]
  BY <1>3 DEF DeliveryInv, Shape
<1>9. mine \in Alerts => arrived'[mine] \in {0, 1} /\ (accepted'[p] => arrived'[mine] = 1)
  BY <1>3, <1>5 DEF DeliveryInv, Shape
<1>10. \A q \in Checks \ {p} : accepted'[q] = accepted[q]
  BY <1>3 DEF DeliveryInv, Shape
<1>11. HeldIsOpen'
  <2>1. SUFFICES ASSUME NEW q \in Checks, pc'[q] \in Holding, AlertInHand(q) \in Alerts
                 PROVE  /\ delivery'[AlertInHand(q)] = "pending"
                        /\ pc'[q] = "send" => arrived'[AlertInHand(q)] = 0
                        /\ pc'[q] = "record" /\ accepted'[q] => arrived'[AlertInHand(q)] = 1
    BY <1>1 DEF HeldIsOpen
  <2>2. CASE q = p
    BY <2>1, <2>2, <1>2, <1>4, <1>5, <1>9 DEF mine
  <2>3. CASE q # p
    BY <2>1, <2>3, <1>2, <1>4, <1>6, <1>8, <1>10 DEF DeliveryInv, HeldIsOpen
  <2> QED
    BY <2>2, <2>3
<1>12. HeldByOne'
  BY <1>1, <1>2 DEF DeliveryInv, HeldByOne, Holding
<1>13. UnclaimedIsUnsent'
  BY <1>4, <1>5, <1>8 DEF DeliveryInv, UnclaimedIsUnsent
<1>14. AtMostOnce'
  <2>1. SUFFICES ASSUME NEW a \in Alerts PROVE arrived'[a] <= 1
    BY DEF AtMostOnce
  <2>2. CASE a = mine
    BY <2>2, <1>9
  <2>3. CASE a # mine
    BY <2>3, <1>8 DEF DeliveryInv, AtMostOnce
  <2> QED
    BY <2>2, <2>3
<1> QED
  BY <1>7, <1>11, <1>12, <1>13, <1>14 DEF DeliveryInv

LEMMA SendKeepsPending ==
  ASSUME DeliveryInv, NoPendingLeftBehind, NEW p \in Checks, Send(p)
  PROVE  NoPendingLeftBehind'
<1>1. \A q \in Checks : AlertInHand(q)' = AlertInHand(q)
  BY DEF Send, AlertInHand
<1>2. pc'[p] = "record" /\ \A q \in Checks \ {p} : pc'[q] = pc[q]
  BY DEF Send, DeliveryInv, Shape
<1>3. \A q \in Checks, a \in Alerts : Holds(q, a) => Holds(q, a)'
  BY <1>1, <1>2 DEF Holds
<1>4. UNCHANGED <<delivery, faults>>
  BY DEF Send, DeliverUntouched, Outside, boundVars
<1> QED
  BY <1>3, <1>4 DEF NoPendingLeftBehind

(* The outcome is written by the check that holds the alert.               *)
LEMMA RecordFacts ==
  ASSUME Shape, NEW p \in Checks, Record(p)
  PROVE  /\ pc[p] = "record" /\ pc'[p] \notin Holding
         /\ OthersKeep(p)
         /\ dead' \subseteq dead
         /\ arrived' = arrived /\ faults' = faults
         /\ delivery' = IF p \in dead THEN delivery
                        ELSE [delivery EXCEPT ![AlertInHand(p)] =
                                IF accepted[p] THEN "sent" ELSE "failed"]
BY NextDeliveryKeepsOthers DEF Record, DeliverUntouched, Outside, boundVars, Holding

LEMMA RecordKeepsDeliveryInv ==
  ASSUME DeliveryInv, NEW p \in Checks, Record(p)
  PROVE  DeliveryInv'
<1> DEFINE mine == AlertInHand(p)
<1>1. \A q \in Checks : pc'[q] \in Holding =>
        /\ q # p /\ pc'[q] = pc[q] /\ accepted'[q] = accepted[q]
        /\ AlertInHand(q)' = AlertInHand(q)
  BY RecordFacts, OthersKeepTheirAlert DEF DeliveryInv, OthersKeep
<1>2. \A q \in Checks \ {p} :
        pc[q] \in Holding /\ AlertInHand(q) \in Alerts => AlertInHand(q) # mine
  BY RecordFacts DEF DeliveryInv, HeldByOne, Holding
<1>3. arrived' = arrived /\ OthersKeep(p)
  BY RecordFacts DEF DeliveryInv
<1>4. \/ delivery' = delivery
      \/ delivery' = [delivery EXCEPT ![mine] = IF accepted[p] THEN "sent" ELSE "failed"]
  BY RecordFacts DEF DeliveryInv
<1> HIDE DEF mine
<1>5. /\ delivery' \in [Alerts -> {"none", "pending", "sent", "failed"}]
      /\ \A a \in Alerts : a # mine => delivery'[a] = delivery[a]
      /\ \A a \in Alerts : delivery'[a] = "none" => delivery[a] = "none"
  BY <1>4 DEF DeliveryInv, Shape
<1>6. Shape'
  BY <1>3, <1>5 DEF DeliveryInv, Shape, OthersKeep
<1>7. HeldIsOpen'
  BY <1>1, <1>2, <1>3, <1>5 DEF DeliveryInv, HeldIsOpen
<1>8. HeldByOne'
  BY <1>1 DEF DeliveryInv, HeldByOne
<1>9. UnclaimedIsUnsent' /\ AtMostOnce'
  BY <1>3, <1>5 DEF DeliveryInv, UnclaimedIsUnsent, AtMostOnce
<1> QED
  BY <1>6, <1>7, <1>8, <1>9 DEF DeliveryInv

LEMMA RecordKeepsPending ==
  ASSUME DeliveryInv, PendingInv, NEW p \in Checks, Record(p)
  PROVE  NoPendingLeftBehind'
<1>1. SUFFICES ASSUME NEW a \in Alerts, delivery'[a] = "pending", ~(faults' > 0)
               PROVE  \E q \in Checks : Holds(q, a)'
  BY DEF NoPendingLeftBehind
<1>2. p \notin dead
  BY <1>1, RecordFacts DEF PendingInv, FaultsCounted, DeliveryInv
<1>3. delivery' = [delivery EXCEPT ![AlertInHand(p)] = IF accepted[p] THEN "sent" ELSE "failed"]
  BY <1>2, RecordFacts DEF DeliveryInv
<1>4. a # AlertInHand(p) /\ delivery[a] = "pending"
  BY <1>1, <1>3 DEF DeliveryInv, Shape
<1>5. PICK q \in Checks : Holds(q, a)
  BY <1>1, <1>4, RecordFacts DEF PendingInv, NoPendingLeftBehind, DeliveryInv
<1>6. q # p
  BY <1>4, <1>5 DEF Holds
<1>7. AlertInHand(q)' = AlertInHand(q) /\ pc'[q] = pc[q]
  BY <1>6, RecordFacts, OthersKeepTheirAlert DEF DeliveryInv, OthersKeep
<1> QED
  BY <1>5, <1>7 DEF Holds

-----------------------------------------------------------------------------
(* Everything else: the world outside, the faults, and stuttering.         *)

(* What the argument looks at stays as it is.                              *)
Unmoved == UNCHANGED <<pc, accepted, todo, seen, delivery, arrived>>

LEMMA UnmovedKeepsDeliveryInv ==
  ASSUME DeliveryInv, Unmoved
  PROVE  DeliveryInv'
<1>1. \A q \in Checks : AlertInHand(q)' = AlertInHand(q)
  BY DEF Unmoved, AlertInHand
<1> QED
  BY <1>1 DEF Unmoved, DeliveryInv, Shape, HeldIsOpen, HeldByOne, UnclaimedIsUnsent, AtMostOnce

LEMMA UnmovedKeepsPending ==
  ASSUME PendingInv, Unmoved, faults' \in Nat, faults' >= faults,
         dead' \subseteq dead \/ faults' > 0
  PROVE  PendingInv'
<1>1. \A q \in Checks, a \in Alerts : Holds(q, a)' = Holds(q, a)
  BY DEF Unmoved, Holds, AlertInHand
<1>2. FaultsCounted'
  BY DEF PendingInv, FaultsCounted
<1>3. NoPendingLeftBehind'
  BY <1>1 DEF PendingInv, FaultsCounted, NoPendingLeftBehind, Unmoved
<1> QED
  BY <1>2, <1>3 DEF PendingInv

OutsideStep ==
  \/ NextDay \/ Renew
  \/ UpsertTenantPolicy \/ UpsertOverride \/ DeleteDomain
  \/ \E e \in Endpoints : ChangeEndpoint(e)
  \/ UNCHANGED vars

LEMMA OutsideStepsMoveNothing ==
  ASSUME OutsideStep
  PROVE  Unmoved /\ UNCHANGED <<faults, dead>>
BY DEF OutsideStep, NextDay, Renew, UpsertTenantPolicy, UpsertOverride, DeleteDomain,
       ChangeEndpoint, Edit, Unmoved, vars, localVars, outVars, boundVars

LEMMA FailingStatementLeaves ==
  ASSUME Shape, NEW p \in Checks, StatementFails(p)
  PROVE  LeavesDeliveries(p) /\ faults' = faults + 1 /\ dead' \subseteq dead
BY ReturnKeepsOthers, NextDeliveryKeepsOthers
DEF StatementFails, LeavesDeliveries, outVars, Holding

LEMMA CancelledContextMovesNothing ==
  ASSUME NEW p \in Checks, ContextCancelled(p)
  PROVE  Unmoved /\ faults' = faults + 1
BY DEF ContextCancelled, Unmoved, outVars

LEMMA CrashFacts ==
  ASSUME Crash
  PROVE  /\ pc' = [p \in Checks |-> "idle"]
         /\ accepted' = [p \in Checks |-> FALSE]
         /\ DOMAIN todo' = Checks /\ DOMAIN seen' = Checks
         /\ delivery' = delivery /\ arrived' = arrived
         /\ faults' = faults + 1
BY DEF Crash, outVars

LEMMA CrashKeepsDeliveryInv ==
  ASSUME DeliveryInv, Crash
  PROVE  DeliveryInv'
<1>1. \A q \in Checks : pc'[q] \notin Holding
  BY CrashFacts DEF Holding
<1>2. Shape'
  BY CrashFacts DEF DeliveryInv, Shape
<1>3. HeldIsOpen' /\ HeldByOne'
  BY <1>1 DEF HeldIsOpen, HeldByOne
<1>4. UnclaimedIsUnsent' /\ AtMostOnce'
  BY CrashFacts DEF DeliveryInv, UnclaimedIsUnsent, AtMostOnce
<1> QED
  BY <1>2, <1>3, <1>4 DEF DeliveryInv

-----------------------------------------------------------------------------
(* Every step is one of these.                                             *)
LEMMA StepKinds ==
  ASSUME Shape, [Next]_vars
  PROVE  \/ OutsideStep
         \/ Crash
         \/ \E p \in Checks :
              \/ StatementFails(p)
              \/ ContextCancelled(p)
              \/ Claims(p) \/ Send(p) \/ Record(p)
              \/ /\ LeavesDeliveries(p) /\ pc[p] \notin Holding
                 /\ faults' = faults /\ dead' \subseteq dead
<1>1. CASE \E p \in Checks : CheckStep(p)
  <2>1. PICK p \in Checks : CheckStep(p)
    BY <1>1
  <2>2. CASE Create(p)
    BY <2>2, CreateClaimsOrLeaves
  <2>3. CASE Send(p) \/ Record(p)
    BY <2>3
  <2>4. CASE \/ ReadDomain(p) \/ Dial(p) \/ Commit(p) \/ Reload(p)
             \/ ReadPolicies(p) \/ ReadEndpoints(p) \/ Lookup(p)
    BY <2>4, QuietSteps
  <2> QED
    BY <2>1, <2>2, <2>3, <2>4 DEF CheckStep
<1>2. CASE ~(\E p \in Checks : CheckStep(p))
  BY <1>2 DEF Next, OutsideStep
<1> QED
  BY <1>1, <1>2

LEMMA DeliveryInvHolds == Spec => []DeliveryInv
<1>1. Init => DeliveryInv
  BY DEF Init, DeliveryInv, Shape, HeldIsOpen, HeldByOne, UnclaimedIsUnsent, AtMostOnce, Holding
<1>2. DeliveryInv /\ [Next]_vars => DeliveryInv'
  <2> SUFFICES ASSUME DeliveryInv, [Next]_vars
               PROVE  DeliveryInv'
    OBVIOUS
  <2> USE DEF DeliveryInv
  <2>1. CASE OutsideStep
    BY <2>1, OutsideStepsMoveNothing, UnmovedKeepsDeliveryInv
  <2>2. CASE Crash
    BY <2>2, CrashKeepsDeliveryInv
  <2>3. ASSUME NEW p \in Checks, StatementFails(p)
        PROVE  DeliveryInv'
    BY <2>3, FailingStatementLeaves, LeavingKeepsDeliveryInv
  <2>4. ASSUME NEW p \in Checks, ContextCancelled(p)
        PROVE  DeliveryInv'
    BY <2>4, CancelledContextMovesNothing, UnmovedKeepsDeliveryInv
  <2>5. ASSUME NEW p \in Checks, Claims(p) \/ Send(p) \/ Record(p) \/ LeavesDeliveries(p)
        PROVE  DeliveryInv'
    BY <2>5, ClaimKeepsDeliveryInv, SendKeepsDeliveryInv, RecordKeepsDeliveryInv,
       LeavingKeepsDeliveryInv
  <2> QED
    BY <2>1, <2>2, <2>3, <2>4, <2>5, StepKinds
<1> QED
  BY <1>1, <1>2, PTL DEF Spec

(* An alert about a certificate reaches an endpoint at most once, however  *)
(* many checks overlap, crash, are cancelled or fail between the insertion *)
(* of the delivery record and its outcome (deliverEvent).                  *)
THEOREM AlertsArriveAtMostOnce == Spec => []AtMostOnce
<1>1. DeliveryInv => AtMostOnce
  BY DEF DeliveryInv
<1> QED
  BY <1>1, DeliveryInvHolds, PTL

(* Without a crash, a cancelled context or a failed statement, every       *)
(* pending delivery record is in the hands of a check that will write its  *)
(* outcome (deliverEvent).                                                 *)
THEOREM PendingIsHeldOrBroken == Spec => []NoPendingLeftBehind
<1>1. Init => PendingInv
  BY DEF Init, PendingInv, FaultsCounted, NoPendingLeftBehind
<1>2. DeliveryInv /\ PendingInv /\ [Next]_vars => PendingInv'
  <2> SUFFICES ASSUME DeliveryInv, PendingInv, [Next]_vars
               PROVE  PendingInv'
    OBVIOUS
  <2>1. Shape
    BY DEF DeliveryInv
  <2>2. CASE OutsideStep
    BY <2>2, OutsideStepsMoveNothing, UnmovedKeepsPending DEF PendingInv, FaultsCounted
  <2>3. CASE Crash
    BY <2>3, CrashFacts DEF PendingInv, FaultsCounted, NoPendingLeftBehind
  <2>4. ASSUME NEW p \in Checks, StatementFails(p)
        PROVE  PendingInv'
    BY <2>1, <2>4, FailingStatementLeaves DEF PendingInv, FaultsCounted, NoPendingLeftBehind
  <2>5. ASSUME NEW p \in Checks, ContextCancelled(p)
        PROVE  PendingInv'
    BY <2>5, CancelledContextMovesNothing, UnmovedKeepsPending DEF PendingInv, FaultsCounted
  <2>6. ASSUME NEW p \in Checks, Claims(p)
        PROVE  PendingInv'
    BY <2>6, ClaimKeepsPending DEF PendingInv, FaultsCounted, Claims
  <2>7. ASSUME NEW p \in Checks, Send(p)
        PROVE  PendingInv'
    BY <2>7, SendKeepsPending
    DEF PendingInv, FaultsCounted, Send, DeliverUntouched, Outside, boundVars
  <2>8. ASSUME NEW p \in Checks, Record(p)
        PROVE  PendingInv'
    BY <2>1, <2>8, RecordKeepsPending, RecordFacts DEF PendingInv, FaultsCounted
  <2>9. ASSUME NEW p \in Checks, LeavesDeliveries(p), pc[p] \notin Holding,
               faults' = faults, dead' \subseteq dead
        PROVE  PendingInv'
    BY <2>9, LeavingKeepsPending DEF PendingInv, FaultsCounted
  <2> QED
    BY <2>1, <2>2, <2>3, <2>4, <2>5, <2>6, <2>7, <2>8, <2>9, StepKinds
<1>3. PendingInv => NoPendingLeftBehind
  BY DEF PendingInv
<1> QED
  BY <1>1, <1>2, <1>3, DeliveryInvHolds, PTL DEF Spec

-----------------------------------------------------------------------------
(* The refinement: a claim, an arrival and a settlement are the only steps *)
(* that touch the deliveries, and each is allowed when it happens.         *)
LEMMA UntouchedIsAStutter ==
  ASSUME UNCHANGED outVars
  PROVE  [Promise!Next]_<<delivery, arrived>>
BY DEF outVars

LEMMA ClaimImplementsClaim ==
  ASSUME DeliveryInv, NEW p \in Checks, Claims(p)
  PROVE  [Promise!Next]_<<delivery, arrived>>
<1>1. CASE AlertInHand(p) \in Alerts
  <2>1. Promise!Claim(AlertInHand(p))
    BY DEF Claims, Promise!Claim
  <2> QED
    BY <1>1, <2>1 DEF Promise!Next
<1>2. CASE AlertInHand(p) \notin Alerts
  BY <1>2 DEF Claims, DeliveryInv, Shape
<1> QED
  BY <1>1, <1>2

LEMMA SendImplementsArrive ==
  ASSUME DeliveryInv, NEW p \in Checks, Send(p)
  PROVE  [Promise!Next]_<<delivery, arrived>>
<1> DEFINE mine == AlertInHand(p)
<1>1. delivery' = delivery
  BY DEF Send
<1>2. \/ arrived' = arrived
      \/ arrived' = [arrived EXCEPT ![mine] = @ + 1]
  BY DEF Send
<1>3. CASE arrived' = arrived
  BY <1>1, <1>3
<1>4. CASE mine \in Alerts /\ arrived' = [arrived EXCEPT ![mine] = @ + 1]
  <2>1. pc[p] = "send"
    BY DEF Send
  <2>2. delivery[mine] = "pending" /\ arrived[mine] = 0
    BY <1>4, <2>1 DEF DeliveryInv, HeldIsOpen, Holding
  <2>3. arrived' = [arrived EXCEPT ![mine] = 1]
    BY <1>4, <2>2
  <2>4. Promise!Arrive(mine)
    BY <1>1, <2>2, <2>3 DEF Promise!Arrive
  <2> QED
    BY <1>4, <2>4 DEF Promise!Next
<1>5. CASE mine \notin Alerts /\ arrived' = [arrived EXCEPT ![mine] = @ + 1]
  <2>1. arrived' = arrived
    BY <1>5 DEF DeliveryInv, Shape
  <2> QED
    BY <1>1, <2>1
<1> QED
  BY <1>2, <1>3, <1>4, <1>5

LEMMA RecordImplementsSettle ==
  ASSUME DeliveryInv, NEW p \in Checks, Record(p)
  PROVE  [Promise!Next]_<<delivery, arrived>>
<1> DEFINE mine == AlertInHand(p)
<1>1. /\ arrived' = arrived /\ pc[p] = "record"
      /\ \/ delivery' = delivery
         \/ delivery' = [delivery EXCEPT ![mine] = IF accepted[p] THEN "sent" ELSE "failed"]
  BY RecordFacts DEF DeliveryInv
<1>2. CASE delivery' = delivery
  BY <1>1, <1>2
<1>3. CASE /\ mine \in Alerts
           /\ delivery' = [delivery EXCEPT ![mine] = IF accepted[p] THEN "sent" ELSE "failed"]
  <2>1. delivery[mine] = "pending" /\ (accepted[p] => arrived[mine] = 1)
    BY <1>1, <1>3 DEF DeliveryInv, HeldIsOpen, Holding
  <2>2. Promise!Settle(mine)
    BY <1>1, <1>3, <2>1 DEF Promise!Settle
  <2> QED
    BY <1>3, <2>2 DEF Promise!Next
<1>4. CASE /\ mine \notin Alerts
           /\ delivery' = [delivery EXCEPT ![mine] = IF accepted[p] THEN "sent" ELSE "failed"]
  <2>1. delivery' = delivery
    BY <1>4 DEF DeliveryInv, Shape
  <2> QED
    BY <1>1, <2>1
<1> QED
  BY <1>1, <1>2, <1>3, <1>4

(* The overlapping checks implement the at-most-once protocol of           *)
(* AtMostOnceDelivery: initial states map to initial states, every step to *)
(* a claim, an arrival, a settlement or a stutter (deliverEvent).          *)
THEOREM ChecksImplementAtMostOnce == Spec => ImplementsAtMostOnce
<1>1. Init => Promise!Init
  BY DEF Init, Promise!Init
<1>2. DeliveryInv /\ [Next]_vars => [Promise!Next]_<<delivery, arrived>>
  <2> SUFFICES ASSUME DeliveryInv, [Next]_vars
               PROVE  [Promise!Next]_<<delivery, arrived>>
    OBVIOUS
  <2>1. Shape
    BY DEF DeliveryInv
  <2>2. CASE OutsideStep
    BY <2>2, OutsideStepsMoveNothing DEF Unmoved
  <2>3. CASE Crash
    BY <2>3, CrashFacts
  <2>4. ASSUME NEW p \in Checks, StatementFails(p) \/ ContextCancelled(p) \/ LeavesDeliveries(p)
        PROVE  UNCHANGED outVars
    BY <2>1, <2>4, FailingStatementLeaves, CancelledContextMovesNothing
    DEF LeavesDeliveries, Unmoved, outVars
  <2>5. ASSUME NEW p \in Checks, Claims(p) \/ Send(p) \/ Record(p)
        PROVE  [Promise!Next]_<<delivery, arrived>>
    BY <2>5, ClaimImplementsClaim, SendImplementsArrive, RecordImplementsSettle
  <2> QED
    BY <2>1, <2>2, <2>3, <2>4, <2>5, StepKinds, UntouchedIsAStutter
<1> QED
  BY <1>1, <1>2, DeliveryInvHolds, PTL DEF Spec, ImplementsAtMostOnce, Promise!Spec

-----------------------------------------------------------------------------
(* The lists of the model: sorted lists of finite sets, the crossings, the *)
(* events.                                                                 *)
Elements(s) == {s[i] : i \in DOMAIN s}

LEMMA SortedListExists ==
  ASSUME NEW S \in SUBSET Int, IsFiniteSet(S)
  PROVE  \E s \in [1 .. Cardinality(S) -> S] :
           \A i, j \in 1 .. Cardinality(S) : i < j => s[i] < s[j]
<1> DEFINE n == Cardinality(S)
           below(x) == {y \in S : y <= x}
           rank == [x \in S |-> Cardinality(below(x))]
<1>1. n \in Nat /\ \A x \in S : x \in Int
  BY FS_CardinalityType
<1>2. \A x \in S : rank[x] \in 1 .. n
  <2> SUFFICES ASSUME NEW x \in S
               PROVE  rank[x] \in 1 .. n
    OBVIOUS
  <2>1. below(x) \in SUBSET S /\ x \in below(x)
    OBVIOUS
  <2>2. IsFiniteSet(below(x)) /\ Cardinality(below(x)) <= n
    BY <2>1, FS_Subset
  <2>3. Cardinality(below(x)) \in Nat /\ Cardinality(below(x)) # 0
    BY <2>1, <2>2, FS_CardinalityType, FS_EmptySet
  <2> QED
    BY <1>1, <2>2, <2>3
<1>3. \A x, z \in S : x < z => rank[x] < rank[z]
  <2> SUFFICES ASSUME NEW x \in S, NEW z \in S, x < z
               PROVE  rank[x] < rank[z]
    OBVIOUS
  <2>1. below(x) \in SUBSET below(z) /\ z \in below(z) /\ z \notin below(x)
    <3>1. x \in Int /\ z \in Int /\ z <= z /\ ~(z <= x)
      BY <1>1
    <3>2. \A y \in S : y <= x => y <= z
      <4> TAKE y \in S
      <4>1. y \in Int
        BY <1>1
      <4> QED
        BY <3>1, <4>1
    <3>3. below(x) \in SUBSET below(z)
      BY <3>2
    <3> QED
      BY <3>1, <3>3
  <2>2. IsFiniteSet(below(z))
    <3>1. below(z) \in SUBSET S
      OBVIOUS
    <3> QED
      BY <3>1, FS_Subset
  <2>3. Cardinality(below(x)) <= Cardinality(below(z)) /\ Cardinality(below(x)) # Cardinality(below(z))
    BY <2>1, <2>2, FS_Subset
  <2> QED
    BY <1>2, <2>3
<1> HIDE DEF rank, n
<1>4. rank \in Injection(S, 1 .. n)
  <2>1. rank \in [S -> 1 .. n]
    BY <1>2 DEF rank
  <2>2. \A x, z \in S : rank[x] = rank[z] => x = z
    <3> SUFFICES ASSUME NEW x \in S, NEW z \in S, rank[x] = rank[z], x # z
                 PROVE  FALSE
      OBVIOUS
    <3>1. x < z \/ z < x
      OBVIOUS
    <3> QED
      BY <1>1, <1>2, <1>3, <3>1
  <2> QED
    BY <2>1, <2>2 DEF Injection, IsInjective
<1>5. IsFiniteSet(1 .. n) /\ Cardinality(1 .. n) = n
  BY <1>1, FS_Interval
<1>6. rank \in Surjection(S, 1 .. n)
  BY <1>4, <1>5, FS_Injection DEF n
<1>7. \A i \in 1 .. n : \E x \in S : rank[x] = i
  BY <1>6 DEF Surjection
<1> DEFINE s == [i \in 1 .. n |-> CHOOSE x \in S : rank[x] = i]
<1>8. \A i \in 1 .. n : s[i] \in S /\ rank[s[i]] = i
  BY <1>7
<1> HIDE DEF s
<1>9. \A i, j \in 1 .. n : i < j => s[i] < s[j]
  <2> SUFFICES ASSUME NEW i \in 1 .. n, NEW j \in 1 .. n, i < j, ~(s[i] < s[j])
               PROVE  FALSE
    OBVIOUS
  <2>1. s[i] \in S /\ s[j] \in S /\ rank[s[i]] = i /\ rank[s[j]] = j
    BY <1>8
  <2>2. s[i] \in Int /\ s[j] \in Int
    BY <1>1, <2>1
  <2>4. s[i] = s[j] \/ s[j] < s[i]
    BY <2>2
  <2>3. i \in Int /\ j \in Int
    BY <1>1
  <2>5. CASE s[i] = s[j]
    BY <2>1, <2>3, <2>5
  <2>6. CASE s[j] < s[i]
    <3>1. rank[s[j]] < rank[s[i]]
      BY <1>3, <2>1, <2>6
    <3> QED
      BY <2>1, <2>3, <3>1
  <2> QED
    BY <2>4, <2>5, <2>6
<1>10. s \in [1 .. n -> S]
  BY <1>8 DEF s
<1> QED
  BY <1>9, <1>10 DEF n

LEMMA AscendingIsSorted ==
  ASSUME NEW S \in SUBSET Int, IsFiniteSet(S)
  PROVE  /\ Cardinality(S) \in Nat
         /\ Ascending(S) \in [1 .. Cardinality(S) -> S]
         /\ \A i, j \in 1 .. Cardinality(S) : i < j => Ascending(S)[i] < Ascending(S)[j]
BY SortedListExists, FS_CardinalityType DEF Ascending

(* It holds every element, and each once.                                  *)
LEMMA AscendingHasAll ==
  ASSUME NEW S \in SUBSET Int, IsFiniteSet(S)
  PROVE  /\ Ascending(S) \in Seq(S)
         /\ DOMAIN Ascending(S) = 1 .. Len(Ascending(S))
         /\ \A i, j \in DOMAIN Ascending(S) : Ascending(S)[i] = Ascending(S)[j] => i = j
         /\ Elements(Ascending(S)) = S
<1> DEFINE n == Cardinality(S)
           s == Ascending(S)
<1>1. /\ n \in Nat
      /\ s \in [1 .. n -> S]
      /\ \A i, j \in 1 .. n : i < j => s[i] < s[j]
  BY AscendingIsSorted
<1>2. IsFiniteSet(1 .. n) /\ Cardinality(1 .. n) = n
  BY <1>1, FS_Interval
<1> HIDE DEF n, s
<1>3. \A i, j \in 1 .. n : s[i] = s[j] => i = j
  <2> SUFFICES ASSUME NEW i \in 1 .. n, NEW j \in 1 .. n, s[i] = s[j], i # j
               PROVE  FALSE
    OBVIOUS
  <2>1. s[i] \in Int /\ s[j] \in Int
    BY <1>1
  <2>2. i < j \/ j < i
    BY <1>1
  <2> QED
    BY <1>1, <2>1, <2>2
<1>4. s \in Injection(1 .. n, S)
  <2>1. s \in [1 .. n -> S]
    BY <1>1
  <2> QED
    BY <1>3, <2>1 DEF Injection, IsInjective
<1>5. s \in Surjection(1 .. n, S)
  BY <1>2, <1>4, FS_Injection DEF n
<1>6. Elements(s) = S
  BY <1>1, <1>5 DEF Elements, Surjection
<1>7. s \in Seq(S) /\ DOMAIN s = 1 .. Len(s)
  BY <1>1
<1>8. DOMAIN s = 1 .. n
  BY <1>1
<1> QED
  BY <1>3, <1>6, <1>7, <1>8 DEF s

LEMMA ThresholdsAreFinite ==
  ASSUME NEW values \in Seq(Int)
  PROVE  /\ NormalizeThresholds(values) \in SUBSET Nat
         /\ IsFiniteSet(NormalizeThresholds(values))
         /\ NormalizeThresholds(values) = {v \in Elements(values) : v >= 0}
<1> DEFINE all == {values[i] : i \in DOMAIN values}
<1>1. IsFiniteSet(1 .. Len(values)) /\ DOMAIN values = 1 .. Len(values)
  BY FS_Interval
<1>2. values \in Surjection(1 .. Len(values), all)
  BY <1>1 DEF Surjection
<1>3. IsFiniteSet(all)
  BY <1>1, <1>2, FS_Surjection
<1>4. NormalizeThresholds(values) \in SUBSET all /\ all \in SUBSET Int
  BY <1>1 DEF NormalizeThresholds
<1> QED
  BY <1>3, <1>4, FS_Subset DEF NormalizeThresholds, Elements

(* What lies between two readings; and of a first reading the nearest.     *)
Crossed(prior, current, values) ==
  {t \in NormalizeThresholds(values) :
     /\ current <= t
     /\ IF prior = Nil
        THEN \A u \in NormalizeThresholds(values) : current <= u => t <= u
        ELSE prior > t}

LEMMA CrossingsAreCrossed ==
  ASSUME NEW values \in Seq(Int), NEW prior, NEW current \in Int
  PROVE  /\ ComputeThresholdCrossings(prior, current, values) = Ascending(Crossed(prior, current, values))
         /\ Crossed(prior, current, values) \in SUBSET Nat
         /\ IsFiniteSet(Crossed(prior, current, values))
<1> DEFINE normal == NormalizeThresholds(values)
           reached == {t \in normal : current <= t}
<1>1. normal \in SUBSET Nat /\ IsFiniteSet(normal)
  BY ThresholdsAreFinite
<1>2. Crossed(prior, current, values) =
        IF prior = Nil
        THEN {t \in reached : \A u \in reached : t <= u}
        ELSE {t \in reached : prior > t}
  BY DEF Crossed
<1>3. Crossed(prior, current, values) \in SUBSET normal
  BY DEF Crossed
<1>4. ComputeThresholdCrossings(prior, current, values) = Ascending(Crossed(prior, current, values))
  BY <1>2 DEF ComputeThresholdCrossings
<1> QED
  BY <1>1, <1>3, <1>4, FS_Subset

LEMMA FunctionsAreLists ==
  ASSUME NEW S, NEW n \in Nat, NEW f \in [1 .. n -> S]
  PROVE  f \in Seq(S)
OBVIOUS

LEMMA ElementsOfConcatenation ==
  ASSUME NEW S, NEW s \in Seq(S), NEW t \in Seq(S)
  PROVE  Elements(s \o t) = Elements(s) \cup Elements(t)
<1>1. /\ DOMAIN s = 1 .. Len(s) /\ DOMAIN t = 1 .. Len(t)
      /\ DOMAIN (s \o t) = 1 .. Len(s) + Len(t)
      /\ Len(s) \in Nat /\ Len(t) \in Nat
  OBVIOUS
<1>2. \A i \in DOMAIN s : i \in DOMAIN (s \o t) /\ (s \o t)[i] = s[i]
  BY <1>1
<1>3. \A i \in DOMAIN t : i + Len(s) \in DOMAIN (s \o t) /\ (s \o t)[i + Len(s)] = t[i]
  BY <1>1
<1>4. ASSUME NEW i \in DOMAIN (s \o t)
      PROVE  (s \o t)[i] \in Elements(s) \cup Elements(t)
  <2>1. CASE i \in DOMAIN s
    BY <1>2, <2>1 DEF Elements
  <2>2. CASE i \notin DOMAIN s
    <3>1. i - Len(s) \in DOMAIN t /\ (i - Len(s)) + Len(s) = i
      BY <1>1, <1>4, <2>2
    <3> QED
      BY <1>3, <3>1 DEF Elements
  <2> QED
    BY <2>1, <2>2
<1>5. Elements(s) \in SUBSET Elements(s \o t)
  BY <1>2 DEF Elements
<1>6. Elements(t) \in SUBSET Elements(s \o t)
  BY <1>3 DEF Elements
<1>7. Elements(s \o t) \in SUBSET (Elements(s) \cup Elements(t))
  BY <1>4 DEF Elements
<1> QED
  BY <1>5, <1>6, <1>7

LEMMA ElementsOfThree ==
  ASSUME NEW S, NEW s \in Seq(S), NEW t \in Seq(S), NEW u \in Seq(S)
  PROVE  Elements((s \o t) \o u) = (Elements(s) \cup Elements(t)) \cup Elements(u)
<1> DEFINE st == s \o t
<1>1. st \in Seq(S) /\ Elements(st) = Elements(s) \cup Elements(t)
  BY ElementsOfConcatenation
<1> HIDE DEF st
<1>2. Elements(st \o u) = Elements(st) \cup Elements(u)
  BY <1>1, ElementsOfConcatenation
<1> QED
  BY <1>1, <1>2 DEF st

(* The events a check computes: one for each threshold crossed, one when   *)
(* the certificate has run out, one when the status has recovered.         *)
RanOut(previousDays, days) ==
  (IF previousDays = Nil THEN TRUE ELSE previousDays >= 0) /\ days < 0

Announced(previousStatus, previousDays, status, days, thresholds) ==
  {Threshold(t) : t \in Crossed(previousDays, days, thresholds)}
    \cup (IF RanOut(previousDays, days) THEN {Expired} ELSE {})
    \cup (IF previousStatus = "error" /\ status = "healthy" THEN {Recovered} ELSE {})

LEMMA EventsAreAnnounced ==
  ASSUME NEW values \in Seq(Int), NEW was, NEW prior, NEW now, NEW current \in Int,
         current # Nil
  PROVE  /\ ComputeEvents(was, prior, now, current, values)
              \in Seq(Announced(was, prior, now, current, values))
         /\ Elements(ComputeEvents(was, prior, now, current, values))
              = Announced(was, prior, now, current, values)
<1> DEFINE C  == Crossed(prior, current, values)
           cs == ComputeThresholdCrossings(prior, current, values)
           A1 == [i \in DOMAIN cs |-> Threshold(cs[i])]
           A2 == IF RanOut(prior, current) THEN <<Expired>> ELSE <<>>
           A3 == IF was = "error" /\ now = "healthy" THEN <<Recovered>> ELSE <<>>
           ThresholdEvents == {Threshold(t) : t \in C}
           All == Announced(was, prior, now, current, values)
<1>1. ComputeEvents(was, prior, now, current, values) = (A1 \o A2) \o A3
  BY DEF ComputeEvents, RanOut
<1>2. cs = Ascending(C) /\ C \in SUBSET Int /\ IsFiniteSet(C)
  BY CrossingsAreCrossed
<1>3. cs \in Seq(C) /\ DOMAIN cs = 1 .. Len(cs) /\ Elements(cs) = C
  BY <1>2, AscendingHasAll
<1>4. ThresholdEvents \subseteq All
  BY DEF Announced
<1> HIDE DEF cs, C
<1>5. A1 \in Seq(All) /\ Elements(A1) = ThresholdEvents
  <2>1. \A i \in 1 .. Len(cs) : cs[i] \in C
    BY <1>3
  <2>2. Len(cs) \in Nat
    BY <1>3
  <2>3. A1 \in [1 .. Len(cs) -> All]
    BY <1>3, <1>4, <2>1
  <2>4. A1 \in Seq(All)
    BY <2>2, <2>3
  <2>5. DOMAIN A1 = DOMAIN cs /\ \A i \in DOMAIN cs : A1[i] = Threshold(cs[i])
    OBVIOUS
  <2> HIDE DEF A1
  <2>6. \A x \in Elements(A1) : x \in ThresholdEvents
    BY <1>3, <2>1, <2>5 DEF Elements
  <2>7. \A t \in C : \E i \in DOMAIN cs : cs[i] = t
    BY <1>3 DEF Elements
  <2>8. \A x \in ThresholdEvents : x \in Elements(A1)
    BY <2>5, <2>7 DEF Elements
  <2> QED
    BY <2>4, <2>6, <2>8
<1>6. A2 \in Seq(All) /\ Elements(A2) = IF RanOut(prior, current) THEN {Expired} ELSE {}
  <2>1. CASE RanOut(prior, current)
    <3>1. A2 = <<Expired>> /\ Expired \in All
      BY <2>1 DEF Announced
    <3> HIDE DEF A2, All
    <3>2. Elements(<<Expired>>) = {Expired}
      BY DEF Elements
    <3> QED
      BY <2>1, <3>1, <3>2
  <2>2. CASE ~(RanOut(prior, current))
    <3>1. A2 = <<>>
      BY <2>2
    <3>2. Elements(<<>>) = {}
      BY DEF Elements
    <3> HIDE DEF All, A2
    <3>3. <<>> \in Seq(All)
      OBVIOUS
    <3> QED
      BY <2>2, <3>1, <3>2, <3>3
  <2> QED
    BY <2>1, <2>2
<1>7. A3 \in Seq(All) /\ Elements(A3) = IF was = "error" /\ now = "healthy" THEN {Recovered} ELSE {}
  <2>1. CASE was = "error" /\ now = "healthy"
    <3>1. A3 = <<Recovered>> /\ Recovered \in All
      BY <2>1 DEF Announced
    <3> HIDE DEF A3, All
    <3>2. Elements(<<Recovered>>) = {Recovered}
      BY DEF Elements
    <3> QED
      BY <2>1, <3>1, <3>2
  <2>2. CASE ~(was = "error" /\ now = "healthy")
    <3>1. A3 = <<>>
      BY <2>2
    <3>2. Elements(<<>>) = {}
      BY DEF Elements
    <3> HIDE DEF All, A3
    <3>3. <<>> \in Seq(All)
      OBVIOUS
    <3> QED
      BY <2>2, <3>1, <3>2, <3>3
  <2> QED
    BY <2>1, <2>2
<1>8. All = (Elements(A1) \cup Elements(A2)) \cup Elements(A3)
  BY <1>5, <1>6, <1>7 DEF Announced, C
<1> HIDE DEF A1, A2, A3, All
<1>9. A1 \o A2 \in Seq(All) /\ (A1 \o A2) \o A3 \in Seq(All)
  BY <1>5, <1>6, <1>7
<1>10. Elements((A1 \o A2) \o A3) = (Elements(A1) \cup Elements(A2)) \cup Elements(A3)
  BY <1>5, <1>6, <1>7, ElementsOfThree
<1> QED
  BY <1>1, <1>8, <1>9, <1>10 DEF All

(* The deliveries a check plans: every event with every target.            *)
LEMMA OrdersListAll ==
  ASSUME NEW T, IsFiniteSet(T), NEW order \in Orders(T)
  PROVE  /\ order \in Seq(T)
         /\ DOMAIN order = 1 .. Len(order)
         /\ Len(order) = Cardinality(T)
         /\ Elements(order) = T
<1> DEFINE n == Cardinality(T)
<1>1. n \in Nat /\ order \in [1 .. n -> T] /\ \A i, j \in 1 .. n : i # j => order[i] # order[j]
  BY FS_CardinalityType DEF Orders
<1>2. IsFiniteSet(1 .. n) /\ Cardinality(1 .. n) = n
  BY <1>1, FS_Interval
<1> HIDE DEF n
<1>3. order \in Injection(1 .. n, T)
  BY <1>1 DEF Injection, IsInjective
<1>4. order \in Surjection(1 .. n, T)
  BY <1>2, <1>3, FS_Injection DEF n
<1>5. Elements(order) = T
  BY <1>1, <1>4 DEF Elements, Surjection
<1> QED
  BY <1>1, <1>5 DEF n

LEMMA PlanIsTheProduct ==
  ASSUME NEW S, NEW events \in Seq(S), NEW T, IsFiniteSet(T), T # {}, NEW order \in Orders(T)
  PROVE  /\ Plan(events, order) \in Seq([event : S, endpoint : T])
         /\ events # <<>> => Plan(events, order) # <<>>
         /\ \A e \in Elements(events), t \in T :
              [event |-> e, endpoint |-> t] \in Elements(Plan(events, order))
         /\ \A x \in Elements(Plan(events, order)) : x.event \in Elements(events)
<1> DEFINE n == Len(events)
           m == Len(order)
           plan == Plan(events, order)
<1>1. /\ order \in Seq(T) /\ DOMAIN order = 1 .. m /\ m \in Nat
      /\ m # 0
      /\ Elements(order) = T
  BY OrdersListAll, FS_EmptySet, FS_CardinalityType
<1>2. n \in Nat /\ DOMAIN events = 1 .. n /\ \A i \in 1 .. n : events[i] \in S
  OBVIOUS
<1>3. \A i \in 1 .. m : order[i] \in T
  BY <1>1
<1> HIDE DEF n, m
<1>4. n * m \in Nat
  BY <1>1, <1>2
<1>5. \A i \in 1 .. n * m : ((i - 1) \div m) + 1 \in 1 .. n /\ ((i - 1) % m) + 1 \in 1 .. m
  BY <1>1, <1>2, <1>4
<1>6. plan = [i \in 1 .. n * m |->
                [event    |-> events[((i - 1) \div m) + 1],
                 endpoint |-> order[((i - 1) % m) + 1]]]
  BY DEF Plan, n, m
<1> HIDE DEF plan
<1>7. plan \in Seq([event : S, endpoint : T])
  <2>1. ASSUME NEW i \in 1 .. n * m
        PROVE  plan[i] \in [event : S, endpoint : T]
    <3>1. events[((i - 1) \div m) + 1] \in S
      BY <1>2, <1>5
    <3>2. order[((i - 1) % m) + 1] \in T
      BY <1>3, <1>5
    <3> QED
      BY <1>6, <3>1, <3>2
  <2>2. plan \in [1 .. n * m -> [event : S, endpoint : T]]
    BY <1>6, <2>1
  <2> QED
    BY <1>4, <2>2, FunctionsAreLists
<1>8. \A k \in 1 .. n, j \in 1 .. m :
        \E i \in 1 .. n * m : ((i - 1) \div m) + 1 = k /\ ((i - 1) % m) + 1 = j
  <2> TAKE k \in 1 .. n, j \in 1 .. m
  <2> DEFINE i == m * (k - 1) + (j - 1) + 1
  <2>1. k - 1 \in Nat /\ k - 1 <= n - 1 /\ j - 1 \in 0 .. m - 1
    BY <1>1, <1>2
  <2>2. i - 1 = m * (k - 1) + (j - 1) /\ i \in Nat /\ i >= 1
    BY <1>1, <2>1
  <2>3. m * (k - 1) <= m * (n - 1)
    BY <1>1, <1>2, <2>1
  <2>4. m * (n - 1) + m = n * m
    BY <1>1, <1>2
  <2>5. i \in 1 .. n * m
    BY <1>1, <1>2, <2>1, <2>2, <2>3, <2>4
  <2>6. (m * (k - 1) + (j - 1)) \div m = k - 1 /\ (m * (k - 1) + (j - 1)) % m = j - 1
    BY <1>1, <2>1
  <2> QED
    BY <2>1, <2>2, <2>5, <2>6
<1>9. ASSUME NEW e \in Elements(events), NEW t \in T
      PROVE  [event |-> e, endpoint |-> t] \in Elements(plan)
  <2>1. PICK k \in 1 .. n : events[k] = e
    BY <1>2 DEF Elements
  <2>2. PICK j \in 1 .. m : order[j] = t
    BY <1>1 DEF Elements
  <2>3. PICK i \in 1 .. n * m : ((i - 1) \div m) + 1 = k /\ ((i - 1) % m) + 1 = j
    BY <1>8
  <2>4. plan[i] = [event |-> e, endpoint |-> t] /\ i \in DOMAIN plan
    BY <1>6, <2>1, <2>2, <2>3
  <2> QED
    BY <2>4 DEF Elements
<1>10. ASSUME NEW x \in Elements(plan)
       PROVE  x.event \in Elements(events)
  <2>1. PICK i \in 1 .. n * m : x = plan[i]
    BY <1>6 DEF Elements
  <2>2. x.event = events[((i - 1) \div m) + 1] /\ ((i - 1) \div m) + 1 \in 1 .. n
    BY <1>5, <1>6, <2>1
  <2> QED
    BY <1>2, <2>2 DEF Elements
<1>11. events # <<>> => plan # <<>>
  <2> SUFFICES ASSUME events # <<>>
               PROVE  plan # <<>>
    OBVIOUS
  <2>1. n >= 1
    BY <1>2 DEF n
  <2>2. n * m >= 1
    BY <1>1, <1>2, <2>1
  <2>3. 1 \in DOMAIN plan
    BY <1>4, <1>6, <2>2
  <2> QED
    BY <2>3
<1> QED
  BY <1>7, <1>9, <1>10, <1>11 DEF plan

-----------------------------------------------------------------------------
(* Type correctness.  The one part that is not a matter of reading off an  *)
(* assignment is the plan of a check: that the events computed from the    *)
(* readings it holds are events, and that it is not empty.                 *)
LocalTypes ==
  /\ pc \in [Checks -> ActivePcs \cup {"idle"}]
  /\ previous \in [Checks -> Readings]
  /\ result \in [Checks -> Readings]
  /\ seen \in [Checks -> Readings]
  /\ policy \in [Checks -> Policies]
  /\ todo \in [Checks -> Seq(Step)]
  /\ \A p \in Checks : pc[p] \in {"lookup", "create", "send", "record"} => todo[p] # <<>>
  /\ accepted \in [Checks -> BOOLEAN]
  /\ dead \subseteq Checks

SharedTypes ==
  /\ day \in Nat /\ served \in Certs
  /\ renewals \in Nat /\ faults \in Nat /\ edits \in Nat
  /\ row \in Readings \cup {Deleted}
  /\ tenantPolicy \in Policies \cup {NoPolicy}
  /\ override \in Policies \cup {NoPolicy}
  /\ endpoint \in [Endpoints -> {"enabled", "disabled", "deleted"}]
  /\ delivery \in [Alerts -> {"none", "pending", "sent", "failed"}]
  /\ arrived \in [Alerts -> Nat]
  /\ mixed \in BOOLEAN
  /\ crossed \subseteq Alerts

LEMMA TypeParts ==
  /\ TypeOK <=> LocalTypes /\ SharedTypes
  /\ TypeOK' <=> LocalTypes' /\ SharedTypes'
BY DEF TypeOK, LocalTypes, SharedTypes

LEMMA DefaultsTyped == NoReading \in Readings /\ DefaultPolicy \in Policies /\ <<>> \in Seq(Step)
<1>1. NoReading \in Readings
  BY DEF NoReading, Readings
<1>2. DefaultPolicy \in Policies
  BY CheckNotifyAssumption DEF DefaultPolicy, Policies
<1> QED
  BY <1>1, <1>2

LEMMA ReturnTyped ==
  ASSUME LocalTypes, NEW p \in Checks, Return(p)
  PROVE  LocalTypes'
<1>1. /\ pc' \in [Checks -> ActivePcs \cup {"idle"}]
      /\ previous' \in [Checks -> Readings]
      /\ result' \in [Checks -> Readings]
      /\ seen' \in [Checks -> Readings]
      /\ policy' \in [Checks -> Policies]
      /\ accepted' \in [Checks -> BOOLEAN]
      /\ dead' \subseteq Checks
  BY DefaultsTyped DEF LocalTypes, Return
<1>2. todo' \in [Checks -> Seq(Step)]
  BY DefaultsTyped DEF LocalTypes, Return
<1>3. \A q \in Checks : pc'[q] \in {"lookup", "create", "send", "record"} => todo'[q] # <<>>
  BY DEF LocalTypes, Return
<1> QED
  BY <1>1, <1>2, <1>3 DEF LocalTypes

LEMMA NextDeliveryTyped ==
  ASSUME LocalTypes, NEW p \in Checks, NextDelivery(p), todo[p] # <<>>
  PROVE  LocalTypes'
<1>1. CASE Tail(todo[p]) = <<>>
  BY <1>1, ReturnTyped DEF NextDelivery
<1>2. CASE Tail(todo[p]) # <<>>
  <2> DEFINE rest == Tail(todo[p])
  <2>1. rest \in Seq(Step) /\ rest # <<>>
    BY <1>2 DEF LocalTypes
  <2>2. /\ todo' = [todo EXCEPT ![p] = rest]
        /\ pc' = [pc EXCEPT ![p] = "lookup"]
        /\ accepted' = [accepted EXCEPT ![p] = FALSE]
        /\ UNCHANGED <<previous, result, seen, policy, dead>>
    BY <1>2 DEF NextDelivery
  <2> HIDE DEF rest
  <2> QED
    BY <2>1, <2>2 DEF LocalTypes, ActivePcs
<1> QED
  BY <1>1, <1>2

(* The readings a check computes its events from.                          *)
LEMMA EventsTyped ==
  ASSUME LocalTypes, NEW p \in Checks
  PROVE  /\ EventsOf(p) \in Seq(Events)
         /\ policy[p].thresholds \in Seq(Int)
         /\ seen[p].days # Nil =>
              /\ seen[p].days \in Int
              /\ Elements(EventsOf(p)) = Announced(previous[p].status, previous[p].days,
                      seen[p].status, seen[p].days, policy[p].thresholds)
<1> DEFINE values == policy[p].thresholds
           All == Announced(previous[p].status, previous[p].days,
                            seen[p].status, seen[p].days, values)
<1>1. values \in ThresholdLists /\ values \in Seq(Int)
  BY CheckNotifyAssumption DEF LocalTypes, Policies
<1>2. seen[p].days \in Int \cup {Nil}
  BY DEF LocalTypes, Readings
<1>3. CASE seen[p].days = Nil
  BY <1>1, <1>3 DEF EventsOf, ComputeEvents
<1>4. CASE seen[p].days # Nil
  <2>1. EventsOf(p) \in Seq(All) /\ Elements(EventsOf(p)) = All
    BY <1>1, <1>2, <1>4, EventsAreAnnounced DEF EventsOf
  <2>2. \A t \in Crossed(previous[p].days, seen[p].days, values) : t \in Elements(values)
    BY DEF Crossed, NormalizeThresholds, Elements
  <2>3. \A t \in Elements(values) : Threshold(t) \in Events
    BY <1>1 DEF Events, Elements
  <2>4. All \in SUBSET Events
    BY <2>2, <2>3 DEF Announced, Events
  <2> HIDE DEF All
  <2>5. EventsOf(p) \in Seq(Events)
    BY <2>1, <2>4
  <2> QED
    BY <1>1, <1>2, <1>4, <2>1, <2>5 DEF All
<1> QED
  BY <1>3, <1>4

(* What a check that goes on after reading the endpoints is going to do.   *)
LEMMA PlanTyped ==
  ASSUME LocalTypes, NEW p \in Checks, Targets(p) # {}, EventsOf(p) # <<>>,
         NEW order \in Orders(Targets(p))
  PROVE  /\ Plan(EventsOf(p), order) \in Seq(Step)
         /\ Plan(EventsOf(p), order) # <<>>
         /\ \A e \in Elements(EventsOf(p)), t \in Targets(p) :
              [event |-> e, endpoint |-> t] \in Elements(Plan(EventsOf(p), order))
         /\ \A x \in Elements(Plan(EventsOf(p), order)) : x.event \in Elements(EventsOf(p))
<1>1. Targets(p) \in SUBSET Endpoints
  BY DEF Targets, LocalTypes, Policies
<1>2. IsFiniteSet(Targets(p))
  BY <1>1, CheckNotifyAssumption, FS_Subset
<1>3. EventsOf(p) \in Seq(Events)
  BY EventsTyped
<1>4. [event : Events, endpoint : Targets(p)] \in SUBSET Step
  BY <1>1 DEF Step
<1>5. Plan(EventsOf(p), order) \in Seq([event : Events, endpoint : Targets(p)])
  BY <1>2, <1>3, PlanIsTheProduct
<1> DEFINE plan == Plan(EventsOf(p), order)
           planned == [event : Events, endpoint : Targets(p)]
<1>6. plan \in Seq(Step)
  <2>1. plan \in Seq(planned) /\ planned \in SUBSET Step
    BY <1>4, <1>5
  <2> HIDE DEF plan, planned
  <2> QED
    BY <2>1
<1> QED
  BY <1>2, <1>3, <1>6, PlanIsTheProduct

LEMMA AlertInHandTyped ==
  ASSUME LocalTypes, NEW p \in Checks, todo[p] # <<>>
  PROVE  /\ AlertInHand(p) \in Alerts
         /\ Head(todo[p]) \in Step
         /\ Head(todo[p]) = todo[p][1] /\ 1 \in DOMAIN todo[p]
<1>1. Head(todo[p]) \in Step /\ Head(todo[p]) = todo[p][1] /\ 1 \in DOMAIN todo[p]
  BY DEF LocalTypes
<1>2. seen[p].expires \in Certs \cup {Nil}
  BY DEF LocalTypes, Readings
<1> QED
  BY <1>1, <1>2 DEF AlertInHand, Alerts, Step

LEMMA RecordedTyped ==
  ASSUME row \in Readings, NEW r \in Readings
  PROVE  Recorded(r) \in Readings
BY DEF Recorded, Readings

LEMMA AnswersTyped ==
  ASSUME SharedTypes, NEW p, NEW r \in Answers(p)
  PROVE  r \in Readings
<1>1. day \in Int /\ served \in Int /\ served \in Certs
  BY CheckNotifyAssumption DEF SharedTypes
<1>2. Failure \in Readings /\ Success \in Readings
  BY <1>1 DEF Failure, Success, Readings
<1> QED
  BY <1>2 DEF Answers

(* The steps of the world outside.                                         *)
LEMMA OutsideKeepsTypes ==
  ASSUME TypeOK,
         \/ NextDay \/ Renew \/ UpsertTenantPolicy \/ UpsertOverride \/ DeleteDomain
         \/ \E e \in Endpoints : ChangeEndpoint(e)
  PROVE  TypeOK'
<1> USE DEF TypeOK, rowVars, outVars, localVars, boundVars
<1>1. CASE NextDay
  BY <1>1 DEF NextDay
<1>2. CASE Renew
  BY <1>2 DEF Renew
<1>3. CASE UpsertTenantPolicy
  BY <1>3 DEF UpsertTenantPolicy, Edit
<1>4. CASE UpsertOverride
  BY <1>4 DEF UpsertOverride, Edit
<1>5. CASE DeleteDomain
  BY <1>5 DEF DeleteDomain, Edit
<1>6. CASE \E e \in Endpoints : ChangeEndpoint(e)
  <2>1. PICK e \in Endpoints : ChangeEndpoint(e)
    BY <1>6
  <2>2. endpoint' \in [Endpoints -> {"enabled", "disabled", "deleted"}]
    BY <2>1 DEF ChangeEndpoint
  <2> QED
    BY <2>1, <2>2 DEF ChangeEndpoint, Edit
<1> QED
  BY <1>1, <1>2, <1>3, <1>4, <1>5, <1>6

(* The steps of a check.                                                   *)
LEMMA ReadDomainTyped ==
  ASSUME TypeOK, NEW p \in Checks, ReadDomain(p)
  PROVE  TypeOK'
BY DEF TypeOK, ReadDomain, Outside, boundVars, outVars, ActivePcs

LEMMA DialTyped ==
  ASSUME TypeOK, NEW p \in Checks, Dial(p)
  PROVE  TypeOK'
<1>1. PICK r \in Answers(p) : result' = [result EXCEPT ![p] = r]
  BY DEF Dial
<1>2. r \in Readings
  BY AnswersTyped, TypeParts
<1> QED
  BY <1>1, <1>2 DEF TypeOK, Dial, Outside, boundVars, outVars, ActivePcs

LEMMA CommitTyped ==
  ASSUME TypeOK, NEW p \in Checks, Commit(p)
  PROVE  TypeOK'
<1>1. UNCHANGED <<Outside, outVars>> /\ LocalTypes /\ SharedTypes
  BY TypeParts DEF Commit
<1>2. CASE Return(p) /\ UNCHANGED <<row, mixed, crossed>>
  <2>1. SharedTypes'
    BY <1>1, <1>2 DEF SharedTypes, Outside, boundVars, outVars
  <2> QED
    BY <1>1, <1>2, <2>1, ReturnTyped, TypeParts
<1>3. CASE /\ row' = IF row = Deleted THEN Deleted ELSE Recorded(result[p])
           /\ mixed' = (mixed \/ \E q \in Busy \ {p} : pc[q] \in {"dial", "commit", "reload"})
           /\ crossed' = {a \in crossed \cup CalledFor(row, result[p]) :
                            delivery[a] \notin {"sent", "failed"}}
           /\ pc' = [pc EXCEPT ![p] = "reload"]
           /\ UNCHANGED <<previous, result, seen, policy, todo, accepted, dead>>
  <2>1. LocalTypes'
    BY <1>1, <1>3 DEF LocalTypes, ActivePcs
  <2>2. row' \in Readings \cup {Deleted}
    BY <1>1, <1>3, RecordedTyped DEF LocalTypes, SharedTypes
  <2>3. crossed' \subseteq Alerts
    BY <1>1, <1>3 DEF SharedTypes, CalledFor
  <2>4. mixed' \in BOOLEAN
    BY <1>1, <1>3 DEF SharedTypes
  <2>5. SharedTypes'
    BY <1>1, <2>2, <2>3, <2>4 DEF SharedTypes, Outside, boundVars, outVars
  <2> QED
    BY <2>1, <2>5, TypeParts
<1> QED
  BY <1>2, <1>3 DEF Commit

LEMMA ReloadTyped ==
  ASSUME TypeOK, NEW p \in Checks, Reload(p)
  PROVE  TypeOK'
<1>1. LocalTypes /\ SharedTypes /\ SharedTypes'
  BY TypeParts DEF Reload, SharedTypes, Outside, boundVars, outVars
<1>2. CASE Return(p)
  BY <1>1, <1>2, ReturnTyped, TypeParts
<1>3. CASE ~Return(p)
  <2>1. LocalTypes'
    BY <1>1, <1>3 DEF Reload, LocalTypes, SharedTypes, ActivePcs
  <2> QED
    BY <1>1, <2>1, TypeParts
<1> QED
  BY <1>2, <1>3

LEMMA ReadPoliciesTyped ==
  ASSUME TypeOK, NEW p \in Checks, ReadPolicies(p)
  PROVE  TypeOK'
<1>1. LocalTypes /\ SharedTypes /\ SharedTypes'
  BY TypeParts DEF ReadPolicies, SharedTypes, Outside, boundVars, outVars
<1>2. CASE Return(p)
  BY <1>1, <1>2, ReturnTyped, TypeParts
<1>3. CASE ~Return(p)
  <2>1. EffectivePolicy \in Policies
    BY <1>1, DefaultsTyped DEF EffectivePolicy, SharedTypes
  <2>2. LocalTypes'
    <3>1. /\ policy' = [policy EXCEPT ![p] = EffectivePolicy]
          /\ pc' = [pc EXCEPT ![p] = "endpoints"]
          /\ UNCHANGED <<previous, result, seen, todo, accepted, dead>>
      BY <1>3 DEF ReadPolicies
    <3> QED
      BY <1>1, <2>1, <3>1 DEF LocalTypes, ActivePcs
  <2> QED
    BY <1>1, <2>2, TypeParts
<1> QED
  BY <1>2, <1>3

LEMMA ReadEndpointsTyped ==
  ASSUME TypeOK, NEW p \in Checks, ReadEndpoints(p)
  PROVE  TypeOK'
<1>1. LocalTypes /\ SharedTypes /\ SharedTypes'
  BY TypeParts DEF ReadEndpoints, SharedTypes, Outside, boundVars, outVars
<1>2. CASE Return(p)
  BY <1>1, <1>2, ReturnTyped, TypeParts
<1>3. CASE ~Return(p)
  <2>1. /\ Targets(p) # {} /\ EventsOf(p) # <<>>
        /\ pc' = [pc EXCEPT ![p] = "lookup"]
        /\ UNCHANGED <<previous, result, seen, policy, accepted, dead>>
    BY <1>3 DEF ReadEndpoints
  <2>2. PICK order \in Orders(Targets(p)) : todo' = [todo EXCEPT ![p] = Plan(EventsOf(p), order)]
    BY <1>3 DEF ReadEndpoints
  <2> DEFINE plan == Plan(EventsOf(p), order)
  <2>3. plan \in Seq(Step) /\ plan # <<>>
    BY <1>1, <2>1, PlanTyped
  <2>4. todo' = [todo EXCEPT ![p] = plan]
    BY <2>2
  <2> HIDE DEF plan
  <2>5. LocalTypes'
    BY <1>1, <2>1, <2>3, <2>4 DEF LocalTypes, ActivePcs
  <2> QED
    BY <1>1, <2>5, TypeParts
<1> QED
  BY <1>2, <1>3

LEMMA DeliveryTyped ==
  ASSUME TypeOK, NEW p \in Checks, Lookup(p) \/ Create(p) \/ Send(p) \/ Record(p)
  PROVE  TypeOK'
<1> DEFINE mine == AlertInHand(p)
<1>1. LocalTypes /\ SharedTypes
  BY TypeParts
<1>2. pc[p] \in {"lookup", "create", "send", "record"} /\ todo[p] # <<>>
  BY <1>1 DEF Lookup, Create, Send, Record, LocalTypes
<1>3. mine \in Alerts
  BY <1>1, <1>2, AlertInHandTyped
<1>4. UNCHANGED DeliverUntouched
  BY DEF Lookup, Create, Send, Record
<1>5. delivery' \in [Alerts -> {"none", "pending", "sent", "failed"}]
  BY <1>1, <1>3 DEF Lookup, Create, Send, Record, outVars, SharedTypes
<1>6. arrived' \in [Alerts -> Nat]
  <2>1. CASE Send(p)
    <3>1. arrived' = [arrived EXCEPT ![mine] = @ + 1] \/ arrived' = arrived
      BY <2>1 DEF Send
    <3> HIDE DEF mine
    <3> QED
      BY <1>1, <1>3, <3>1 DEF SharedTypes
  <2>2. CASE ~Send(p)
    BY <1>1, <2>2 DEF Lookup, Create, Record, outVars, SharedTypes
  <2> QED
    BY <2>1, <2>2
<1>7. SharedTypes'
  BY <1>1, <1>4, <1>5, <1>6 DEF SharedTypes, DeliverUntouched, Outside, boundVars
<1>8. CASE NextDelivery(p)
  BY <1>1, <1>2, <1>7, <1>8, NextDeliveryTyped, TypeParts
<1>9. CASE ~NextDelivery(p)
  <2>1. /\ \/ pc' = [pc EXCEPT ![p] = "create"] /\ accepted' = accepted
           \/ pc' = [pc EXCEPT ![p] = "send"] /\ accepted' = accepted
           \/ /\ pc' = [pc EXCEPT ![p] = "record"]
              /\ \E ok \in BOOLEAN : accepted' = [accepted EXCEPT ![p] = ok]
        /\ UNCHANGED <<previous, result, seen, policy, todo, dead>>
    BY <1>9 DEF Lookup, Create, Send, Record
  <2>2. LocalTypes'
    BY <1>1, <1>2, <2>1 DEF LocalTypes, ActivePcs
  <2> QED
    BY <1>7, <2>2, TypeParts
<1> QED
  BY <1>8, <1>9

(* What goes wrong.                                                        *)
LEMMA FaultsTyped ==
  ASSUME TypeOK, (\E p \in Checks : StatementFails(p) \/ ContextCancelled(p)) \/ Crash
  PROVE  TypeOK'
<1>1. LocalTypes /\ SharedTypes
  BY TypeParts
<1>2. CASE \E p \in Checks : StatementFails(p)
  <2>1. PICK p \in Checks : StatementFails(p)
    BY <1>2
  <2>2. SharedTypes'
    BY <1>1, <2>1 DEF StatementFails, SharedTypes, rowVars, outVars
  <2>3. Return(p) \/ (NextDelivery(p) /\ todo[p] # <<>>)
    BY <1>1, <2>1 DEF StatementFails, LocalTypes
  <2>4. LocalTypes'
    BY <1>1, <2>3, ReturnTyped, NextDeliveryTyped
  <2> QED
    BY <2>2, <2>4, TypeParts
<1>3. CASE \E p \in Checks : ContextCancelled(p)
  BY <1>3 DEF TypeOK, ContextCancelled, rowVars, outVars
<1>4. CASE Crash
  <2>1. SharedTypes'
    BY <1>1, <1>4 DEF Crash, SharedTypes, rowVars, outVars
  <2>2. LocalTypes'
    BY <1>1, <1>4, DefaultsTyped DEF Crash, LocalTypes
  <2> QED
    BY <2>1, <2>2, TypeParts
<1> QED
  BY <1>2, <1>3, <1>4

LEMMA InitTyped == Init => TypeOK
<1> SUFFICES ASSUME Init
             PROVE  LocalTypes /\ SharedTypes
  BY TypeParts
<1>1. LocalTypes
  BY DefaultsTyped DEF Init, LocalTypes
<1>2. SharedTypes
  BY DefaultsTyped DEF Init, SharedTypes
<1> QED
  BY <1>1, <1>2

LEMMA NextTyped == TypeOK /\ [Next]_vars => TypeOK'
<1> SUFFICES ASSUME TypeOK, [Next]_vars
             PROVE  TypeOK'
  OBVIOUS
<1>1. ASSUME NEW p \in Checks, CheckStep(p)
      PROVE  TypeOK'
  BY <1>1, ReadDomainTyped, DialTyped, CommitTyped, ReloadTyped, ReadPoliciesTyped,
     ReadEndpointsTyped, DeliveryTyped DEF CheckStep
<1>2. CASE UNCHANGED vars
  BY <1>2 DEF TypeOK, vars, rowVars, outVars, localVars, boundVars
<1> QED
  BY <1>1, <1>2, OutsideKeepsTypes, FaultsTyped DEF Next

(* The types, among them that no plan is ever empty in the middle of its   *)
(* deliveries.                                                             *)
THEOREM TypeCorrect == Spec => []TypeOK
BY InitTyped, NextTyped, PTL DEF Spec

-----------------------------------------------------------------------------
(* A healthy reading has a certificate that is still valid, since the      *)
(* handshake verifies it; so the days remaining are never negative, and no *)
(* check computes the event of an expired one.                             *)
Sound(r) == r.status = "healthy" => r.days \in Nat /\ r.expires \in Certs

Trying     == {"lookup", "create", "send", "record"}
PastReload == {"policy", "endpoints"} \cup Trying

SoundAt(p) ==
  /\ Sound(result[p])
  /\ pc[p] \in PastReload => seen[p].status = "healthy" /\ Sound(seen[p])
  /\ \A i \in DOMAIN todo[p] : todo[p][i].event # Expired

ReadingsSound ==
  /\ row # Deleted => Sound(row)
  /\ \A p \in Checks : SoundAt(p)

SoundInv == TypeOK /\ ReadingsSound /\ ExpiryNeverAnnounced

(* A step of check p leaves what the other checks hold.                    *)
OthersHold(p) ==
  \A q \in Checks \ {p} :
    /\ pc'[q] = pc[q] /\ previous'[q] = previous[q] /\ result'[q] = result[q]
    /\ seen'[q] = seen[q] /\ policy'[q] = policy[q] /\ todo'[q] = todo[q]

LEMMA StepsLeaveOthers ==
  ASSUME TypeOK, NEW p \in Checks, CheckStep(p) \/ StatementFails(p)
  PROVE  OthersHold(p)
<1> USE DEF TypeOK, OthersHold
<1>1. CASE Return(p)
  BY <1>1 DEF Return
<1>2. CASE NextDelivery(p)
  <2> DEFINE rest == Tail(todo[p])
  <2>1. Return(p) \/ (/\ todo' = [todo EXCEPT ![p] = rest]
                      /\ pc' = [pc EXCEPT ![p] = "lookup"]
                      /\ UNCHANGED <<previous, result, seen, policy>>)
    BY <1>2 DEF NextDelivery
  <2> HIDE DEF rest
  <2> QED
    BY <1>1, <2>1
<1>3. CASE ~Return(p) /\ ~NextDelivery(p)
  <2>1. CASE ReadDomain(p)
    BY <2>1 DEF ReadDomain
  <2>2. CASE Dial(p)
    BY <2>2 DEF Dial
  <2>3. CASE Commit(p)
    BY <1>3, <2>3 DEF Commit
  <2>4. CASE Reload(p)
    BY <1>3, <2>4 DEF Reload
  <2>5. CASE ReadPolicies(p)
    <3>1. /\ policy' = [policy EXCEPT ![p] = EffectivePolicy]
          /\ pc' = [pc EXCEPT ![p] = "endpoints"]
          /\ UNCHANGED <<previous, result, seen, todo, accepted, dead>>
      BY <1>3, <2>5 DEF ReadPolicies
    <3> QED
      BY <3>1
  <2>6. CASE ReadEndpoints(p)
    <3>1. /\ pc' = [pc EXCEPT ![p] = "lookup"]
          /\ UNCHANGED <<previous, result, seen, policy, accepted, dead>>
      BY <1>3, <2>6 DEF ReadEndpoints
    <3>2. PICK order : todo' = [todo EXCEPT ![p] = Plan(EventsOf(p), order)]
      BY <1>3, <2>6 DEF ReadEndpoints
    <3> DEFINE plan == Plan(EventsOf(p), order)
    <3>3. todo' = [todo EXCEPT ![p] = plan]
      BY <3>2
    <3> HIDE DEF plan
    <3> QED
      BY <3>1, <3>3
  <2>7. CASE Lookup(p) \/ Create(p) \/ Send(p) \/ Record(p)
    <3>1. /\ \E where \in ActivePcs : pc' = [pc EXCEPT ![p] = where]
          /\ UNCHANGED <<previous, result, seen, policy, todo, dead>>
      BY <1>3, <2>7 DEF Lookup, Create, Send, Record, ActivePcs
    <3> QED
      BY <3>1
  <2>8. CASE StatementFails(p)
    BY <1>3, <2>8 DEF StatementFails
  <2> QED
    BY <2>1, <2>2, <2>3, <2>4, <2>5, <2>6, <2>7, <2>8 DEF CheckStep
<1> QED
  BY <1>1, <1>2, <1>3

LEMMA ReturnIsSound ==
  ASSUME TypeOK, NEW p \in Checks, Return(p)
  PROVE  SoundAt(p)' /\ pc'[p] = "idle"
BY DEF TypeOK, Return, SoundAt, Sound, NoReading, PastReload, Trying

LEMMA NextDeliveryIsSound ==
  ASSUME TypeOK, NEW p \in Checks, todo[p] # <<>>, NextDelivery(p), pc[p] \in Trying, SoundAt(p)
  PROVE  SoundAt(p)'
<1>1. CASE Tail(todo[p]) = <<>>
  BY <1>1, ReturnIsSound DEF NextDelivery
<1>2. CASE Tail(todo[p]) # <<>>
  <2> DEFINE rest == Tail(todo[p])
  <2>1. /\ todo' = [todo EXCEPT ![p] = rest]
        /\ pc' = [pc EXCEPT ![p] = "lookup"]
        /\ UNCHANGED <<result, seen>>
    BY <1>2 DEF NextDelivery
  <2>2. \A i \in DOMAIN rest : i + 1 \in DOMAIN todo[p] /\ rest[i] = todo[p][i + 1]
    BY DEF TypeOK
  <2> HIDE DEF rest
  <2>3. todo'[p] = rest /\ pc'[p] = "lookup" /\ result'[p] = result[p] /\ seen'[p] = seen[p]
    BY <2>1 DEF TypeOK
  <2>4. \A i \in DOMAIN rest : rest[i].event # Expired
    BY <2>2 DEF SoundAt
  <2> QED
    BY <2>3, <2>4 DEF SoundAt, PastReload, Trying
<1> QED
  BY <1>1, <1>2

(* A plan is made from a healthy reading.                                  *)
LEMMA PlansAreSound ==
  ASSUME TypeOK, NEW p \in Checks, SoundAt(p), pc[p] = "endpoints", ~Return(p), ReadEndpoints(p)
  PROVE  /\ pc'[p] = "lookup"
         /\ UNCHANGED <<result, seen>>
         /\ Targets(p) # {} /\ EventsOf(p) # <<>>
         /\ \A e \in Elements(EventsOf(p)), t \in Targets(p) :
              [event |-> e, endpoint |-> t] \in Elements(todo'[p])
         /\ \A i \in DOMAIN todo'[p] : todo'[p][i].event # Expired
<1>1. /\ Targets(p) # {} /\ EventsOf(p) # <<>>
      /\ pc' = [pc EXCEPT ![p] = "lookup"]
      /\ UNCHANGED <<previous, result, seen, policy, accepted, dead>>
  BY DEF ReadEndpoints
<1>2. PICK order \in Orders(Targets(p)) : todo' = [todo EXCEPT ![p] = Plan(EventsOf(p), order)]
  BY DEF ReadEndpoints
<1> DEFINE plan == Plan(EventsOf(p), order)
<1>3. LocalTypes
  BY TypeParts
<1>4. /\ \A e \in Elements(EventsOf(p)), t \in Targets(p) :
           [event |-> e, endpoint |-> t] \in Elements(plan)
      /\ \A x \in Elements(plan) : x.event \in Elements(EventsOf(p))
  BY <1>1, <1>3, PlanTyped
<1>5. todo' = [todo EXCEPT ![p] = plan]
  BY <1>2
<1> HIDE DEF plan
<1>6. todo'[p] = plan /\ pc'[p] = "lookup"
  BY <1>1, <1>5 DEF TypeOK
<1>7. seen[p].days \in Nat /\ seen[p].days # Nil
  BY CheckNotifyAssumption DEF SoundAt, Sound, PastReload
<1>8. Expired \notin Elements(EventsOf(p))
  <2>1. Elements(EventsOf(p)) = Announced(previous[p].status, previous[p].days,
                      seen[p].status, seen[p].days, policy[p].thresholds)
    BY <1>3, <1>7, EventsTyped
  <2>2. ~RanOut(previous[p].days, seen[p].days)
    BY <1>7 DEF RanOut
  <2> QED
    BY <2>1, <2>2 DEF Announced, Threshold, Expired, Recovered
<1>9. \A i \in DOMAIN plan : plan[i] \in Elements(plan)
  BY DEF Elements
<1> QED
  BY <1>1, <1>4, <1>6, <1>8, <1>9

LEMMA SoundStep ==
  ASSUME SoundInv, NEW p \in Checks, CheckStep(p) \/ StatementFails(p)
  PROVE  SoundAt(p)' /\ (row' # Deleted => Sound(row'))
<1>1. TypeOK /\ SoundAt(p) /\ (row # Deleted => Sound(row)) /\ LocalTypes /\ SharedTypes
  BY TypeParts DEF SoundInv, ReadingsSound
<1>2. CASE Commit(p)
  <2>1. CASE Return(p) /\ UNCHANGED row
    BY <1>1, <2>1, ReturnIsSound
  <2>2. CASE ~(Return(p) /\ UNCHANGED row)
    <3>1. /\ row' = IF row = Deleted THEN Deleted ELSE Recorded(result[p])
          /\ pc' = [pc EXCEPT ![p] = "reload"]
          /\ UNCHANGED <<result, seen, todo>>
      BY <1>2, <2>2 DEF Commit
    <3>2. row # Deleted => Sound(Recorded(result[p]))
      BY <1>1 DEF Recorded, Sound, SoundAt, SharedTypes, Readings
    <3> QED
      BY <1>1, <3>1, <3>2 DEF SoundAt, PastReload, Trying, TypeOK
  <2> QED
    BY <2>1, <2>2
<1>3. CASE ~Commit(p)
  <2>1. row' = row
    BY <1>3 DEF CheckStep, ReadDomain, Dial, Reload, ReadPolicies, ReadEndpoints, Lookup,
       Create, Send, Record, StatementFails, DeliverUntouched, rowVars
  <2>2. CASE Return(p)
    BY <1>1, <2>1, <2>2, ReturnIsSound
  <2>3. CASE NextDelivery(p) /\ pc[p] \in Trying
    <3>1. todo[p] # <<>>
      BY <1>1, <2>3 DEF TypeOK, Trying
    <3> QED
      BY <1>1, <2>1, <2>3, <3>1, NextDeliveryIsSound
  <2>4. CASE ~Return(p) /\ ~(NextDelivery(p) /\ pc[p] \in Trying)
    <3>1. CASE ReadDomain(p)
      BY <1>1, <2>1, <3>1 DEF ReadDomain, SoundAt, TypeOK, PastReload, Trying
    <3>2. CASE Dial(p)
      <4>1. PICK r \in Answers(p) : result' = [result EXCEPT ![p] = r]
        BY <3>2 DEF Dial
      <4>2. Sound(r)
        <5>1. served \in Int /\ day \in Int
          BY <1>1, CheckNotifyAssumption DEF SharedTypes
        <5>2. served >= day => Sound(Success)
          BY <1>1, <5>1 DEF Sound, Success, SharedTypes
        <5>3. Sound(Failure)
          BY DEF Sound, Failure
        <5> QED
          BY <5>2, <5>3 DEF Answers
      <4> QED
        BY <1>1, <2>1, <3>2, <4>1, <4>2 DEF Dial, SoundAt, TypeOK, PastReload, Trying
    <3>3. CASE Reload(p)
      BY <1>1, <2>1, <2>4, <3>3 DEF Reload, SoundAt, TypeOK
    <3>4. CASE ReadPolicies(p)
      BY <1>1, <2>1, <2>4, <3>4 DEF ReadPolicies, SoundAt, TypeOK, PastReload
    <3>5. CASE ReadEndpoints(p)
      <4>1. pc[p] = "endpoints"
        BY <3>5 DEF ReadEndpoints
      <4> QED
        BY <1>1, <2>1, <2>4, <3>5, <4>1, PlansAreSound DEF SoundAt, PastReload
    <3>6. CASE Lookup(p) \/ Create(p) \/ Send(p) \/ Record(p)
      <4>1. /\ pc[p] \in Trying
            /\ \E where \in Trying : pc' = [pc EXCEPT ![p] = where]
            /\ UNCHANGED <<result, seen, todo>>
        BY <2>4, <3>6 DEF Lookup, Create, Send, Record, Trying
      <4> QED
        BY <1>1, <2>1, <4>1 DEF SoundAt, PastReload, TypeOK
    <3>7. CASE StatementFails(p)
      BY <2>4, <3>7 DEF StatementFails, Trying
    <3> QED
      BY <1>3, <3>1, <3>2, <3>3, <3>4, <3>5, <3>6, <3>7 DEF CheckStep
  <2> QED
    BY <2>2, <2>3, <2>4
<1> QED
  BY <1>2, <1>3

(* The records change for the alert in hand only.                          *)
LEMMA ExpiryStep ==
  ASSUME SoundInv, NEW p \in Checks, CheckStep(p) \/ StatementFails(p)
  PROVE  ExpiryNeverAnnounced'
<1>1. TypeOK /\ SoundAt(p) /\ LocalTypes /\ ExpiryNeverAnnounced
  BY TypeParts DEF SoundInv, ReadingsSound
<1>2. CASE delivery' = delivery
  BY <1>1, <1>2 DEF ExpiryNeverAnnounced
<1>3. CASE delivery' # delivery
  <2>1. Create(p) \/ Record(p)
    BY <1>3 DEF CheckStep, ReadDomain, Dial, Commit, Reload, ReadPolicies, ReadEndpoints, Lookup,
       Send, StatementFails, outVars
  <2>2. todo[p] # <<>>
    BY <1>1, <2>1 DEF Create, Record, TypeOK
  <2>3. AlertInHand(p).event # Expired
    BY <1>1, <2>2, AlertInHandTyped DEF AlertInHand, SoundAt
  <2>4. \A a \in Alerts : a # AlertInHand(p) => delivery'[a] = delivery[a]
    BY <1>1, <2>1 DEF Create, Record, TypeOK
  <2> QED
    BY <1>1, <2>3, <2>4 DEF ExpiryNeverAnnounced
<1> QED
  BY <1>2, <1>3

LEMMA InitSound == Init => SoundInv
<1> SUFFICES ASSUME Init
             PROVE  SoundInv
  OBVIOUS
<1>1. TypeOK
  BY InitTyped
<1>2. ReadingsSound
  BY DEF Init, ReadingsSound, SoundAt, Sound, NoReading, PastReload, Trying
<1>3. ExpiryNeverAnnounced
  BY DEF Init, ExpiryNeverAnnounced
<1> QED
  BY <1>1, <1>2, <1>3 DEF SoundInv

LEMMA SoundInvHolds == Spec => []SoundInv
<1>1. SoundInv /\ [Next]_vars => SoundInv'
  <2> SUFFICES ASSUME SoundInv, [Next]_vars
               PROVE  SoundInv'
    OBVIOUS
  <2>0. TypeOK /\ TypeOK'
    BY NextTyped DEF SoundInv
  <2>1. CASE \E p \in Checks : CheckStep(p) \/ StatementFails(p)
    <3>1. PICK p \in Checks : CheckStep(p) \/ StatementFails(p)
      BY <2>1
    <3>2. OthersHold(p)
      BY <2>0, <3>1, StepsLeaveOthers
    <3>3. \A q \in Checks \ {p} : SoundAt(q)'
      BY <3>2 DEF OthersHold, SoundInv, ReadingsSound, SoundAt
    <3> QED
      BY <2>0, <3>1, <3>3, SoundStep, ExpiryStep DEF SoundInv, ReadingsSound
  <2>2. CASE Crash
    <3>1. ReadingsSound'
      BY <2>2 DEF Crash, SoundInv, ReadingsSound, SoundAt, Sound, NoReading, PastReload, Trying, rowVars
    <3> QED
      BY <2>0, <2>2, <3>1 DEF Crash, SoundInv, ExpiryNeverAnnounced, outVars
  <2>3. CASE OutsideStep \/ \E p \in Checks : ContextCancelled(p)
    <3>1. UNCHANGED <<pc, result, seen, todo, delivery>> /\ (row' = row \/ row' = Deleted)
      BY <2>3 DEF OutsideStep, NextDay, Renew, UpsertTenantPolicy, UpsertOverride, DeleteDomain,
         ChangeEndpoint, Edit, ContextCancelled, rowVars, vars, localVars, outVars
    <3>2. ReadingsSound'
      BY <3>1 DEF SoundInv, ReadingsSound, SoundAt
    <3> QED
      BY <2>0, <3>1, <3>2 DEF SoundInv, ExpiryNeverAnnounced
  <2> QED
    BY <2>1, <2>2, <2>3 DEF Next, OutsideStep
<1> QED
  BY <1>1, InitSound, PTL DEF Spec

(* No alert says that a certificate has expired, although the notifier has *)
(* an event for it (Checker.Check against computeEvents).                  *)
THEOREM NoExpiryIsAnnounced == Spec => []ExpiryNeverAnnounced
<1>1. SoundInv => ExpiryNeverAnnounced
  BY DEF SoundInv
<1> QED
  BY <1>1, SoundInvHolds, PTL

-----------------------------------------------------------------------------
(* What an alert that was called for and has no record yet still has going *)
(* for it: a check that will reload the row, will compute the event from   *)
(* what it has read, or has it in its plan.                                *)
Owes(p, a) ==
  \/ /\ pc[p] = "reload" /\ row # Deleted /\ row.status = "healthy"
     /\ a \in CalledFor(previous[p], row)
  \/ /\ pc[p] = "policy"
     /\ a \in CalledFor(previous[p], seen[p])
  \/ /\ pc[p] = "endpoints" /\ policy[p] = EffectivePolicy
     /\ a \in CalledFor(previous[p], seen[p])
  \/ /\ pc[p] \in Trying /\ seen[p].expires = a.expires
     /\ [event |-> a.event, endpoint |-> a.endpoint] \in Elements(todo[p])

(* Without faults and without one check meeting another, the row is still  *)
(* what the check that is going to write it has read, and an alert without *)
(* a record is owed by some check.                                         *)
RowIsHeld == \A p \in Checks : pc[p] \in {"dial", "commit"} => previous[p] = row

NoneLost ==
  \A a \in crossed : delivery[a] # "none" \/ \E p \in Checks : Owes(p, a)

LossInv ==
  /\ SoundInv
  /\ FaultsCounted
  /\ faults = 0 /\ ~mixed => RowIsHeld /\ NoneLost

(* The alert a step of check p leaves to the others.                       *)
LEMMA OthersStillOwe ==
  ASSUME NEW p \in Checks, OthersHold(p), NEW q \in Checks \ {p}, NEW a,
         UNCHANGED <<tenantPolicy, override, endpoint>>,
         row' = row \/ pc[q] # "reload", Owes(q, a)
  PROVE  Owes(q, a)'
<1>1. EffectivePolicy' = EffectivePolicy
  BY DEF EffectivePolicy
<1>2. CalledFor(previous[q], seen[q])' = CalledFor(previous[q], seen[q])
  BY <1>1 DEF CalledFor, OthersHold
<1>3. row' = row => CalledFor(previous[q], row)' = CalledFor(previous[q], row)
  BY <1>1 DEF CalledFor, OthersHold
<1> QED
  BY <1>1, <1>2, <1>3 DEF Owes, OthersHold

(* What a change of the readings calls for is among the events that the    *)
(* check computes from them, for one of its targets.                       *)
LEMMA CalledForIsPlanned ==
  ASSUME SoundInv, NEW p \in Checks, pc[p] = "endpoints", policy[p] = EffectivePolicy,
         NEW a \in Alerts, a \in CalledFor(previous[p], seen[p])
  PROVE  /\ a.endpoint \in Targets(p)
         /\ a.event \in Elements(EventsOf(p))
         /\ a.expires = seen[p].expires
<1> DEFINE values == policy[p].thresholds
           old == previous[p]
           new == seen[p]
<1>1. LocalTypes /\ SoundAt(p)
  BY TypeParts DEF SoundInv, ReadingsSound
<1>2. new.status = "healthy" /\ new.days \in Nat /\ new.days # Nil
  BY <1>1, CheckNotifyAssumption DEF SoundAt, Sound, PastReload
<1>3. values \in Seq(Int) /\ Elements(EventsOf(p)) = Announced(old.status, old.days, new.status, new.days, values)
  BY <1>1, <1>2, EventsTyped
<1>4. a.endpoint \in Targets(p) /\ a.expires = new.expires
  BY DEF CalledFor, Targets
<1>5. \/ /\ old.days # Nil
         /\ \E i \in DOMAIN values :
              LET t == values[i] IN
              t >= 0 /\ a.event = Threshold(t) /\ old.days > t /\ t >= new.days
      \/ old.status = "error" /\ a.event = Recovered
  BY DEF CalledFor
<1>6. CASE old.status = "error" /\ a.event = Recovered
  BY <1>2, <1>3, <1>4, <1>6 DEF Announced
<1>7. ASSUME old.days # Nil,
             NEW i \in DOMAIN values, values[i] >= 0, a.event = Threshold(values[i]),
             old.days > values[i], values[i] >= new.days
      PROVE  a.event \in Elements(EventsOf(p))
  <2>1. values[i] \in Int
    BY <1>3, <1>7
  <2>2. new.days <= values[i]
    BY <1>2, <1>7, <2>1
  <2>3. values[i] \in Crossed(old.days, new.days, values)
    BY <1>7, <2>2 DEF Crossed, NormalizeThresholds
  <2> QED
    BY <1>3, <1>7, <2>3 DEF Announced
<1> QED
  BY <1>4, <1>5, <1>6, <1>7

(* The next delivery: only the alert in hand is no longer owed.            *)
LEMMA NextDeliveryOwes ==
  ASSUME TypeOK, NEW p \in Checks, pc[p] \in Trying, NextDelivery(p),
         NEW a \in Alerts, a # AlertInHand(p), Owes(p, a)
  PROVE  Owes(p, a)'
<1> DEFINE x == [event |-> a.event, endpoint |-> a.endpoint]
           rest == Tail(todo[p])
<1>1. LocalTypes /\ todo[p] # <<>>
  BY TypeParts DEF TypeOK, Trying
<1>2. PICK i \in DOMAIN todo[p] : todo[p][i] = x
  BY DEF Owes, Trying, Elements
<1>3. seen[p].expires = a.expires
  BY DEF Owes, Trying
<1>4. i # 1
  <2> SUFFICES ASSUME i = 1
               PROVE  FALSE
    OBVIOUS
  <2>1. Head(todo[p]) = x
    BY <1>1, <1>2, AlertInHandTyped
  <2>2. AlertInHand(p) = [endpoint |-> a.endpoint, event |-> a.event, expires |-> a.expires]
    BY <1>3, <2>1 DEF AlertInHand
  <2>3. a = [endpoint |-> a.endpoint, event |-> a.event, expires |-> a.expires]
    BY DEF Alerts
  <2> QED
    BY <2>2, <2>3
<1>5. i - 1 \in DOMAIN rest /\ rest[i - 1] = todo[p][i]
  BY <1>1, <1>2, <1>4 DEF TypeOK
<1>6. rest # <<>>
  BY <1>5
<1>7. /\ todo' = [todo EXCEPT ![p] = rest]
      /\ pc' = [pc EXCEPT ![p] = "lookup"]
      /\ UNCHANGED seen
  BY <1>6 DEF NextDelivery
<1> HIDE DEF rest
<1>8. todo'[p] = rest /\ pc'[p] = "lookup" /\ seen'[p] = seen[p]
  BY <1>7 DEF TypeOK
<1>9. x \in Elements(todo'[p])
  BY <1>2, <1>5, <1>8 DEF Elements
<1> QED
  BY <1>3, <1>8, <1>9 DEF Owes, Trying

(* A step of a check whose context lives settles what it owed or goes on   *)
(* owing it.                                                               *)
LEMMA DeliveryStillOwes ==
  ASSUME SoundInv, NEW p \in Checks, p \notin dead,
         Lookup(p) \/ Create(p) \/ Send(p) \/ Record(p),
         NEW a \in Alerts, Owes(p, a)
  PROVE  delivery'[a] # "none" \/ Owes(p, a)'
<1>1. TypeOK /\ pc[p] \in Trying
  BY DEF SoundInv, Trying, Lookup, Create, Send, Record
<1>2. todo[p] # <<>>
  BY <1>1 DEF TypeOK, Trying
<1>3. CASE NextDelivery(p)
  <2>1. delivery'[AlertInHand(p)] # "none"
    <3>1. AlertInHand(p) \in Alerts
      BY <1>1, <1>2, TypeParts, AlertInHandTyped
    <3>2. CASE Lookup(p)
      BY <1>1, <1>3, <3>2 DEF Lookup, NextDelivery, Return, TypeOK, outVars
    <3>3. CASE Create(p)
      BY <1>1, <1>3, <3>3 DEF Create, NextDelivery, Return, TypeOK
    <3>4. CASE Send(p)
      BY <1>1, <1>3, <3>4 DEF Send, NextDelivery, Return, TypeOK
    <3>5. CASE Record(p)
      BY <1>1, <3>1, <3>5 DEF Record, TypeOK
    <3> QED
      BY <3>2, <3>3, <3>4, <3>5
  <2> QED
    BY <1>1, <1>3, <2>1, NextDeliveryOwes
<1>4. CASE ~NextDelivery(p)
  <2>1. /\ \E where \in Trying : pc' = [pc EXCEPT ![p] = where]
        /\ UNCHANGED <<seen, todo>>
    BY <1>4 DEF Lookup, Create, Send, Record, Trying
  <2> QED
    BY <1>1, <2>1 DEF Owes, TypeOK, Trying
<1> QED
  BY <1>3, <1>4

LEMMA ReadingStillOwes ==
  ASSUME SoundInv, NEW p \in Checks, p \notin dead,
         ReadDomain(p) \/ Dial(p) \/ Reload(p) \/ ReadPolicies(p) \/ ReadEndpoints(p),
         NEW a \in Alerts, Owes(p, a)
  PROVE  Owes(p, a)'
<1>1. TypeOK /\ UNCHANGED <<row, tenantPolicy, override, endpoint>>
  BY DEF SoundInv, ReadDomain, Dial, Reload, ReadPolicies, ReadEndpoints, Outside
<1>2. CASE ReadDomain(p) \/ Dial(p)
  BY <1>2 DEF ReadDomain, Dial, Owes, Trying
<1>3. EffectivePolicy' = EffectivePolicy
  BY <1>1 DEF EffectivePolicy
<1>5. CASE Reload(p)
  <2>1. pc[p] = "reload" /\ row # Deleted /\ row.status = "healthy" /\ a \in CalledFor(previous[p], row)
    BY <1>5 DEF Reload, Owes, Trying
  <2>2. seen'[p] = row /\ pc'[p] = "policy" /\ previous' = previous
    BY <1>1, <1>5, <2>1 DEF Reload, TypeOK
  <2>3. a \in CalledFor(previous[p], seen[p])'
    BY <1>1, <1>3, <2>1, <2>2 DEF CalledFor
  <2> QED
    BY <2>2, <2>3 DEF Owes
<1>6. CASE ReadPolicies(p)
  <2>1. pc[p] = "policy" /\ a \in CalledFor(previous[p], seen[p])
    BY <1>6 DEF ReadPolicies, Owes, Trying
  <2>2. EffectivePolicy.endpoints # {}
    BY <2>1 DEF CalledFor
  <2>3. policy' = [policy EXCEPT ![p] = EffectivePolicy] /\ pc' = [pc EXCEPT ![p] = "endpoints"]
        /\ UNCHANGED <<previous, seen>>
    BY <1>6, <2>2 DEF ReadPolicies
  <2>4. policy'[p] = EffectivePolicy' /\ pc'[p] = "endpoints"
    BY <1>1, <1>3, <2>3 DEF TypeOK
  <2>5. a \in CalledFor(previous[p], seen[p])'
    BY <1>1, <1>3, <2>1, <2>3 DEF CalledFor
  <2> QED
    BY <2>4, <2>5 DEF Owes
<1>7. CASE ReadEndpoints(p)
  <2>1. /\ pc[p] = "endpoints" /\ policy[p] = EffectivePolicy
        /\ a \in CalledFor(previous[p], seen[p])
    BY <1>7 DEF ReadEndpoints, Owes, Trying
  <2>2. /\ a.endpoint \in Targets(p)
        /\ a.event \in Elements(EventsOf(p))
        /\ a.expires = seen[p].expires
    BY <2>1, CalledForIsPlanned
  <2>3. EventsOf(p) # <<>>
    BY <2>2 DEF Elements
  <2>4. pc' = [pc EXCEPT ![p] = "lookup"]
    BY <1>7, <2>2, <2>3 DEF ReadEndpoints
  <2>5. ~Return(p)
    BY <1>1, <2>4 DEF Return, TypeOK
  <2>6. /\ pc'[p] = "lookup" /\ UNCHANGED seen
        /\ [event |-> a.event, endpoint |-> a.endpoint] \in Elements(todo'[p])
    BY <1>1, <1>7, <2>1, <2>2, <2>5, PlansAreSound DEF SoundInv, ReadingsSound
  <2> QED
    BY <2>2, <2>6 DEF Owes, Trying
<1> QED
  BY <1>2, <1>5, <1>6, <1>7

(* The commit: the one step that calls for alerts.                         *)
LEMMA CommitKeepsLoss ==
  ASSUME SoundInv, RowIsHeld, NoneLost, NEW p \in Checks, p \notin dead, Commit(p), ~mixed'
  PROVE  RowIsHeld' /\ NoneLost'
<1>1. /\ TypeOK /\ OthersHold(p)
      /\ pc[p] = "commit" /\ previous[p] = row
  BY StepsLeaveOthers DEF SoundInv, CheckStep, RowIsHeld, Commit
<1>2. /\ row' = IF row = Deleted THEN Deleted ELSE Recorded(result[p])
      /\ mixed' = (mixed \/ \E q \in Busy \ {p} : pc[q] \in {"dial", "commit", "reload"})
      /\ crossed' = {a \in crossed \cup CalledFor(row, result[p]) :
                       delivery[a] \notin {"sent", "failed"}}
      /\ pc' = [pc EXCEPT ![p] = "reload"]
      /\ UNCHANGED <<previous, result, seen, policy, todo, accepted, dead>>
      /\ UNCHANGED <<Outside, outVars>>
  BY DEF Commit
<1>3. \A q \in Checks \ {p} : pc[q] \notin {"dial", "commit", "reload"}
  BY <1>2 DEF Busy
<1>4. pc'[p] = "reload" /\ previous'[p] = row /\ delivery' = delivery
      /\ UNCHANGED <<tenantPolicy, override, endpoint>>
  BY <1>1, <1>2 DEF TypeOK, outVars, Outside
<1>5. RowIsHeld'
  BY <1>1, <1>3, <1>4 DEF RowIsHeld, OthersHold
<1>6. ASSUME NEW a \in crossed', delivery[a] = "none"
      PROVE  \E q \in Checks : Owes(q, a)'
  <2>1. CASE a \in crossed
    <3>1. PICK q \in Checks : Owes(q, a)
      BY <1>6, <2>1 DEF NoneLost
    <3>2. q # p /\ pc[q] # "reload"
      BY <1>1, <1>3, <3>1 DEF Owes, Trying
    <3> QED
      BY <1>1, <1>4, <3>1, <3>2, OthersStillOwe
  <2>2. CASE a \in CalledFor(row, result[p])
    <3>1. row # Deleted /\ result[p].status = "healthy"
      BY <2>2 DEF CalledFor
    <3>2. row' = result[p]
      BY <1>2, <3>1 DEF Recorded
    <3>3. row' # Deleted
      <4>1. result[p] \in Readings
        BY <1>1 DEF TypeOK
      <4>2. Deleted.status # "healthy"
        BY DEF Deleted
      <4> QED
        BY <3>1, <3>2, <4>2
    <3>4. EffectivePolicy' = EffectivePolicy
      BY <1>4 DEF EffectivePolicy
    <3>5. a \in CalledFor(previous[p], row)'
      BY <1>4, <2>2, <3>2, <3>4 DEF CalledFor
    <3> QED
      BY <1>4, <3>1, <3>2, <3>3, <3>5 DEF Owes
  <2> QED
    BY <1>2, <2>1, <2>2
<1>7. NoneLost'
  BY <1>4, <1>6 DEF NoneLost
<1> QED
  BY <1>5, <1>7

LEMMA CheckStepKeepsLoss ==
  ASSUME SoundInv, RowIsHeld, NoneLost, NEW p \in Checks, p \notin dead, CheckStep(p), ~mixed'
  PROVE  RowIsHeld' /\ NoneLost'
<1>1. TypeOK /\ OthersHold(p)
  BY StepsLeaveOthers DEF SoundInv
<1>2. CASE Commit(p)
  BY <1>2, CommitKeepsLoss
<1>3. CASE ~Commit(p)
  <2>1. UNCHANGED <<row, tenantPolicy, override, endpoint, crossed>>
    BY <1>3 DEF CheckStep, ReadDomain, Dial, Reload, ReadPolicies, ReadEndpoints, Lookup,
       Create, Send, Record, DeliverUntouched, Outside
  <2>2. pc'[p] \in {"dial", "commit"} => previous'[p] = row
    <3>1. CASE Return(p)
      BY <1>1, <3>1 DEF Return, TypeOK
    <3>2. CASE NextDelivery(p)
      BY <1>1, <3>1, <3>2 DEF NextDelivery, TypeOK
    <3>3. CASE ~Return(p) /\ ~NextDelivery(p)
      BY <1>1, <1>3, <3>3 DEF CheckStep, ReadDomain, Dial, Reload, ReadPolicies, ReadEndpoints,
         Lookup, Create, Send, Record, TypeOK, RowIsHeld
    <3> QED
      BY <3>1, <3>2, <3>3
  <2>3. RowIsHeld'
    BY <1>1, <2>1, <2>2 DEF RowIsHeld, OthersHold
  <2>4. \A a \in Alerts : delivery[a] # "none" => delivery'[a] # "none"
    BY <1>1, <1>3 DEF CheckStep, ReadDomain, Dial, Reload, ReadPolicies, ReadEndpoints, Lookup,
       Create, Send, Record, TypeOK, outVars
  <2>5. ASSUME NEW a \in crossed, delivery'[a] = "none"
        PROVE  \E q \in Checks : Owes(q, a)'
    <3>1. a \in Alerts
      BY <1>1 DEF TypeOK
    <3>2. PICK q \in Checks : Owes(q, a)
      BY <2>4, <2>5, <3>1 DEF NoneLost
    <3>3. CASE q = p
      BY <1>3, <2>5, <3>1, <3>2, <3>3, ReadingStillOwes, DeliveryStillOwes DEF CheckStep
    <3>4. CASE q # p
      BY <1>1, <2>1, <3>2, <3>4, OthersStillOwe
    <3> QED
      BY <3>3, <3>4
  <2>6. NoneLost'
    BY <2>1, <2>5 DEF NoneLost
  <2> QED
    BY <2>3, <2>6
<1> QED
  BY <1>2, <1>3

(* The world outside: a day, another certificate, an edit while no check   *)
(* runs.                                                                   *)
LEMMA OutsideKeepsLoss ==
  ASSUME RowIsHeld, NoneLost, OutsideStep, ~mixed'
  PROVE  RowIsHeld' /\ NoneLost'
<1>1. UNCHANGED <<pc, previous, seen, policy, todo, delivery, crossed>>
  BY DEF OutsideStep, NextDay, Renew, UpsertTenantPolicy, UpsertOverride, DeleteDomain,
     ChangeEndpoint, Edit, vars, localVars, outVars
<1>2. CASE UNCHANGED <<row, tenantPolicy, override, endpoint>>
  <2>1. \A q \in Checks : \A a : Owes(q, a)' = Owes(q, a)
    <3> SUFFICES ASSUME NEW q \in Checks, NEW a
                 PROVE  Owes(q, a)' = Owes(q, a)
      OBVIOUS
    <3>1. EffectivePolicy' = EffectivePolicy
      BY <1>2 DEF EffectivePolicy
    <3>2. CalledFor(previous[q], seen[q])' = CalledFor(previous[q], seen[q])
      BY <1>1, <1>2, <3>1 DEF CalledFor
    <3>3. CalledFor(previous[q], row)' = CalledFor(previous[q], row)
      BY <1>1, <1>2, <3>1 DEF CalledFor
    <3> QED
      BY <1>1, <1>2, <3>1, <3>2, <3>3 DEF Owes
  <2> QED
    BY <1>1, <1>2, <2>1 DEF RowIsHeld, NoneLost
<1>3. CASE ~UNCHANGED <<row, tenantPolicy, override, endpoint>>
  <2>1. Edit
    BY <1>3 DEF OutsideStep, NextDay, Renew, UpsertTenantPolicy, UpsertOverride, DeleteDomain,
       ChangeEndpoint, vars, rowVars
  <2>2. \A q \in Checks : pc[q] = "idle"
    BY <2>1 DEF Edit, Busy
  <2>3. \A q \in Checks : \A a : ~Owes(q, a)
    BY <2>2 DEF Owes, Trying
  <2> QED
    BY <1>1, <2>2, <2>3 DEF RowIsHeld, NoneLost
<1> QED
  BY <1>2, <1>3

LEMMA LossInvHolds == Spec => []LossInv
<1>1. Init => LossInv
  BY InitSound DEF LossInv, Init, FaultsCounted, RowIsHeld, NoneLost
<1>2. SoundInv /\ SoundInv' /\ LossInv /\ [Next]_vars => LossInv'
  <2> SUFFICES ASSUME SoundInv, SoundInv', LossInv, [Next]_vars
               PROVE  LossInv'
    OBVIOUS
  <2>1. FaultsCounted /\ TypeOK
    BY DEF LossInv, SoundInv
  <2>2. CASE OutsideStep
    <3>1. faults' = faults /\ dead' = dead
      BY <2>2, OutsideStepsMoveNothing
    <3>2. ~mixed' => ~mixed
      BY <2>2 DEF OutsideStep, NextDay, Renew, UpsertTenantPolicy,
         UpsertOverride, DeleteDomain, ChangeEndpoint, Edit, vars
    <3> QED
      BY <2>1, <2>2, <3>1, <3>2, OutsideKeepsLoss DEF LossInv, FaultsCounted
  <2>3. CASE Crash \/ \E p \in Checks : StatementFails(p) \/ ContextCancelled(p)
    <3>1. faults' = faults + 1
      BY <2>3 DEF Crash, StatementFails, ContextCancelled
    <3>2. faults' \in Nat /\ faults' > 0
      BY <2>1, <3>1 DEF FaultsCounted
    <3> QED
      BY <3>2 DEF LossInv, FaultsCounted
  <2>4. ASSUME NEW p \in Checks, CheckStep(p)
        PROVE  LossInv'
    <3>1. faults' = faults /\ dead' \in SUBSET dead
      <4>1. Return(p) => dead' \in SUBSET dead
        BY DEF Return
      <4>2. NextDelivery(p) => dead' \in SUBSET dead
        BY <4>1 DEF NextDelivery
      <4> QED
        BY <2>4, <4>1, <4>2 DEF CheckStep, ReadDomain, Dial, Commit, Reload, ReadPolicies,
           ReadEndpoints, Lookup, Create, Send, Record, DeliverUntouched, Outside, boundVars
    <3>2. ~mixed' => ~mixed
      BY <2>4 DEF CheckStep, ReadDomain, Dial, Commit, Reload, ReadPolicies,
         ReadEndpoints, Lookup, Create, Send, Record, DeliverUntouched
    <3>3. FaultsCounted'
      BY <2>1, <3>1 DEF FaultsCounted
    <3>4. faults' = 0 /\ ~mixed' => RowIsHeld' /\ NoneLost'
      BY <2>1, <2>4, <3>1, <3>2, CheckStepKeepsLoss DEF LossInv, FaultsCounted
    <3> QED
      BY <3>3, <3>4 DEF LossInv
  <2> QED
    BY <2>2, <2>3, <2>4 DEF Next, OutsideStep
<1> QED
  BY <1>1, <1>2, SoundInvHolds, PTL DEF Spec

(* Every alert that a recorded reading calls for has a delivery that was   *)
(* tried by the time no check runs, unless something failed or two checks, *)
(* or a check and an edit, met half-way (processDomain with MaybeNotify).  *)
THEOREM NoAlertIsLost == Spec => []NoAlertLost
<1>1. LossInv /\ NoPendingLeftBehind => NoAlertLost
  <2> SUFFICES ASSUME LossInv, NoPendingLeftBehind, Busy = {}, faults = 0, ~mixed, NEW a \in crossed
               PROVE  delivery[a] \in {"sent", "failed"}
    BY DEF NoAlertLost
  <2>1. \A p \in Checks : pc[p] = "idle"
    BY DEF Busy
  <2>2. a \in Alerts /\ delivery[a] \in {"none", "pending", "sent", "failed"}
    BY DEF LossInv, SoundInv, TypeOK
  <2>3. delivery[a] # "none"
    BY <2>1 DEF LossInv, NoneLost, Owes, Trying
  <2>4. delivery[a] # "pending"
    BY <2>1, <2>2 DEF NoPendingLeftBehind, Holds
  <2> QED
    BY <2>2, <2>3, <2>4
<1> QED
  BY <1>1, LossInvHolds, PendingIsHeldOrBroken, PTL
=============================================================================
