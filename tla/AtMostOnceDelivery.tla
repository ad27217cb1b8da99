------------------------- MODULE AtMostOnceDelivery -------------------------
(***************************************************************************)
(* What the notifier promises of an alert, whoever works on it: it is      *)
(* claimed once, it arrives at most once and only while its claim is open, *)
(* it is called sent only if it arrived, and what is settled stays so.  It *)
(* promises no more: a claim may stay open for ever.                       *)
(***************************************************************************)
EXTENDS Naturals

CONSTANT Alerts

VARIABLES
  delivery,   \* [Alerts -> "none" | "pending" | "sent" | "failed"]
  arrived     \* [Alerts -> number of times the alert reached its endpoint]

Init ==
  /\ delivery = [a \in Alerts |-> "none"]
  /\ arrived = [a \in Alerts |-> 0]

Claim(a) ==
  /\ delivery[a] = "none"
  /\ delivery' = [delivery EXCEPT ![a] = "pending"]
  /\ UNCHANGED arrived

Arrive(a) ==
  /\ delivery[a] = "pending"
  /\ arrived[a] = 0
  /\ arrived' = [arrived EXCEPT ![a] = 1]
  /\ UNCHANGED delivery

Settle(a) ==
  /\ delivery[a] = "pending"
  /\ \/ arrived[a] = 1 /\ delivery' = [delivery EXCEPT ![a] = "sent"]
     \/ delivery' = [delivery EXCEPT ![a] = "failed"]
  /\ UNCHANGED arrived

Next == \E a \in Alerts : Claim(a) \/ Arrive(a) \/ Settle(a)

Spec == Init /\ [][Next]_<<delivery, arrived>>
=============================================================================
