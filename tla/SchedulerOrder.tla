--------------------------- MODULE SchedulerOrder ---------------------------
(***************************************************************************)
(* The order in which the scheduler's loop serves due domains when a       *)
(* dispatch cannot take all of them: the Scheduler with a history variable *)
(* that counts, for every domain that waits to be claimed, how often each  *)
(* other domain is claimed meanwhile.                                      *)
(***************************************************************************)
EXTENDS Scheduler

VARIABLE overtakes    \* [waiting domain -> [other domain -> claims]]

OrderInit == Init /\ overtakes = [e \in Domains |-> [d \in Domains |-> 0]]

Waiting(e) == Eligible(e) /\ nextCheckAt[e] <= now

(* The step that leads from "claim" to "handoff" claims the head.          *)
ClaimStep(d) == loopPc = "claim" /\ loopPc' = "handoff" /\ Head(batch) = d

(* A result that was obtained before the latest claim and recorded after   *)
(* it puts next_check_at back: the claim is undone.                        *)
ClaimUndone(d) == nextCheckAt'[d] < nextCheckAt[d]

(* The waiting ends with a claim, or with a result some other check gets.  *)
Served(e) == nextCheckAt'[e] # nextCheckAt[e]

CountOvertakes ==
  overtakes' =
    [e \in Domains |-> [d \in Domains |->
      IF Served(e) \/ ~Waiting(e) \/ ~Waiting(e)' \/ ClaimUndone(d) THEN 0
      ELSE IF ClaimStep(d) THEN overtakes[e][d] + 1 ELSE overtakes[e][d]]]

OrderNext == Next /\ CountOvertakes
OrderSpec == OrderInit /\ [][OrderNext]_<<vars, overtakes>>

(* A backlog longer than the batch starves nobody: while a due domain      *)
(* waits, no other domain is claimed more than twice, unless a late result *)
(* undid one of its claims (ORDER BY next_check_at ASC with LIMIT, against *)
(* the claims and results that move next_check_at).                        *)
BoundedOvertaking == \A e, d \in Domains : overtakes[e][d] <= 2
=============================================================================
