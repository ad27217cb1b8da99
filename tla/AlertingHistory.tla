--------------------------- MODULE AlertingHistory ---------------------------
(***************************************************************************)
(* One certificate read by one successful check after another, with any    *)
(* number of days between them: what the crossings of the single checks    *)
(* add up to, for every list of thresholds a tenant may save.              *)
(***************************************************************************)
EXTENDS Alerting

CONSTANTS
  DaysRange,       \* the days remaining a check may read
  ThresholdInputs  \* the threshold lists as the tenant enters them

ASSUME AlertingHistoryAssumption ==
  /\ DaysRange \subseteq Int
  /\ ThresholdInputs \subseteq Seq(Int)
  /\ Nil \notin Int

VARIABLES
  thresholds,  \* the list of the policy, as entered
  first,       \* days remaining at the first reading
  last,        \* days remaining at the latest one
  announced    \* [threshold -> how many crossings of it were reported]

historyVars == <<thresholds, first, last, announced>>

Values == {thresholds[i] : i \in DOMAIN thresholds}

CountIn(t, crossings) == Cardinality({i \in DOMAIN crossings : crossings[i] = t})

Report(previous, days) ==
  announced' = [t \in Values |->
                  announced[t] + CountIn(t, ComputeThresholdCrossings(previous, days, thresholds))]

HistoryInit ==
  /\ thresholds \in ThresholdInputs
  /\ first = Nil
  /\ last = Nil
  /\ announced = [t \in Values |-> 0]

FirstReading ==
  /\ first = Nil
  /\ \E days \in DaysRange :
       /\ first' = days
       /\ last' = days
       /\ Report(Nil, days)
  /\ UNCHANGED thresholds

LaterReading ==
  /\ first # Nil
  /\ \E days \in {d \in DaysRange : d <= last} :
       /\ last' = days
       /\ Report(last, days)
  /\ UNCHANGED <<thresholds, first>>

HistoryNext == FirstReading \/ LaterReading

HistorySpec == HistoryInit /\ [][HistoryNext]_historyVars

(* However the checks are spaced, and whatever the tenant entered, every   *)
(* threshold between the first reading and the latest is announced exactly *)
(* once; of those the first reading was already behind, the nearest alone; *)
(* a negative value never (computeThresholdCrossings, normalizeThresholds).*)
Nearest(t) == first <= t /\ \A u \in Values : first <= u /\ u >= 0 => t <= u

EachThresholdOnce ==
  first # Nil =>
    \A t \in Values :
      announced[t] =
        IF t >= 0 /\ (Nearest(t) \/ (first > t /\ t >= last)) THEN 1 ELSE 0
=============================================================================
