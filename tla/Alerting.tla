------------------------------ MODULE Alerting ------------------------------
(***************************************************************************)
(* What a check gives rise to: the pure part of the notifier, from the     *)
(* status and the days remaining before and after a check to the list of   *)
(* events to announce.                                                     *)
(***************************************************************************)
EXTENDS Integers, Sequences, FiniteSets

CONSTANT Nil   \* days_remaining of a domain no check has reached

Threshold(t) == [type |-> "threshold_reached", days |-> t]
Expired      == [type |-> "expired", days |-> 0]
Recovered    == [type |-> "recovered", days |-> 0]

(* The elements of a finite set of numbers as a sorted list.               *)
Ascending(S) ==
  CHOOSE s \in [1 .. Cardinality(S) -> S] :
    \A i, j \in 1 .. Cardinality(S) : i < j => s[i] < s[j]

(* The values that count: without the negative ones and the repetitions.   *)
NormalizeThresholds(values) ==
  {v \in {values[i] : i \in DOMAIN values} : v >= 0}

(* Mutant: a threshold is crossed only when it lies behind.                *)
CrossingsLate(previous, current, thresholds) ==
  LET normalized == NormalizeThresholds(thresholds) IN
  IF previous = Nil
  THEN Ascending({t \in normalized : current <= t})
  ELSE Ascending({t \in normalized : previous > t /\ current < t})

(* A first reading announces the nearest threshold alone; after that every *)
(* threshold that lies between the two readings.                           *)
ComputeThresholdCrossings(previous, current, thresholds) ==
  LET reached == {t \in NormalizeThresholds(thresholds) : current <= t}
  IN  Ascending(IF previous = Nil
                THEN {t \in reached : \A u \in reached : t <= u}
                ELSE {t \in reached : previous > t})

ComputeEvents(previousStatus, previousDays, status, days, thresholds) ==
  LET crossings == ComputeThresholdCrossings(previousDays, days, thresholds)
      ranOut    == (IF previousDays = Nil THEN TRUE ELSE previousDays >= 0) /\ days < 0
      recovers  == previousStatus = "error" /\ status = "healthy"
  IN  IF days = Nil
      THEN <<>>
      ELSE [i \in DOMAIN crossings |-> Threshold(crossings[i])]
           \o (IF ranOut THEN <<Expired>> ELSE <<>>)
           \o (IF recovers THEN <<Recovered>> ELSE <<>>)
=============================================================================
