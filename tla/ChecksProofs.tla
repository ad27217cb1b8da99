----------------------------- MODULE ChecksProofs -----------------------------
(***************************************************************************)
(* The properties of the run "checks", for every value of the constants.   *)
(* A behaviour of that run is one of its four parts, so each follows from  *)
(* the theorem about its component: for two checks that overlap and for    *)
(* one that tells two endpoints from CheckNotifyProofs, for the order of   *)
(* service from SchedulerProofs.  The readings of one certificate are      *)
(* proved here.                                                            *)
(***************************************************************************)
EXTENDS MCChecks, CheckNotifyProofs

-----------------------------------------------------------------------------
(* The readings of one certificate.                                        *)
LEMMA CountInAscending ==
  ASSUME NEW S \in SUBSET Int, IsFiniteSet(S), NEW t
  PROVE  CountIn(t, Ascending(S)) = IF t \in S THEN 1 ELSE 0
<1> DEFINE s == Ascending(S)
           places == {i \in DOMAIN s : s[i] = t}
<1>1. /\ \A i, j \in DOMAIN s : s[i] = s[j] => i = j
      /\ Elements(s) = S
  BY AscendingHasAll
<1> HIDE DEF s
<1>2. CASE t \in S
  <2>1. PICK i \in DOMAIN s : s[i] = t
    BY <1>1, <1>2 DEF Elements
  <2>2. places = {i}
    BY <1>1, <2>1
  <2>3. Cardinality({i}) = 1
    BY FS_Singleton
  <2> QED
    BY <1>2, <2>2, <2>3 DEF CountIn, s
<1>3. CASE t \notin S
  <2>1. places = {}
    BY <1>1, <1>3 DEF Elements
  <2> QED
    BY <1>3, <2>1, FS_EmptySet DEF CountIn, s
<1> QED
  BY <1>2, <1>3

HistoryInv ==
  /\ thresholds \in ThresholdInputs
  /\ first = Nil <=> last = Nil
  /\ first # Nil => first \in DaysRange /\ last \in DaysRange /\ last <= first
  /\ announced \in [Values -> Nat]
  /\ first = Nil => \A t \in Values : announced[t] = 0
  /\ EachThresholdOnce

LEMMA ReportCounts ==
  ASSUME HistoryInv, NEW prior, NEW days \in DaysRange, Report(prior, days)
  PROVE  /\ announced' \in [Values -> Nat]
         /\ \A t \in Values :
              announced'[t] = announced[t] + IF t \in Crossed(prior, days, thresholds) THEN 1 ELSE 0
<1>1. thresholds \in Seq(Int) /\ days \in Int
  BY AlertingHistoryAssumption DEF HistoryInv
<1> DEFINE C == Crossed(prior, days, thresholds)
<1>2. ComputeThresholdCrossings(prior, days, thresholds) = Ascending(C) /\ C \in SUBSET Int /\ IsFiniteSet(C)
  BY <1>1, CrossingsAreCrossed
<1>3. \A t : CountIn(t, Ascending(C)) = IF t \in C THEN 1 ELSE 0
  BY <1>2, CountInAscending
<1>4. announced' = [t \in Values |-> announced[t] + IF t \in C THEN 1 ELSE 0]
  BY <1>2, <1>3 DEF Report
<1> QED
  BY <1>4 DEF HistoryInv

LEMMA FirstReadingCounts ==
  ASSUME HistoryInv, FirstReading
  PROVE  HistoryInv'
<1>1. PICK days \in DaysRange : first' = days /\ last' = days /\ Report(Nil, days)
  BY DEF FirstReading
<1>2. thresholds' = thresholds /\ Values' = Values /\ first = Nil
  BY DEF FirstReading, Values
<1>3. /\ announced' \in [Values -> Nat]
      /\ \A t \in Values :
           announced'[t] = announced[t] + IF t \in Crossed(Nil, days, thresholds) THEN 1 ELSE 0
  BY <1>1, ReportCounts
<1>4. days \in Int /\ days # Nil /\ thresholds \in Seq(Int) /\ Values \in SUBSET Int
  BY AlertingHistoryAssumption DEF HistoryInv, Values
<1>5. ASSUME NEW t \in Values
      PROVE  announced'[t] = IF t >= 0 /\ (Nearest(t)' \/ (first' > t /\ t >= last')) THEN 1 ELSE 0
  <2>1. announced[t] = 0
    BY <1>2 DEF HistoryInv
  <2>2. t \in Int
    BY <1>4
  <2>3. t \in Crossed(Nil, days, thresholds) <=> t >= 0 /\ Nearest(t)'
    <3>1. NormalizeThresholds(thresholds) = {v \in Values : v >= 0}
      BY DEF NormalizeThresholds, Values
    <3> QED
      BY <1>1, <1>2, <3>1 DEF Crossed, Nearest
  <2>4. ~(first' > t /\ t >= last')
    BY <1>1, <1>4, <2>2
  <2> QED
    BY <1>3, <2>1, <2>3, <2>4
<1>6. EachThresholdOnce'
  BY <1>2, <1>5 DEF EachThresholdOnce
<1> QED
  BY <1>1, <1>2, <1>3, <1>4, <1>6 DEF HistoryInv

LEMMA LaterReadingCounts ==
  ASSUME HistoryInv, LaterReading
  PROVE  HistoryInv'
<1>1. PICK days \in DaysRange : days <= last /\ last' = days /\ Report(last, days)
  BY DEF LaterReading
<1>2. thresholds' = thresholds /\ Values' = Values /\ first' = first /\ first # Nil
  BY DEF LaterReading, Values
<1>3. /\ announced' \in [Values -> Nat]
      /\ \A t \in Values :
           announced'[t] = announced[t] + IF t \in Crossed(last, days, thresholds) THEN 1 ELSE 0
  BY <1>1, ReportCounts
<1>4. /\ days \in Int /\ days # Nil /\ thresholds \in Seq(Int) /\ Values \in SUBSET Int
      /\ first \in Int /\ last \in Int /\ last <= first /\ last # Nil
      /\ first \in DaysRange
  <2>1. thresholds \in Seq(Int) /\ Values \in SUBSET Int
    BY AlertingHistoryAssumption DEF HistoryInv, Values
  <2>2. first \in DaysRange /\ last \in DaysRange /\ last <= first /\ last # Nil
    BY <1>2 DEF HistoryInv
  <2> QED
    BY <2>1, <2>2, AlertingHistoryAssumption
<1>5. ASSUME NEW t \in Values
      PROVE  announced'[t] = IF t >= 0 /\ (Nearest(t) \/ (first > t /\ t >= days)) THEN 1 ELSE 0
  <2>1. announced[t] = IF t >= 0 /\ (Nearest(t) \/ (first > t /\ t >= last)) THEN 1 ELSE 0
    BY <1>2 DEF HistoryInv, EachThresholdOnce
  <2>2. t \in Int
    BY <1>4
  <2>3. t \in Crossed(last, days, thresholds) <=> t >= 0 /\ days <= t /\ last > t
    <3>1. NormalizeThresholds(thresholds) = {v \in Values : v >= 0}
      BY DEF NormalizeThresholds, Values
    <3> QED
      BY <1>4, <3>1 DEF Crossed
  <2>4. Nearest(t) => first <= t
    BY DEF Nearest
  <2> QED
    BY <1>1, <1>3, <1>4, <2>1, <2>2, <2>3, <2>4
<1>6. EachThresholdOnce'
  <2>1. \A t : Nearest(t)' <=> Nearest(t)
    BY <1>2 DEF Nearest
  <2> QED
    BY <1>1, <1>2, <1>5, <2>1 DEF EachThresholdOnce
<1>7. last' <= first'
  BY <1>1, <1>2, <1>4
<1> QED
  BY <1>1, <1>2, <1>3, <1>4, <1>6, <1>7 DEF HistoryInv

LEMMA HistoryInitInv == HistoryInit => HistoryInv
BY DEF HistoryInit, HistoryInv, EachThresholdOnce

LEMMA HistoryNextInv == HistoryInv /\ [HistoryNext]_historyVars => HistoryInv'
<1> SUFFICES ASSUME HistoryInv, [HistoryNext]_historyVars
             PROVE  HistoryInv'
  OBVIOUS
<1>1. CASE UNCHANGED historyVars
  BY <1>1 DEF HistoryInv, historyVars, EachThresholdOnce, Nearest, Values
<1> QED
  BY <1>1, FirstReadingCounts, LaterReadingCounts DEF HistoryNext

(* However the checks of one certificate are spaced, every threshold       *)
(* between the first reading and the latest is counted exactly once        *)
(* (computeThresholdCrossings, normalizeThresholds).                       *)
THEOREM HistoryCountsOnce == HistorySpec => []EachThresholdOnce
<1>1. HistoryInv => EachThresholdOnce
  BY DEF HistoryInv
<1> QED
  BY <1>1, HistoryInitInv, HistoryNextInv, PTL DEF HistorySpec

-----------------------------------------------------------------------------
(* The parts of the run.                                                   *)
TwoProofs == INSTANCE CheckNotifyProofs WITH
  Checks <- LoneCheck, Endpoints <- BothEndpoints, Certs <- Expiries
OrderProofs == INSTANCE SchedulerProofs WITH
  MaxFaults <- MaxOrderFaults, MaxEdits <- MaxOrderEdits,
  faults <- loopFaults, edits <- loopEdits, row <- domainRow, pc <- procPc

LEMMA PartsAreFixed ==
  ASSUME NEW P \in Parts
  PROVE  /\ part = P /\ [SumNext]_allVars => part' = P
         /\ part # P /\ [SumNext]_allVars => part' # P
BY DEF SumNext, allVars

LEMMA OverlapIsCheckNotify ==
  /\ SumInit /\ part = "overlap" => Init
  /\ part = "overlap" /\ [SumNext]_allVars => [Next]_vars
BY DEF SumInit, SumNext, allVars

LEMMA HistoryIsAlertingHistory ==
  /\ SumInit /\ part = "history" => HistoryInit
  /\ part = "history" /\ [SumNext]_allVars => [HistoryNext]_historyVars
BY DEF SumInit, SumNext, allVars

LEMMA EndpointsAreCheckNotify ==
  /\ SumInit /\ part = "endpoints" => TwoEndpoints!Init
  /\ part = "endpoints" /\ [SumNext]_allVars => [TwoEndpoints!Next]_TwoEndpoints!vars
BY DEF SumInit, SumNext, allVars, vars, TwoEndpoints!vars, rowVars, outVars,
   localVars, boundVars, TwoEndpoints!rowVars, TwoEndpoints!outVars,
   TwoEndpoints!localVars, TwoEndpoints!boundVars

LEMMA OrderProofsAgree ==
 /\ Order!OrderInit <=> OrderProofs!OrderInit
 /\ Order!OrderNext <=> OrderProofs!OrderNext
 /\ Order!BoundedOvertaking <=> OrderProofs!BoundedOvertaking
<1>1. Order!OrderInit <=> OrderProofs!OrderInit
  BY DEF Order!OrderInit, OrderProofs!OrderInit, Order!Init, OrderProofs!Init,
     Order!Never, OrderProofs!Never, Order!AnyInterval, OrderProofs!AnyInterval,
     Order!Procs, OrderProofs!Procs
<1>2. Order!BoundedOvertaking <=> OrderProofs!BoundedOvertaking
  BY DEF Order!BoundedOvertaking, OrderProofs!BoundedOvertaking
<1>3. Order!CountOvertakes <=> OrderProofs!CountOvertakes
  BY DEF Order!CountOvertakes, OrderProofs!CountOvertakes, Order!ClaimStep,
     OrderProofs!ClaimStep, Order!ClaimUndone, OrderProofs!ClaimUndone,
     Order!Waiting, OrderProofs!Waiting, Order!Eligible, OrderProofs!Eligible,
     Order!Served, OrderProofs!Served
<1>4. Order!Next <=> OrderProofs!Next
  <2>1. Order!Tick <=> OrderProofs!Tick
    BY DEF Order!Tick, OrderProofs!Tick, Order!dbVars, OrderProofs!dbVars,
       Order!stopVars, OrderProofs!stopVars, Order!loopVars, OrderProofs!loopVars,
       Order!procVars, OrderProofs!procVars
  <2>2. \A d \in Domains : Order!CreateDomain(d) <=> OrderProofs!CreateDomain(d)
    BY DEF Order!CreateDomain, OrderProofs!CreateDomain, Order!stopVars,
       OrderProofs!stopVars, Order!loopVars, OrderProofs!loopVars, Order!procVars,
       OrderProofs!procVars
  <2>3. \A d \in Domains : Order!UpdateDomain(d) <=> OrderProofs!UpdateDomain(d)
    BY DEF Order!UpdateDomain, OrderProofs!UpdateDomain, Order!stopVars,
       OrderProofs!stopVars, Order!loopVars, OrderProofs!loopVars, Order!procVars,
       OrderProofs!procVars
  <2>4. \A d \in Domains : Order!DeleteDomain(d) <=> OrderProofs!DeleteDomain(d)
    BY DEF Order!DeleteDomain, OrderProofs!DeleteDomain, Order!stopVars,
       OrderProofs!stopVars, Order!loopVars, OrderProofs!loopVars, Order!procVars,
       OrderProofs!procVars
  <2>5. \A t \in Tenants : Order!SetTenantDisabled(t) <=> OrderProofs!SetTenantDisabled(t)
    BY DEF Order!SetTenantDisabled, OrderProofs!SetTenantDisabled, Order!stopVars,
       OrderProofs!stopVars, Order!loopVars, OrderProofs!loopVars, Order!procVars,
       OrderProofs!procVars
  <2>6. Order!LoopQuery <=> OrderProofs!LoopQuery
    <3>1. Order!Batches = OrderProofs!Batches
      BY DEF Order!Batches, OrderProofs!Batches, Order!Smaller, OrderProofs!Smaller,
         Order!Due, OrderProofs!Due, Order!BatchLimit, OrderProofs!BatchLimit,
         Order!IsBatch, OrderProofs!IsBatch, Order!Eligible, OrderProofs!Eligible,
         Order!Cardinality, OrderProofs!Cardinality, Order!IsFiniteSet,
         OrderProofs!IsFiniteSet
    <3> QED
      BY <3>1 DEF Order!LoopQuery, OrderProofs!LoopQuery, Order!LoopGoesOn,
         OrderProofs!LoopGoesOn, Order!LoopHolds, OrderProofs!LoopHolds,
         Order!LoopUntouched, OrderProofs!LoopUntouched, Order!AnyInterval,
         OrderProofs!AnyInterval, Order!stopVars, OrderProofs!stopVars,
         Order!procVars, OrderProofs!procVars
  <2>7. Order!LoopClaim <=> OrderProofs!LoopClaim
    BY DEF Order!LoopClaim, OrderProofs!LoopClaim, Order!LoopGoesOn,
       OrderProofs!LoopGoesOn, Order!Claimable, OrderProofs!Claimable,
       Order!LoopUntouched, OrderProofs!LoopUntouched, Order!LoopHolds,
       OrderProofs!LoopHolds, Order!stopVars, OrderProofs!stopVars, Order!procVars,
       OrderProofs!procVars, Order!AnyInterval, OrderProofs!AnyInterval
  <2>8. Order!HandoffSend <=> OrderProofs!HandoffSend
    BY DEF Order!HandoffSend, OrderProofs!HandoffSend, Order!JobsCap,
       Order!Cardinality, OrderProofs!Cardinality, Order!IsFiniteSet,
       OrderProofs!IsFiniteSet, OrderProofs!JobsCap, Order!LoopGoesOn,
       OrderProofs!LoopGoesOn, Order!LoopUntouched, OrderProofs!LoopUntouched,
       Order!LoopHolds, OrderProofs!LoopHolds, Order!stopVars,
       OrderProofs!stopVars, Order!procVars, OrderProofs!procVars,
       Order!AnyInterval, OrderProofs!AnyInterval
  <2>9. Order!HandoffSpawn <=> OrderProofs!HandoffSpawn
    BY DEF Order!HandoffSpawn, OrderProofs!HandoffSpawn, Order!JobsCap,
       Order!Cardinality, OrderProofs!Cardinality, Order!IsFiniteSet,
       OrderProofs!IsFiniteSet, OrderProofs!JobsCap, Order!LoopGoesOn,
       OrderProofs!LoopGoesOn, Order!LoopUntouched, OrderProofs!LoopUntouched,
       Order!LoopHolds, OrderProofs!LoopHolds, Order!stopVars,
       OrderProofs!stopVars, Order!procVars, OrderProofs!procVars,
       Order!AnyInterval, OrderProofs!AnyInterval
  <2>10. Order!HandoffCancelled <=> OrderProofs!HandoffCancelled
    BY DEF Order!HandoffCancelled, OrderProofs!HandoffCancelled,
       Order!LoopGoesOn, OrderProofs!LoopGoesOn, Order!LoopUntouched,
       OrderProofs!LoopUntouched, Order!LoopHolds, OrderProofs!LoopHolds,
       Order!stopVars, OrderProofs!stopVars, Order!procVars,
       OrderProofs!procVars, Order!AnyInterval, OrderProofs!AnyInterval
  <2>11. Order!LoopStatementFails <=> OrderProofs!LoopStatementFails
    BY DEF Order!LoopStatementFails, OrderProofs!LoopStatementFails,
       Order!LoopGoesOn, OrderProofs!LoopGoesOn, Order!dbVars,
       OrderProofs!dbVars, Order!stopVars, OrderProofs!stopVars, Order!procVars,
       OrderProofs!procVars, Order!LoopHolds, OrderProofs!LoopHolds,
       Order!AnyInterval, OrderProofs!AnyInterval
  <2>12. Order!LoopWake <=> OrderProofs!LoopWake
    BY DEF Order!LoopWake, OrderProofs!LoopWake, Order!dbVars, OrderProofs!dbVars,
       Order!stopVars, OrderProofs!stopVars, Order!procVars, OrderProofs!procVars
  <2>13. Order!LoopExit <=> OrderProofs!LoopExit
    BY DEF Order!LoopExit, OrderProofs!LoopExit, Order!dbVars, OrderProofs!dbVars,
       Order!stopVars, OrderProofs!stopVars, Order!procVars, OrderProofs!procVars
  <2>14. \A d \in Domains : Order!EnqueuerSend(d) <=> OrderProofs!EnqueuerSend(d)
    BY DEF Order!EnqueuerSend, OrderProofs!EnqueuerSend, Order!JobsCap,
       Order!Cardinality, OrderProofs!Cardinality, Order!IsFiniteSet,
       OrderProofs!IsFiniteSet, OrderProofs!JobsCap, Order!dbVars,
       OrderProofs!dbVars, Order!stopVars, OrderProofs!stopVars, Order!loopVars,
       OrderProofs!loopVars, Order!procVars, OrderProofs!procVars
  <2>15. \A d \in Domains : Order!EnqueuerQuit(d) <=> OrderProofs!EnqueuerQuit(d)
    BY DEF Order!EnqueuerQuit, OrderProofs!EnqueuerQuit, Order!dbVars,
       OrderProofs!dbVars, Order!stopVars, OrderProofs!stopVars, Order!loopVars,
       OrderProofs!loopVars, Order!procVars, OrderProofs!procVars
  <2>16. \A w \in Workers : Order!WorkerTake(w) <=> OrderProofs!WorkerTake(w)
    BY DEF Order!WorkerTake, OrderProofs!WorkerTake, Order!dbVars,
       OrderProofs!dbVars, Order!stopVars, OrderProofs!stopVars, Order!loopVars,
       OrderProofs!loopVars
  <2>17. \A w \in Workers : Order!WorkerExit(w) <=> OrderProofs!WorkerExit(w)
    BY DEF Order!WorkerExit, OrderProofs!WorkerExit, Order!dbVars,
       OrderProofs!dbVars, Order!stopVars, OrderProofs!stopVars, Order!loopVars,
       OrderProofs!loopVars
  <2>18. \A r \in Requests : Order!ClientLeaves(r) <=> OrderProofs!ClientLeaves(r)
    BY DEF Order!ClientLeaves, OrderProofs!ClientLeaves, Order!dbVars,
       OrderProofs!dbVars, Order!stopVars, OrderProofs!stopVars, Order!loopVars,
       OrderProofs!loopVars, Order!procVars, OrderProofs!procVars
  <2>19. \A r \in Requests, d \in Domains : Order!RequestCheck(r,d) <=> OrderProofs!RequestCheck(r,d)
    BY DEF Order!RequestCheck, OrderProofs!RequestCheck, Order!dbVars,
       OrderProofs!dbVars, Order!stopVars, OrderProofs!stopVars, Order!loopVars,
       OrderProofs!loopVars
  <2>20. \A p : Order!ReadDomain(p) <=> OrderProofs!ReadDomain(p)
    BY DEF Order!ReadDomain, OrderProofs!ReadDomain, Order!Dead,
       OrderProofs!Dead, Order!Return, OrderProofs!Return, Order!Advance,
       OrderProofs!Advance, Order!ProcUntouched, OrderProofs!ProcUntouched,
       Order!dbVars, OrderProofs!dbVars, Order!AnyInterval,
       OrderProofs!AnyInterval, Order!stopVars, OrderProofs!stopVars,
       Order!loopVars, OrderProofs!loopVars
  <2>21. \A p : Order!ReadTenant(p) <=> OrderProofs!ReadTenant(p)
    BY DEF Order!ReadTenant, OrderProofs!ReadTenant, Order!Dead,
       OrderProofs!Dead, Order!Return, OrderProofs!Return, Order!Advance,
       OrderProofs!Advance, Order!ProcUntouched, OrderProofs!ProcUntouched,
       Order!dbVars, OrderProofs!dbVars, Order!AnyInterval,
       OrderProofs!AnyInterval, Order!stopVars, OrderProofs!stopVars,
       Order!loopVars, OrderProofs!loopVars
  <2>22. \A p : Order!Dial(p) <=> OrderProofs!Dial(p)
    BY DEF Order!Dial, OrderProofs!Dial, Order!Dead, OrderProofs!Dead,
       Order!Advance, OrderProofs!Advance, Order!ProcUntouched,
       OrderProofs!ProcUntouched, Order!dbVars, OrderProofs!dbVars,
       Order!stopVars, OrderProofs!stopVars, Order!loopVars,
       OrderProofs!loopVars
  <2>23. \A p : Order!Commit(p) <=> OrderProofs!Commit(p)
    BY DEF Order!Commit, OrderProofs!Commit, Order!Dead, OrderProofs!Dead,
       Order!Return, OrderProofs!Return, Order!dbVars, OrderProofs!dbVars,
       Order!Record, OrderProofs!Record, Order!Advance, OrderProofs!Advance,
       Order!ProcUntouched, OrderProofs!ProcUntouched, Order!AnyInterval,
       OrderProofs!AnyInterval, Order!stopVars, OrderProofs!stopVars,
       Order!loopVars, OrderProofs!loopVars
  <2>24. \A p : Order!Report(p) <=> OrderProofs!Report(p)
    BY DEF Order!Report, OrderProofs!Report, Order!Return, OrderProofs!Return,
       Order!ProcUntouched, OrderProofs!ProcUntouched, Order!dbVars,
       OrderProofs!dbVars, Order!AnyInterval, OrderProofs!AnyInterval,
       Order!stopVars, OrderProofs!stopVars, Order!loopVars,
       OrderProofs!loopVars
  <2>25. \A p : Order!ProcStatementFails(p) <=> OrderProofs!ProcStatementFails(p)
    BY DEF Order!ProcStatementFails, OrderProofs!ProcStatementFails,
       Order!Return, OrderProofs!Return, Order!ProcUntouched,
       OrderProofs!ProcUntouched, Order!dbVars, OrderProofs!dbVars,
       Order!AnyInterval, OrderProofs!AnyInterval, Order!stopVars,
       OrderProofs!stopVars, Order!loopVars, OrderProofs!loopVars
  <2>26. Order!Cancel <=> OrderProofs!Cancel
    BY DEF Order!Cancel, OrderProofs!Cancel, Order!dbVars, OrderProofs!dbVars,
       Order!loopVars, OrderProofs!loopVars, Order!procVars, OrderProofs!procVars
  <2>27. Order!StopReturns <=> OrderProofs!StopReturns
    BY DEF Order!StopReturns, OrderProofs!StopReturns, Order!dbVars,
       OrderProofs!dbVars, Order!loopVars, OrderProofs!loopVars, Order!procVars,
       OrderProofs!procVars
  <2>28. Order!Restart <=> OrderProofs!Restart
    BY DEF Order!Restart, OrderProofs!Restart, Order!AnyInterval,
       OrderProofs!AnyInterval, Order!Procs, OrderProofs!Procs, Order!dbVars,
       OrderProofs!dbVars
  <2>29. Order!Terminated <=> OrderProofs!Terminated
    BY DEF Order!Terminated, OrderProofs!Terminated, Order!vars, OrderProofs!vars,
       Order!dbVars, OrderProofs!dbVars, Order!stopVars, OrderProofs!stopVars,
       Order!loopVars, OrderProofs!loopVars, Order!procVars, OrderProofs!procVars
  <2> QED
    BY <2>1, <2>2, <2>3, <2>4, <2>5, <2>6, <2>7, <2>8, <2>9, <2>10, <2>11,
       <2>12, <2>13, <2>14, <2>15, <2>16, <2>17, <2>18, <2>19, <2>20, <2>21,
       <2>22, <2>23, <2>24, <2>25, <2>26, <2>27, <2>28, <2>29 DEF Order!Next,
       OrderProofs!Next, Order!LoopDispatches, OrderProofs!LoopDispatches,
       Order!ProcStep, OrderProofs!ProcStep, Order!Procs, OrderProofs!Procs
<1> QED
  BY <1>1, <1>2, <1>3, <1>4 DEF Order!OrderNext, OrderProofs!OrderNext

LEMMA OrderIsSchedulerOrder ==
  /\ SumInit /\ part = "order" => OrderProofs!OrderInit
  /\ part = "order" /\ [SumNext]_allVars => [OrderProofs!OrderNext]_<<OrderProofs!vars, overtakes>>
<1>1. SumInit /\ part = "order" => Order!OrderInit
  BY DEF SumInit
<1>2. part = "order" /\ [SumNext]_allVars => Order!OrderNext \/ UNCHANGED orderVars
  BY DEF SumNext, allVars
<1>3. UNCHANGED orderVars => UNCHANGED <<OrderProofs!vars, overtakes>>
  BY DEF orderVars, OrderProofs!vars, OrderProofs!dbVars, OrderProofs!stopVars,
     OrderProofs!loopVars, OrderProofs!procVars
<1> QED
  BY <1>1, <1>2, <1>3, OrderProofsAgree

LEMMA OrderValues == OrderProofs!SchedulerAssumption
BY MCChecksValues
   DEF Order!SchedulerAssumption, OrderProofs!SchedulerAssumption,
       Order!IsFiniteSet, OrderProofs!IsFiniteSet

(* While a due domain waits, no other is claimed more than twice           *)
(* (dispatchDueDomains).                                                   *)
THEOREM NobodyStarves == SumSpec => []BoundedOvertaking
<1> DEFINE P == part = "order"
<1>1. P /\ [SumNext]_allVars => P'
  BY PartsAreFixed DEF Parts
<1>2. ~P /\ [SumNext]_allVars => ~P'
  BY PartsAreFixed DEF Parts
<1>3. OrderProofs!OrderSpec => []OrderProofs!BoundedOvertaking
  BY OrderProofs!OvertakingIsBounded, OrderValues
<1>4. (P => OrderProofs!BoundedOvertaking) => BoundedOvertaking
  BY OrderProofsAgree DEF BoundedOvertaking
<1>5. SumInit /\ P => OrderProofs!OrderInit
  BY OrderIsSchedulerOrder
<1>6. P /\ [SumNext]_allVars => [OrderProofs!OrderNext]_<<OrderProofs!vars, overtakes>>
  BY OrderIsSchedulerOrder
<1> HIDE DEF P
<1> QED
  BY <1>1, <1>2, <1>3, <1>4, <1>5, <1>6, PTL DEF SumSpec, OrderProofs!OrderSpec

LEMMA TwoProofsAgree ==
  /\ TwoEndpoints!Init <=> TwoProofs!Init
  /\ TwoEndpoints!Next <=> TwoProofs!Next
  /\ TwoEndpoints!NoAlertLost <=> TwoProofs!NoAlertLost
<1>1. \A p : TwoEndpoints!EventsOf(p) = TwoProofs!EventsOf(p)
  BY DEF TwoEndpoints!EventsOf, TwoProofs!EventsOf, TwoEndpoints!ComputeEvents,
     TwoProofs!ComputeEvents, TwoEndpoints!ComputeThresholdCrossings,
     TwoProofs!ComputeThresholdCrossings, TwoEndpoints!Threshold,
     TwoProofs!Threshold, TwoEndpoints!Expired, TwoProofs!Expired,
     TwoEndpoints!Recovered, TwoProofs!Recovered,
     TwoEndpoints!NormalizeThresholds, TwoProofs!NormalizeThresholds,
     TwoEndpoints!Ascending, TwoProofs!Ascending, TwoEndpoints!Cardinality,
     TwoProofs!Cardinality, TwoEndpoints!IsFiniteSet, TwoProofs!IsFiniteSet
<1>2. \A S : TwoEndpoints!Orders(S) = TwoProofs!Orders(S)
  BY DEF TwoEndpoints!Orders, TwoProofs!Orders, TwoEndpoints!Cardinality,
     TwoProofs!Cardinality, TwoEndpoints!IsFiniteSet, TwoProofs!IsFiniteSet
<1>3. \A s, o : TwoEndpoints!Plan(s, o) = TwoProofs!Plan(s, o)
  BY DEF TwoEndpoints!Plan, TwoProofs!Plan
<1>4. \A o, r : TwoEndpoints!CalledFor(o, r) = TwoProofs!CalledFor(o, r)
  BY DEF TwoEndpoints!CalledFor, TwoProofs!CalledFor, TwoEndpoints!Alerts,
     TwoProofs!Alerts, TwoEndpoints!Deleted, TwoProofs!Deleted,
     TwoEndpoints!EffectivePolicy, TwoProofs!EffectivePolicy,
     TwoEndpoints!Threshold, TwoProofs!Threshold, TwoEndpoints!Recovered,
     TwoProofs!Recovered, TwoEndpoints!Events, TwoProofs!Events,
     TwoEndpoints!DefaultPolicy, TwoProofs!DefaultPolicy, TwoEndpoints!Expired,
     TwoProofs!Expired
<1>5. TwoEndpoints!Init <=> TwoProofs!Init
  BY DEF TwoEndpoints!Init, TwoProofs!Init, TwoEndpoints!NoReading,
     TwoProofs!NoReading, TwoEndpoints!Policies, TwoProofs!Policies,
     TwoEndpoints!Alerts, TwoProofs!Alerts, TwoEndpoints!DefaultPolicy,
     TwoProofs!DefaultPolicy, TwoEndpoints!Events, TwoProofs!Events,
     TwoEndpoints!Expired, TwoProofs!Expired, TwoEndpoints!Recovered,
     TwoProofs!Recovered, TwoEndpoints!Threshold, TwoProofs!Threshold
<1>6. TwoEndpoints!NoAlertLost <=> TwoProofs!NoAlertLost
  BY DEF TwoEndpoints!NoAlertLost, TwoProofs!NoAlertLost, TwoEndpoints!Busy,
     TwoProofs!Busy
<1>7. TwoEndpoints!NextDay <=> TwoProofs!NextDay
  BY DEF TwoEndpoints!NextDay, TwoProofs!NextDay, TwoEndpoints!boundVars,
     TwoProofs!boundVars, TwoEndpoints!rowVars, TwoProofs!rowVars,
     TwoEndpoints!outVars, TwoProofs!outVars, TwoEndpoints!localVars,
     TwoProofs!localVars
<1>8. TwoEndpoints!Renew <=> TwoProofs!Renew
  BY DEF TwoEndpoints!Renew, TwoProofs!Renew, TwoEndpoints!rowVars,
     TwoProofs!rowVars, TwoEndpoints!outVars, TwoProofs!outVars,
     TwoEndpoints!localVars, TwoProofs!localVars
<1>9. TwoEndpoints!UpsertTenantPolicy <=> TwoProofs!UpsertTenantPolicy
  BY DEF TwoEndpoints!UpsertTenantPolicy, TwoProofs!UpsertTenantPolicy,
     TwoEndpoints!Edit, TwoProofs!Edit, TwoEndpoints!Policies,
     TwoProofs!Policies, TwoEndpoints!Busy, TwoProofs!Busy,
     TwoEndpoints!outVars, TwoProofs!outVars, TwoEndpoints!localVars,
     TwoProofs!localVars
<1>10. TwoEndpoints!UpsertOverride <=> TwoProofs!UpsertOverride
  BY DEF TwoEndpoints!UpsertOverride, TwoProofs!UpsertOverride,
     TwoEndpoints!Edit, TwoProofs!Edit, TwoEndpoints!Policies,
     TwoProofs!Policies, TwoEndpoints!NormalizeThresholds,
     TwoProofs!NormalizeThresholds, TwoEndpoints!Busy, TwoProofs!Busy,
     TwoEndpoints!outVars, TwoProofs!outVars, TwoEndpoints!localVars,
     TwoProofs!localVars
<1>11. TwoEndpoints!DeleteDomain <=> TwoProofs!DeleteDomain
  BY DEF TwoEndpoints!DeleteDomain, TwoProofs!DeleteDomain, TwoEndpoints!Edit,
     TwoProofs!Edit, TwoEndpoints!Deleted, TwoProofs!Deleted, TwoEndpoints!Busy,
     TwoProofs!Busy, TwoEndpoints!outVars, TwoProofs!outVars,
     TwoEndpoints!localVars, TwoProofs!localVars
<1>12. \A e \in BothEndpoints : TwoEndpoints!ChangeEndpoint(e) <=> TwoProofs!ChangeEndpoint(e)
  BY DEF TwoEndpoints!ChangeEndpoint, TwoProofs!ChangeEndpoint,
     TwoEndpoints!Edit, TwoProofs!Edit, TwoEndpoints!Busy, TwoProofs!Busy,
     TwoEndpoints!outVars, TwoProofs!outVars, TwoEndpoints!localVars,
     TwoProofs!localVars
<1>13. \A p \in LoneCheck : TwoEndpoints!ReadDomain(p) <=> TwoProofs!ReadDomain(p)
  BY DEF TwoEndpoints!ReadDomain, TwoProofs!ReadDomain, TwoEndpoints!Deleted,
     TwoProofs!Deleted, TwoEndpoints!Outside, TwoProofs!Outside,
     TwoEndpoints!outVars, TwoProofs!outVars, TwoEndpoints!boundVars,
     TwoProofs!boundVars
<1>14. \A p \in LoneCheck : TwoEndpoints!Dial(p) <=> TwoProofs!Dial(p)
  BY DEF TwoEndpoints!Dial, TwoProofs!Dial, TwoEndpoints!Answers,
     TwoProofs!Answers, TwoEndpoints!Outside, TwoProofs!Outside,
     TwoEndpoints!outVars, TwoProofs!outVars, TwoEndpoints!Failure,
     TwoProofs!Failure, TwoEndpoints!Success, TwoProofs!Success,
     TwoEndpoints!boundVars, TwoProofs!boundVars
<1>15. \A p \in LoneCheck : TwoEndpoints!Commit(p) <=> TwoProofs!Commit(p)
  BY <1>4 DEF TwoEndpoints!Commit, TwoProofs!Commit, TwoEndpoints!Return,
     TwoProofs!Return, TwoEndpoints!Deleted, TwoProofs!Deleted,
     TwoEndpoints!Recorded, TwoProofs!Recorded, TwoEndpoints!Busy,
     TwoProofs!Busy, TwoEndpoints!Outside, TwoProofs!Outside,
     TwoEndpoints!outVars, TwoProofs!outVars, TwoEndpoints!NoReading,
     TwoProofs!NoReading, TwoEndpoints!DefaultPolicy, TwoProofs!DefaultPolicy,
     TwoEndpoints!boundVars, TwoProofs!boundVars
<1>16. \A p \in LoneCheck : TwoEndpoints!Reload(p) <=> TwoProofs!Reload(p)
  BY DEF TwoEndpoints!Reload, TwoProofs!Reload, TwoEndpoints!Deleted,
     TwoProofs!Deleted, TwoEndpoints!Return, TwoProofs!Return,
     TwoEndpoints!Outside, TwoProofs!Outside, TwoEndpoints!outVars,
     TwoProofs!outVars, TwoEndpoints!NoReading, TwoProofs!NoReading,
     TwoEndpoints!DefaultPolicy, TwoProofs!DefaultPolicy,
     TwoEndpoints!boundVars, TwoProofs!boundVars
<1>17. \A p \in LoneCheck : TwoEndpoints!ReadPolicies(p) <=> TwoProofs!ReadPolicies(p)
  BY DEF TwoEndpoints!ReadPolicies, TwoProofs!ReadPolicies,
     TwoEndpoints!EffectivePolicy, TwoProofs!EffectivePolicy,
     TwoEndpoints!Return, TwoProofs!Return, TwoEndpoints!Outside,
     TwoProofs!Outside, TwoEndpoints!outVars, TwoProofs!outVars,
     TwoEndpoints!DefaultPolicy, TwoProofs!DefaultPolicy,
     TwoEndpoints!NoReading, TwoProofs!NoReading, TwoEndpoints!boundVars,
     TwoProofs!boundVars
<1>18. \A p \in LoneCheck : TwoEndpoints!ReadEndpoints(p) <=> TwoProofs!ReadEndpoints(p)
  BY <1>1, <1>2, <1>3 DEF TwoEndpoints!ReadEndpoints, TwoProofs!ReadEndpoints,
     TwoEndpoints!Targets, TwoProofs!Targets, TwoEndpoints!Return,
     TwoProofs!Return, TwoEndpoints!Outside, TwoProofs!Outside,
     TwoEndpoints!outVars, TwoProofs!outVars, TwoEndpoints!NoReading,
     TwoProofs!NoReading, TwoEndpoints!DefaultPolicy, TwoProofs!DefaultPolicy,
     TwoEndpoints!boundVars, TwoProofs!boundVars
<1>19. \A p \in LoneCheck : TwoEndpoints!Lookup(p) <=> TwoProofs!Lookup(p)
  BY DEF TwoEndpoints!Lookup, TwoProofs!Lookup, TwoEndpoints!AlertInHand,
     TwoProofs!AlertInHand, TwoEndpoints!NextDelivery, TwoProofs!NextDelivery,
     TwoEndpoints!DeliverUntouched, TwoProofs!DeliverUntouched,
     TwoEndpoints!outVars, TwoProofs!outVars, TwoEndpoints!Return,
     TwoProofs!Return, TwoEndpoints!Outside, TwoProofs!Outside,
     TwoEndpoints!NoReading, TwoProofs!NoReading, TwoEndpoints!DefaultPolicy,
     TwoProofs!DefaultPolicy, TwoEndpoints!boundVars, TwoProofs!boundVars
<1>20. \A p \in LoneCheck : TwoEndpoints!Create(p) <=> TwoProofs!Create(p)
  BY DEF TwoEndpoints!Create, TwoProofs!Create, TwoEndpoints!AlertInHand,
     TwoProofs!AlertInHand, TwoEndpoints!NextDelivery, TwoProofs!NextDelivery,
     TwoEndpoints!DeliverUntouched, TwoProofs!DeliverUntouched,
     TwoEndpoints!Return, TwoProofs!Return, TwoEndpoints!Outside,
     TwoProofs!Outside, TwoEndpoints!NoReading, TwoProofs!NoReading,
     TwoEndpoints!DefaultPolicy, TwoProofs!DefaultPolicy,
     TwoEndpoints!boundVars, TwoProofs!boundVars
<1>21. \A p \in LoneCheck : TwoEndpoints!Send(p) <=> TwoProofs!Send(p)
  BY DEF TwoEndpoints!Send, TwoProofs!Send, TwoEndpoints!AlertInHand,
     TwoProofs!AlertInHand, TwoEndpoints!DeliverUntouched,
     TwoProofs!DeliverUntouched, TwoEndpoints!Outside, TwoProofs!Outside,
     TwoEndpoints!boundVars, TwoProofs!boundVars
<1>22. \A p \in LoneCheck : TwoEndpoints!Record(p) <=> TwoProofs!Record(p)
  BY DEF TwoEndpoints!Record, TwoProofs!Record, TwoEndpoints!AlertInHand,
     TwoProofs!AlertInHand, TwoEndpoints!NextDelivery, TwoProofs!NextDelivery,
     TwoEndpoints!DeliverUntouched, TwoProofs!DeliverUntouched,
     TwoEndpoints!Return, TwoProofs!Return, TwoEndpoints!Outside,
     TwoProofs!Outside, TwoEndpoints!NoReading, TwoProofs!NoReading,
     TwoEndpoints!DefaultPolicy, TwoProofs!DefaultPolicy,
     TwoEndpoints!boundVars, TwoProofs!boundVars
<1>23. \A p \in LoneCheck : TwoEndpoints!StatementFails(p) <=> TwoProofs!StatementFails(p)
  BY DEF TwoEndpoints!StatementFails, TwoProofs!StatementFails,
     TwoEndpoints!Return, TwoProofs!Return, TwoEndpoints!NextDelivery,
     TwoProofs!NextDelivery, TwoEndpoints!rowVars, TwoProofs!rowVars,
     TwoEndpoints!outVars, TwoProofs!outVars, TwoEndpoints!NoReading,
     TwoProofs!NoReading, TwoEndpoints!DefaultPolicy, TwoProofs!DefaultPolicy
<1>24. \A p \in LoneCheck : TwoEndpoints!ContextCancelled(p) <=> TwoProofs!ContextCancelled(p)
  BY DEF TwoEndpoints!ContextCancelled, TwoProofs!ContextCancelled,
     TwoEndpoints!Busy, TwoProofs!Busy, TwoEndpoints!rowVars, TwoProofs!rowVars,
     TwoEndpoints!outVars, TwoProofs!outVars
<1>25. TwoEndpoints!Crash <=> TwoProofs!Crash
  BY DEF TwoEndpoints!Crash, TwoProofs!Crash, TwoEndpoints!Busy, TwoProofs!Busy,
     TwoEndpoints!NoReading, TwoProofs!NoReading, TwoEndpoints!DefaultPolicy,
     TwoProofs!DefaultPolicy, TwoEndpoints!rowVars, TwoProofs!rowVars,
     TwoEndpoints!outVars, TwoProofs!outVars
<1>26. TwoEndpoints!Next <=> TwoProofs!Next
  BY <1>7, <1>8, <1>9, <1>10, <1>11, <1>12, <1>13, <1>14, <1>15, <1>16, <1>17,
     <1>18, <1>19, <1>20, <1>21, <1>22, <1>23, <1>24, <1>25 DEF
     TwoEndpoints!Next, TwoProofs!Next, TwoEndpoints!CheckStep,
     TwoProofs!CheckStep
<1> QED
  BY <1>5, <1>26, <1>6

LEMMA TwoValues == TwoProofs!CheckNotifyAssumption
BY MCChecksValues
   DEF TwoEndpoints!CheckNotifyAssumption, TwoProofs!CheckNotifyAssumption,
       TwoEndpoints!Policies, TwoProofs!Policies,
       TwoEndpoints!IsFiniteSet, TwoProofs!IsFiniteSet

LEMMA EndpointsIsTwoProofs ==
  /\ SumInit /\ part = "endpoints" => TwoProofs!Init
  /\ part = "endpoints" /\ [SumNext]_allVars => [TwoProofs!Next]_TwoProofs!vars
<1>1. TwoEndpoints!vars = TwoProofs!vars /\ TwoEndpoints!vars' = TwoProofs!vars'
  BY DEF TwoEndpoints!vars, TwoEndpoints!rowVars, TwoEndpoints!outVars,
     TwoEndpoints!localVars, TwoEndpoints!boundVars,
     TwoProofs!vars, TwoProofs!rowVars, TwoProofs!outVars, TwoProofs!localVars,
     TwoProofs!boundVars
<1> QED
  BY <1>1, EndpointsAreCheckNotify, TwoProofsAgree

(* Every alert a recorded reading calls for is tried, be there two checks  *)
(* that overlap or two endpoints to tell (processDomain with MaybeNotify). *)
THEOREM EveryAlertTried == SumSpec => []EveryAlertIsTried
<1> DEFINE P == part = "overlap"
           Q == part = "endpoints"
<1>1. /\ P /\ [SumNext]_allVars => P'
      /\ ~P /\ [SumNext]_allVars => ~P'
      /\ Q /\ [SumNext]_allVars => Q'
      /\ ~Q /\ [SumNext]_allVars => ~Q'
  BY PartsAreFixed DEF Parts
<1>2. /\ SumInit /\ P => Init
      /\ P /\ [SumNext]_allVars => [Next]_vars
  BY OverlapIsCheckNotify
<1>3. /\ SumInit /\ Q => TwoProofs!Init
      /\ Q /\ [SumNext]_allVars => [TwoProofs!Next]_TwoProofs!vars
  BY EndpointsIsTwoProofs
<1>4. Spec => []NoAlertLost
  BY NoAlertIsLost
<1>5. TwoProofs!Spec => []TwoProofs!NoAlertLost
  BY TwoProofs!NoAlertIsLost, TwoValues
<1>6. (P => NoAlertLost) /\ (Q => TwoProofs!NoAlertLost) => EveryAlertIsTried
  BY TwoProofsAgree DEF EveryAlertIsTried
<1> HIDE DEF P, Q
<1> QED
  BY <1>1, <1>2, <1>3, <1>4, <1>5, <1>6, PTL DEF SumSpec, Spec, TwoProofs!Spec

(* Every threshold passed is announced exactly once, and no alert says     *)
(* that a certificate has expired (computeThresholdCrossings against       *)
(* Checker.Check).                                                         *)
THEOREM PassingsAnnounced == SumSpec => []OnlyPassingsAnnounced
<1> DEFINE P == part = "overlap"
           Q == part = "history"
<1>1. /\ P /\ [SumNext]_allVars => P'
      /\ ~P /\ [SumNext]_allVars => ~P'
      /\ Q /\ [SumNext]_allVars => Q'
      /\ ~Q /\ [SumNext]_allVars => ~Q'
  BY PartsAreFixed DEF Parts
<1>2. /\ SumInit /\ P => Init
      /\ P /\ [SumNext]_allVars => [Next]_vars
  BY OverlapIsCheckNotify
<1>3. /\ SumInit /\ Q => HistoryInit
      /\ Q /\ [SumNext]_allVars => [HistoryNext]_historyVars
  BY HistoryIsAlertingHistory
<1>4. (P => ExpiryNeverAnnounced) /\ (Q => EachThresholdOnce) => OnlyPassingsAnnounced
  BY DEF OnlyPassingsAnnounced
<1> HIDE DEF P, Q
<1> QED
  BY <1>1, <1>2, <1>3, <1>4, NoExpiryIsAnnounced, HistoryCountsOnce, PTL
     DEF SumSpec, Spec, HistorySpec
=============================================================================
