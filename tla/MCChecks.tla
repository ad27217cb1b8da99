------------------------------ MODULE MCChecks ------------------------------
(***************************************************************************)
(* Checks in four parts, of which a behaviour is one: two checks of a      *)
(* domain that overlap, the crossings of any list of thresholds as the     *)
(* certificate is read again and again, one check that tells two           *)
(* endpoints, and the claims of a backlog twice the size of a batch.       *)
(***************************************************************************)
EXTENDS CheckNotify, AlertingHistory, TLC

CONSTANTS
  LoneCheck, BothEndpoints, Expiries,   \* the check that tells two endpoints
  Domains, Tenants, Owner, Intervals, Workers, Requests, NoDomain,   \* the backlog
  QueueFactor, BatchFactor, MaxNow,
  MaxOrderFaults, MaxOrderEdits

VARIABLES
  part,   \* the part whose behaviour this is
  now, loopFaults, loopEdits, domainRow, interval, suspended, status,
  nextCheckAt, lastCheckedAt, cancelled, stopped, loopPc, loopNow, batch,
  readInterval, jobs, blocked, procPc, dom, outcome, checkedAt, nextAt, period,
  gone, owed, overtakes

orderVars == <<now, loopFaults, loopEdits, domainRow, interval, suspended,
               status, nextCheckAt, lastCheckedAt, cancelled, stopped, loopPc,
               loopNow, batch, readInterval, jobs, blocked, procPc, dom,
               outcome, checkedAt, nextAt, period, gone, owed, overtakes>>
allVars == <<part, orderVars, vars, historyVars>>

(* Up to three thresholds, in any order, with repetitions and a negative   *)
(* one.                                                                    *)
Lists       == UNION {[1 .. n -> -1 .. 3] : n \in 0 .. 3}
Days        == -2 .. 4
DefaultList == {<<30, 7, 1>>}
OneOwner    == [d \in Domains |-> CHOOSE t \in Tenants : TRUE]
Symmetry    == Permutations(Checks) \cup Permutations(Domains)

TwoEndpoints == INSTANCE CheckNotify WITH
  Checks <- LoneCheck, Endpoints <- BothEndpoints, Certs <- Expiries
Order == INSTANCE SchedulerOrder WITH
  MaxFaults <- MaxOrderFaults, MaxEdits <- MaxOrderEdits,
  faults <- loopFaults, edits <- loopEdits, row <- domainRow, pc <- procPc

(* The values suit every part.                                             *)
ASSUME MCChecksValues ==
  TwoEndpoints!CheckNotifyAssumption /\ Order!SchedulerAssumption

(* The variables of a part that does not move.                             *)
Unused == 0
NoOrder ==
  /\ now = Unused /\ loopFaults = Unused /\ loopEdits = Unused
  /\ domainRow = Unused /\ interval = Unused /\ suspended = Unused
  /\ status = Unused /\ nextCheckAt = Unused /\ lastCheckedAt = Unused
  /\ cancelled = Unused /\ stopped = Unused /\ loopPc = Unused
  /\ loopNow = Unused /\ batch = Unused /\ readInterval = Unused
  /\ jobs = Unused /\ blocked = Unused /\ procPc = Unused /\ dom = Unused
  /\ outcome = Unused /\ checkedAt = Unused /\ nextAt = Unused
  /\ period = Unused /\ gone = Unused /\ owed = Unused /\ overtakes = Unused
NoCheck ==
  /\ day = Unused /\ served = Unused /\ renewals = Unused /\ faults = Unused
  /\ edits = Unused /\ row = Unused /\ tenantPolicy = Unused
  /\ override = Unused /\ endpoint = Unused /\ delivery = Unused /\ pc = Unused
  /\ previous = Unused /\ result = Unused /\ seen = Unused
  /\ policy = Unused /\ todo = Unused /\ accepted = Unused /\ dead = Unused
  /\ arrived = Unused /\ mixed = Unused /\ crossed = Unused
NoHistory ==
  /\ thresholds = Unused /\ first = Unused /\ last = Unused
  /\ announced = Unused

Parts == {"order", "overlap", "endpoints", "history"}

SumInit ==
  /\ part \in Parts
  /\ IF part = "order" THEN Order!OrderInit ELSE NoOrder
  /\ CASE part = "overlap" -> Init
       [] part = "endpoints" -> TwoEndpoints!Init
       [] OTHER -> NoCheck
  /\ IF part = "history" THEN HistoryInit ELSE NoHistory

(* One part moves, the others are not there.                               *)
SumNext ==
  \/ part = "order" /\ Order!OrderNext /\ UNCHANGED <<part, vars, historyVars>>
  \/ part = "overlap" /\ Next /\ UNCHANGED <<part, orderVars, historyVars>>
  \/ part = "endpoints" /\ TwoEndpoints!Next /\ UNCHANGED <<part, orderVars, historyVars>>
  \/ part = "history" /\ HistoryNext /\ UNCHANGED <<part, orderVars, vars>>

SumSpec == SumInit /\ [][SumNext]_allVars

-----------------------------------------------------------------------------
(* A backlog longer than the batch starves nobody: while a due domain      *)
(* waits, no other domain is claimed more than twice, unless a late result *)
(* undid one of its claims (ORDER BY next_check_at ASC with LIMIT, against *)
(* the claims and results that move next_check_at).                        *)
BoundedOvertaking == part = "order" => Order!BoundedOvertaking

(* When a recorded reading passes a threshold or ends an outage, every     *)
(* enabled endpoint of the policy in force gets a delivery that is tried,  *)
(* by the time no check runs, be there two checks that overlap or two      *)
(* endpoints to tell; what loses one is what NoAlertLost names             *)
(* (processDomain with MaybeNotify).                                       *)
EveryAlertIsTried ==
  /\ part = "overlap" => NoAlertLost
  /\ part = "endpoints" => TwoEndpoints!NoAlertLost

(* What is announced is what was passed. However the checks are spaced,    *)
(* and whatever the tenant entered, every threshold between the first      *)
(* reading and the latest is announced exactly once; and no alert says     *)
(* that a certificate has expired: the handshake with an expired one       *)
(* fails, so the check is an error, and errors are announced only when     *)
(* they end (computeThresholdCrossings, normalizeThresholds; Checker.Check *)
(* against computeEvents, which has an event for it).                      *)
OnlyPassingsAnnounced ==
  /\ part = "history" => EachThresholdOnce
  /\ part = "overlap" => ExpiryNeverAnnounced
=============================================================================
