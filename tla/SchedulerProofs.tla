--------------------------- MODULE SchedulerProofs ---------------------------
(***************************************************************************)
(* What the Scheduler's runs check on small instances, proved for every    *)
(* number of domains, tenants, workers and requests, every channel and     *)
(* batch size, and with no bound on the clock: the bounds MaxNow,          *)
(* MaxFaults and MaxEdits are arbitrary.                                   *)
(***************************************************************************)
EXTENDS SchedulerOrder, TLAPS, FiniteSetTheorems

USE SchedulerAssumption

(* The sizes of the channel and of a batch are natural numbers.            *)
LEMMA SizesAreNat == JobsCap \in Nat /\ BatchLimit \in Nat
<1>1. Cardinality(Workers) \in Nat
  BY FS_CardinalityType
<1> QED
  BY <1>1 DEF JobsCap, BatchLimit

(* Whatever the query answers is a sequence of domains.                    *)
LEMMA BatchesAreSeqs == Batches \subseteq Seq(Domains)
<1>1. IsFiniteSet(Due)
  BY FS_Subset DEF Due
<1>2. Cardinality(Due) \in Nat
  BY <1>1, FS_CardinalityType
<1>3. Smaller(Cardinality(Due), BatchLimit) \in Nat
  BY <1>2, SizesAreNat DEF Smaller
<1>4. Due \subseteq Domains
  BY DEF Due
<1>5. ASSUME NEW b \in Batches PROVE b \in Seq(Domains)
  <2>1. PICK n \in Nat : b \in [1..n -> Due]
    BY <1>3 DEF Batches
  <2>2. b \in [1..n -> Domains]
    BY <2>1, <1>4
  <2> QED
    BY <2>2
<1> QED
  BY <1>5

(* The parameter that stands for no interval is one.                       *)
LEMMA AnyIntervalIsOne == AnyInterval \in Intervals
  BY DEF AnyInterval

-----------------------------------------------------------------------------
(* Type correctness.                                                       *)

LEMMA TypeInit == Init => TypeOK
<1> SUFFICES ASSUME Init PROVE TypeOK
  OBVIOUS
<1> USE AnyIntervalIsOne, SizesAreNat DEF Init
<1>1. RowsOK
  BY DEF RowsOK, RowStates, Statuses, Never
<1>2. LoopOK /\ QueueOK
  BY DEF LoopOK, QueueOK, LoopPcs
<1>3. ProcsOK
  BY DEF ProcsOK, ProcPcs, Outcomes
<1> QED
  BY <1>1, <1>2, <1>3 DEF TypeOK

(* Returning from processDomain, and going on in it, keep the processes'   *)
(* types.                                                                  *)
LEMMA TypeReturn ==
  ASSUME ProcsOK, NEW p \in Procs, Return(p)
  PROVE  ProcsOK'
  BY AnyIntervalIsOne DEF ProcsOK, Return, ProcPcs, Outcomes

LEMMA TypeProc ==
  ASSUME TypeOK, NEW p \in Procs, ProcStep(p) \/ ProcStatementFails(p)
  PROVE  TypeOK'
<1> USE DEF TypeOK, dbVars, loopVars, stopVars, ProcUntouched
<1>1. CASE ReadDomain(p)
  <2>1. RowsOK' /\ LoopOK' /\ QueueOK'
    BY <1>1 DEF ReadDomain, RowsOK, LoopOK, QueueOK
  <2>2. ProcsOK'
    <3>1. CASE Return(p)
      BY <3>1, TypeReturn
    <3>2. CASE /\ row[dom[p]] = "enabled" /\ Advance(p, "tenant")
               /\ period' = [period EXCEPT ![p] = interval[dom[p]]]
               /\ UNCHANGED <<outcome, checkedAt, nextAt>>
      BY <1>1, <3>2 DEF ReadDomain, Advance, RowsOK, ProcsOK, ProcPcs
    <3> QED
      BY <1>1, <3>1, <3>2 DEF ReadDomain
  <2> QED
    BY <1>1, <2>1, <2>2 DEF ReadDomain
<1>2. CASE ReadTenant(p)
  <2>1. RowsOK' /\ LoopOK' /\ QueueOK'
    BY <1>2 DEF ReadTenant, RowsOK, LoopOK, QueueOK
  <2>2. ProcsOK'
    <3>1. CASE Return(p)
      BY <3>1, TypeReturn
    <3>2. CASE /\ Advance(p, "dial") /\ checkedAt' = [checkedAt EXCEPT ![p] = now]
               /\ UNCHANGED <<outcome, nextAt, period>>
      BY <1>2, <3>2 DEF ReadTenant, Advance, ProcsOK, ProcPcs
    <3> QED
      BY <1>2, <3>1, <3>2 DEF ReadTenant
  <2> QED
    BY <1>2, <2>1, <2>2 DEF ReadTenant
<1>3. CASE Dial(p)
  <2>1. RowsOK' /\ LoopOK' /\ QueueOK'
    BY <1>3 DEF Dial, RowsOK, LoopOK, QueueOK
  <2>2. period[p] \in Nat
    BY DEF ProcsOK
  <2>3. ProcsOK'
    BY <1>3, <2>2 DEF Dial, Advance, ProcsOK, ProcPcs, Outcomes
  <2> QED
    BY <1>3, <2>1, <2>3 DEF Dial
<1>4. CASE Commit(p)
  <2>1. LoopOK' /\ QueueOK'
    BY <1>4 DEF Commit, LoopOK, QueueOK
  <2>2. RowsOK' /\ ProcsOK'
    <3>1. CASE Return(p) /\ UNCHANGED dbVars
      BY <3>1, TypeReturn DEF RowsOK
    <3>2. CASE /\ Record(p) /\ Advance(p, "report")
               /\ UNCHANGED <<outcome, checkedAt, nextAt, period>>
      <4>1. dom[p] \in Domains /\ outcome[p] \in Statuses
        BY <1>4 DEF Commit, ProcsOK, Statuses
      <4>2. RowsOK'
        BY <3>2, <4>1 DEF Record, RowsOK, ProcsOK
      <4>3. ProcsOK'
        BY <3>2, <4>1 DEF Advance, ProcsOK, ProcPcs
      <4> QED
        BY <4>2, <4>3
    <3> QED
      BY <1>4, <3>1, <3>2 DEF Commit
  <2> QED
    BY <1>4, <2>1, <2>2 DEF Commit
<1>5. CASE Report(p)
  BY <1>5, TypeReturn DEF Report, RowsOK, LoopOK, QueueOK
<1>6. CASE ProcStatementFails(p)
  BY <1>6, TypeReturn DEF ProcStatementFails, RowsOK, LoopOK, QueueOK
<1> QED
  BY <1>1, <1>2, <1>3, <1>4, <1>5, <1>6 DEF ProcStep

(* So does moving the loop on in its batch.                                *)
LEMMA TypeLoopHolds ==
  ASSUME LoopOK, UNCHANGED loopNow,
         NEW rest \in Seq(Domains), NEW intervals \in [Domains -> Intervals],
         LoopHolds(rest, intervals)
  PROVE  LoopOK'
<1>1. loopPc' \in {"wait", "claim"} /\ (loopPc' = "claim" => batch' # <<>>)
  BY DEF LoopHolds
<1>2. batch' \in Seq(Domains)
  BY DEF LoopHolds
<1>3. readInterval' \in [Domains -> Intervals]
  BY AnyIntervalIsOne DEF LoopHolds
<1> QED
  BY <1>1, <1>2, <1>3 DEF LoopOK, LoopPcs

LEMMA TypeNext == TypeOK /\ [Next]_vars => TypeOK'
<1> SUFFICES ASSUME TypeOK, [Next]_vars PROVE TypeOK'
  OBVIOUS
<1> USE DEF TypeOK, dbVars, loopVars, stopVars, procVars
<1>1. CASE Tick
  BY <1>1 DEF Tick, RowsOK, LoopOK, QueueOK, ProcsOK
<1>2. ASSUME NEW d \in Domains, CreateDomain(d) PROVE TypeOK'
  <2>1. LoopOK' /\ QueueOK' /\ ProcsOK'
    BY <1>2 DEF CreateDomain, LoopOK, QueueOK, ProcsOK
  <2>2. RowsOK'
    BY <1>2 DEF CreateDomain, RowsOK, RowStates
  <2> QED
    BY <1>2, <2>1, <2>2 DEF CreateDomain
<1>3. ASSUME NEW d \in Domains, UpdateDomain(d) PROVE TypeOK'
  <2>1. LoopOK' /\ QueueOK' /\ ProcsOK'
    BY <1>3 DEF UpdateDomain, LoopOK, QueueOK, ProcsOK
  <2>2. RowsOK'
    BY <1>3 DEF UpdateDomain, RowsOK, RowStates
  <2> QED
    BY <1>3, <2>1, <2>2 DEF UpdateDomain
<1>4. ASSUME NEW d \in Domains, DeleteDomain(d) PROVE TypeOK'
  <2>1. LoopOK' /\ QueueOK' /\ ProcsOK'
    BY <1>4 DEF DeleteDomain, LoopOK, QueueOK, ProcsOK
  <2>2. RowsOK'
    BY <1>4 DEF DeleteDomain, RowsOK, RowStates
  <2> QED
    BY <1>4, <2>1, <2>2 DEF DeleteDomain
<1>5. ASSUME NEW t \in Tenants, SetTenantDisabled(t) PROVE TypeOK'
  <2>1. LoopOK' /\ QueueOK' /\ ProcsOK'
    BY <1>5 DEF SetTenantDisabled, LoopOK, QueueOK, ProcsOK
  <2>2. suspended' \subseteq Tenants
    BY <1>5 DEF SetTenantDisabled, RowsOK
  <2>3. RowsOK'
    BY <1>5, <2>2 DEF SetTenantDisabled, RowsOK
  <2> QED
    BY <1>5, <2>1, <2>3 DEF SetTenantDisabled
<1>6. CASE LoopQuery
  <2>1. QueueOK' /\ ProcsOK' /\ RowsOK'
    BY <1>6 DEF LoopQuery, LoopUntouched, QueueOK, ProcsOK, RowsOK
  <2>2. LoopOK'
    <3>1. CASE LoopGoesOn(<<>>)
      <4>1. <<>> \in Seq(Domains) /\ readInterval \in [Domains -> Intervals]
        BY DEF LoopOK
      <4> QED
        BY <1>6, <3>1, <4>1, TypeLoopHolds DEF LoopQuery, LoopUntouched, LoopGoesOn
    <3>2. ASSUME NEW b \in Batches, LoopHolds(b, interval) PROVE LoopOK'
      <4>1. b \in Seq(Domains) /\ interval \in [Domains -> Intervals]
        BY BatchesAreSeqs DEF RowsOK
      <4> QED
        BY <1>6, <3>2, <4>1, TypeLoopHolds DEF LoopQuery, LoopUntouched
    <3> QED
      BY <1>6, <3>1, <3>2 DEF LoopQuery
  <2> QED
    BY <1>6, <2>1, <2>2 DEF LoopQuery, LoopUntouched
<1>7. CASE LoopClaim
  <2>1. Head(batch) \in Domains /\ Tail(batch) \in Seq(Domains)
    BY <1>7 DEF LoopClaim, LoopOK
  <2>2. readInterval[Head(batch)] \in Nat
    BY <2>1 DEF LoopOK
  <2>3. ProcsOK'
    BY <1>7 DEF LoopClaim, LoopUntouched, ProcsOK
  <2>4. RowsOK'
    <3>1. nextCheckAt' \in [Domains -> Nat]
      <4>1. loopNow + readInterval[Head(batch)] \in Nat
        BY <2>2 DEF LoopOK
      <4>2. \/ nextCheckAt' = [nextCheckAt EXCEPT ![Head(batch)] =
                                 loopNow + readInterval[Head(batch)]]
            \/ UNCHANGED nextCheckAt
        BY <1>7 DEF LoopClaim
      <4> QED
        BY <4>1, <4>2 DEF RowsOK
    <3> QED
      BY <1>7, <3>1 DEF LoopClaim, LoopUntouched, RowsOK
  <2>5. QueueOK'
    BY <1>7, <2>1 DEF LoopClaim, LoopUntouched, QueueOK
  <2>6. LoopOK'
    <3>1. <<>> \in Seq(Domains) /\ readInterval \in [Domains -> Intervals]
      BY DEF LoopOK
    <3>2. CASE LoopGoesOn(<<>>)
      BY <1>7, <3>1, <3>2, TypeLoopHolds DEF LoopClaim, LoopUntouched, LoopGoesOn
    <3>3. CASE LoopGoesOn(Tail(batch))
      BY <1>7, <2>1, <3>1, <3>3, TypeLoopHolds DEF LoopClaim, LoopUntouched, LoopGoesOn
    <3>4. CASE loopPc' = "handoff" /\ UNCHANGED <<batch, readInterval>>
      BY <1>7, <3>4 DEF LoopClaim, LoopUntouched, LoopOK, LoopPcs
    <3> QED
      BY <1>7, <3>2, <3>3, <3>4 DEF LoopClaim
  <2> QED
    BY <1>7, <2>3, <2>4, <2>5, <2>6 DEF LoopClaim, LoopUntouched
<1>8. CASE LoopStatementFails
  BY <1>8, AnyIntervalIsOne
  DEF LoopStatementFails, LoopGoesOn, LoopHolds, LoopPcs, RowsOK, LoopOK, QueueOK, ProcsOK
<1>9. CASE HandoffSend
  <2>1. Head(batch) \in Domains /\ Tail(batch) \in Seq(Domains)
    BY <1>9 DEF HandoffSend, LoopOK
  <2>2. ProcsOK' /\ RowsOK'
    BY <1>9 DEF HandoffSend, LoopUntouched, ProcsOK, RowsOK
  <2>3. QueueOK'
    BY <1>9, <2>1, SizesAreNat DEF HandoffSend, LoopUntouched, QueueOK
  <2>4. LoopOK'
    BY <1>9, <2>1, AnyIntervalIsOne
    DEF HandoffSend, LoopGoesOn, LoopHolds, LoopUntouched, LoopOK, LoopPcs
  <2> QED
    BY <1>9, <2>2, <2>3, <2>4 DEF HandoffSend, LoopUntouched
<1>10. CASE HandoffSpawn
  <2>1. Head(batch) \in Domains /\ Tail(batch) \in Seq(Domains)
    BY <1>10 DEF HandoffSpawn, LoopOK
  <2>2. ProcsOK' /\ RowsOK'
    BY <1>10 DEF HandoffSpawn, LoopUntouched, ProcsOK, RowsOK
  <2>3. QueueOK'
    BY <1>10, <2>1 DEF HandoffSpawn, LoopUntouched, QueueOK
  <2>4. LoopOK'
    BY <1>10, <2>1, AnyIntervalIsOne
    DEF HandoffSpawn, LoopGoesOn, LoopHolds, LoopUntouched, LoopOK, LoopPcs
  <2> QED
    BY <1>10, <2>2, <2>3, <2>4 DEF HandoffSpawn, LoopUntouched
<1>11. CASE HandoffCancelled
  BY <1>11, AnyIntervalIsOne
  DEF HandoffCancelled, LoopGoesOn, LoopHolds, LoopUntouched, LoopPcs, RowsOK, LoopOK,
      QueueOK, ProcsOK
<1>12. ASSUME NEW d \in Domains, EnqueuerSend(d) PROVE TypeOK'
  BY <1>12, SizesAreNat DEF EnqueuerSend, RowsOK, LoopOK, QueueOK, ProcsOK
<1>13. ASSUME NEW d \in Domains, EnqueuerQuit(d) PROVE TypeOK'
  BY <1>13 DEF EnqueuerQuit, RowsOK, LoopOK, QueueOK, ProcsOK
<1>14. CASE LoopWake
  BY <1>14 DEF LoopWake, LoopPcs, RowsOK, LoopOK, QueueOK, ProcsOK
<1>15. CASE LoopExit
  BY <1>15 DEF LoopExit, LoopPcs, RowsOK, LoopOK, QueueOK, ProcsOK
<1>16. ASSUME NEW w \in Workers, WorkerTake(w) PROVE TypeOK'
  <2>1. RowsOK' /\ LoopOK'
    BY <1>16 DEF WorkerTake, RowsOK, LoopOK
  <2>2. QueueOK'
    <3>1. jobs' \in Seq(Domains) /\ Len(jobs') <= JobsCap
      BY <1>16, SizesAreNat DEF WorkerTake, QueueOK
    <3>2. owed' \in [Domains -> BOOLEAN]
      BY <1>16 DEF WorkerTake, QueueOK
    <3> QED
      BY <1>16, <3>1, <3>2 DEF WorkerTake, QueueOK
  <2>3. ProcsOK'
    BY <1>16 DEF WorkerTake, QueueOK, ProcsOK, ProcPcs, Procs
  <2> QED
    BY <1>16, <2>1, <2>2, <2>3 DEF WorkerTake
<1>17. ASSUME NEW w \in Workers, WorkerExit(w) PROVE TypeOK'
  <2>1. RowsOK' /\ LoopOK'
    BY <1>17 DEF WorkerExit, RowsOK, LoopOK
  <2>2. QueueOK'
    BY <1>17 DEF WorkerExit, QueueOK
  <2>3. ProcsOK'
    BY <1>17 DEF WorkerExit, QueueOK, ProcsOK, ProcPcs, Procs
  <2> QED
    BY <1>17, <2>1, <2>2, <2>3 DEF WorkerExit
<1>18. ASSUME NEW r \in Requests, ClientLeaves(r) PROVE TypeOK'
  BY <1>18 DEF ClientLeaves, RowsOK, LoopOK, QueueOK, ProcsOK
<1>19. ASSUME NEW r \in Requests, NEW d \in Domains, RequestCheck(r, d) PROVE TypeOK'
  <2>1. RowsOK' /\ LoopOK'
    BY <1>19 DEF RequestCheck, RowsOK, LoopOK
  <2>2. QueueOK'
    BY <1>19 DEF RequestCheck, QueueOK
  <2>3. ProcsOK'
    BY <1>19 DEF RequestCheck, QueueOK, ProcsOK, ProcPcs, Procs
  <2> QED
    BY <1>19, <2>1, <2>2, <2>3 DEF RequestCheck
<1>20. ASSUME NEW p \in Procs, ProcStep(p) \/ ProcStatementFails(p) PROVE TypeOK'
  BY <1>20, TypeProc
<1>21. CASE Cancel
  BY <1>21 DEF Cancel, RowsOK, LoopOK, QueueOK, ProcsOK
<1>22. CASE StopReturns
  BY <1>22 DEF StopReturns, RowsOK, LoopOK, QueueOK, ProcsOK
<1>23. CASE Restart
  <2>1. RowsOK' /\ LoopOK'
    BY <1>23, AnyIntervalIsOne DEF Restart, RowsOK, LoopOK, LoopPcs
  <2>2. QueueOK'
    BY <1>23, SizesAreNat DEF Restart, QueueOK
  <2>3. ProcsOK'
    BY <1>23, AnyIntervalIsOne DEF Restart, ProcsOK, ProcPcs, Outcomes
  <2>4. now' \in Nat /\ faults' \in Nat /\ edits' \in Nat
    BY <1>23 DEF Restart
  <2>5. cancelled' \in BOOLEAN /\ stopped' \in BOOLEAN
    BY <1>23, Zenon DEF Restart
  <2> QED
    BY <2>1, <2>2, <2>3, <2>4, <2>5
<1>24. CASE UNCHANGED vars
  BY <1>24 DEF vars, RowsOK, LoopOK, QueueOK, ProcsOK
<1> QED
  BY <1>1, <1>2, <1>3, <1>4, <1>5, <1>6, <1>7, <1>8, <1>9, <1>10, <1>11, <1>12, <1>13,
     <1>14, <1>15, <1>16, <1>17, <1>18, <1>19, <1>20, <1>21, <1>22, <1>23, <1>24
  DEF Next, LoopDispatches, Terminated

(* TypeOK holds of every reachable state: the types, and the capacity of   *)
(* the job channel.                                                        *)
THEOREM TypeCorrect == Spec => []TypeOK
<1>1. Init => TypeOK
  BY TypeInit
<1>2. TypeOK /\ [Next]_vars => TypeOK'
  BY TypeNext
<1> QED
  BY <1>1, <1>2, PTL DEF Spec

-----------------------------------------------------------------------------
(* Claims.  NoLostClaim is inductive relative to the types: a claim puts   *)
(* the domain in the loop's hand, and every step that moves a domain on    *)
(* puts it in the next place, unless the context is cancelled.             *)

LEMMA ClaimFrame ==
  ASSUME NoLostClaim, UNCHANGED <<owed, jobs, blocked, loopPc, batch, cancelled>>
  PROVE  NoLostClaim'
  BY DEF NoLostClaim, Queued

LEMMA ClaimNext == TypeOK /\ NoLostClaim /\ [Next]_vars => NoLostClaim'
<1> SUFFICES ASSUME TypeOK, NoLostClaim, [Next]_vars PROVE NoLostClaim'
  OBVIOUS
<1> USE DEF dbVars, loopVars, stopVars, procVars, LoopUntouched, ProcUntouched
<1>0. QueueOK /\ LoopOK /\ jobs \in Seq(Domains) /\ batch \in Seq(Domains)
  BY DEF TypeOK, QueueOK, LoopOK
<1>1. CASE Tick
  BY <1>1, ClaimFrame DEF Tick
<1>2. ASSUME NEW d \in Domains, CreateDomain(d) \/ UpdateDomain(d) \/ DeleteDomain(d)
      PROVE  NoLostClaim'
  BY <1>2, ClaimFrame DEF CreateDomain, UpdateDomain, DeleteDomain
<1>3. ASSUME NEW t \in Tenants, SetTenantDisabled(t) PROVE NoLostClaim'
  BY <1>3, ClaimFrame DEF SetTenantDisabled
<1>4. CASE LoopQuery
  BY <1>4 DEF LoopQuery, NoLostClaim, Queued
<1>5. CASE LoopClaim
  <2> SUFFICES ASSUME ~cancelled', NEW d \in Domains, owed'[d] PROVE Queued(d)'
    BY DEF NoLostClaim
  <2>1. CASE owed' = [owed EXCEPT ![Head(batch)] = TRUE]
             /\ loopPc' = "handoff" /\ UNCHANGED <<batch, readInterval>>
    <3>1. CASE d = Head(batch)
      BY <2>1, <3>1 DEF Queued
    <3>2. CASE d # Head(batch)
      <4>1. owed[d]
        BY <2>1, <3>2, <1>0 DEF QueueOK
      <4> QED
        BY <1>5, <2>1, <4>1 DEF LoopClaim, NoLostClaim, Queued
    <3> QED
      BY <3>1, <3>2
  <2>2. CASE UNCHANGED owed
    BY <1>5, <2>2 DEF LoopClaim, NoLostClaim, Queued
  <2> QED
    BY <1>5, <2>1, <2>2 DEF LoopClaim
<1>6. CASE LoopStatementFails
  BY <1>6 DEF LoopStatementFails, NoLostClaim, Queued
<1>7. CASE HandoffSend
  <2> SUFFICES ASSUME ~cancelled', NEW d \in Domains, owed'[d] PROVE Queued(d)'
    BY DEF NoLostClaim
  <2>1. Head(batch) \in Domains /\ jobs' = Append(jobs, Head(batch))
    BY <1>7, <1>0 DEF HandoffSend, LoopOK
  <2>2. Queued(d)
    BY <1>7 DEF HandoffSend, NoLostClaim
  <2>3. CASE d = Head(batch)
    <3>1. jobs'[Len(jobs) + 1] = d /\ Len(jobs) + 1 \in DOMAIN jobs'
      BY <2>1, <2>3, <1>0
    <3> QED
      BY <3>1 DEF Queued
  <2>4. CASE d # Head(batch)
    <3>1. CASE blocked[d] > 0
      BY <1>7, <3>1 DEF HandoffSend, Queued
    <3>2. ASSUME NEW i \in DOMAIN jobs, jobs[i] = d PROVE Queued(d)'
      <4>1. i \in DOMAIN jobs' /\ jobs'[i] = d
        BY <2>1, <3>2, <1>0
      <4> QED
        BY <4>1 DEF Queued
    <3> QED
      BY <2>2, <2>4, <3>1, <3>2 DEF Queued
  <2> QED
    BY <2>3, <2>4
<1>8. CASE HandoffSpawn
  <2> SUFFICES ASSUME ~cancelled', NEW d \in Domains, owed'[d] PROVE Queued(d)'
    BY DEF NoLostClaim
  <2>1. Head(batch) \in Domains
    BY <1>8, <1>0 DEF HandoffSpawn, LoopOK
  <2>2. Queued(d)
    BY <1>8 DEF HandoffSpawn, NoLostClaim
  <2>3. blocked' = [blocked EXCEPT ![Head(batch)] = @ + 1] /\ UNCHANGED jobs
    BY <1>8 DEF HandoffSpawn
  <2>4. CASE d = Head(batch)
    BY <2>1, <2>3, <2>4, <1>0 DEF Queued, QueueOK
  <2>5. CASE d # Head(batch)
    BY <2>1, <2>2, <2>3, <2>5, <1>0 DEF Queued, QueueOK
  <2> QED
    BY <2>4, <2>5
<1>9. CASE HandoffCancelled
  BY <1>9 DEF HandoffCancelled, NoLostClaim
<1>10. ASSUME NEW e \in Domains, EnqueuerSend(e) PROVE NoLostClaim'
  <2> SUFFICES ASSUME ~cancelled', NEW d \in Domains, owed'[d] PROVE Queued(d)'
    BY DEF NoLostClaim
  <2>1. jobs' = Append(jobs, e) /\ blocked' = [blocked EXCEPT ![e] = @ - 1]
        /\ UNCHANGED <<loopPc, batch>>
    BY <1>10 DEF EnqueuerSend
  <2>2. Queued(d)
    BY <1>10 DEF EnqueuerSend, NoLostClaim
  <2>3. CASE d = e
    <3>1. jobs'[Len(jobs) + 1] = d /\ Len(jobs) + 1 \in DOMAIN jobs'
      BY <2>1, <2>3, <1>0
    <3> QED
      BY <3>1 DEF Queued
  <2>4. CASE d # e
    <3>1. blocked'[d] = blocked[d]
      BY <2>1, <2>4, <1>0 DEF QueueOK
    <3>2. ASSUME NEW i \in DOMAIN jobs, jobs[i] = d PROVE Queued(d)'
      <4>1. i \in DOMAIN jobs' /\ jobs'[i] = d
        BY <2>1, <3>2, <1>0
      <4> QED
        BY <4>1 DEF Queued
    <3> QED
      BY <2>1, <2>2, <3>1, <3>2 DEF Queued
  <2> QED
    BY <2>3, <2>4
<1>11. ASSUME NEW d \in Domains, EnqueuerQuit(d) PROVE NoLostClaim'
  BY <1>11 DEF EnqueuerQuit, NoLostClaim
<1>12. CASE LoopWake \/ LoopExit
  BY <1>12 DEF LoopWake, LoopExit, NoLostClaim, Queued
<1>13. ASSUME NEW w \in Workers, WorkerTake(w) PROVE NoLostClaim'
  <2> SUFFICES ASSUME ~cancelled', NEW d \in Domains, owed'[d] PROVE Queued(d)'
    BY DEF NoLostClaim
  <2>1. jobs # <<>> /\ jobs' = Tail(jobs) /\ owed' = [owed EXCEPT ![Head(jobs)] = FALSE]
        /\ UNCHANGED <<loopPc, batch, blocked>>
    BY <1>13 DEF WorkerTake
  <2>2. Head(jobs) \in Domains
    BY <2>1, <1>0
  <2>3. d # Head(jobs) /\ owed[d]
    BY <2>1, <2>2, <1>0 DEF QueueOK
  <2>4. Queued(d)
    BY <1>13, <2>3 DEF WorkerTake, NoLostClaim
  <2>5. ASSUME NEW i \in DOMAIN jobs, jobs[i] = d PROVE Queued(d)'
    <3>1. i # 1
      BY <2>1, <2>3, <2>5, <1>0
    <3>2. i - 1 \in DOMAIN jobs' /\ jobs'[i - 1] = d
      BY <2>1, <2>5, <3>1, <1>0
    <3> QED
      BY <3>2 DEF Queued
  <2> QED
    BY <2>1, <2>4, <2>5 DEF Queued
<1>14. ASSUME NEW w \in Workers, WorkerExit(w) PROVE NoLostClaim'
  BY <1>14, ClaimFrame DEF WorkerExit
<1>15. ASSUME NEW r \in Requests,
              ClientLeaves(r) \/ \E d \in Domains : RequestCheck(r, d)
       PROVE  NoLostClaim'
  BY <1>15, ClaimFrame DEF ClientLeaves, RequestCheck
<1>16. ASSUME NEW p \in Procs, ProcStep(p) \/ ProcStatementFails(p) PROVE NoLostClaim'
  <2>1. UNCHANGED ProcUntouched
    BY <1>16 DEF ProcStep, ReadDomain, ReadTenant, Dial, Commit, Report, ProcStatementFails
  <2> QED
    BY <2>1, ClaimFrame
<1>17. CASE Cancel
  BY <1>17 DEF Cancel, NoLostClaim
<1>18. CASE StopReturns
  BY <1>18, ClaimFrame DEF StopReturns
<1>19. CASE Restart
  BY <1>19 DEF Restart, NoLostClaim
<1>20. CASE UNCHANGED vars
  BY <1>20, ClaimFrame DEF vars
<1> QED
  BY <1>1, <1>2, <1>3, <1>4, <1>5, <1>6, <1>7, <1>8, <1>9, <1>10, <1>11, <1>12, <1>13,
     <1>14, <1>15, <1>16, <1>17, <1>18, <1>19, <1>20
  DEF Next, LoopDispatches, Terminated

(* NoLostClaim holds of every reachable state: between the claim in the    *)
(* database and a worker, a domain is always somewhere in memory.          *)
THEOREM ClaimsAreKept == Spec => []NoLostClaim
<1>1. Init => NoLostClaim
  BY DEF Init, NoLostClaim
<1>2. TypeOK /\ NoLostClaim /\ [Next]_vars => NoLostClaim'
  BY ClaimNext
<1> QED
  BY <1>1, <1>2, TypeCorrect, PTL DEF Spec

-----------------------------------------------------------------------------
(* Times.  The two bounds on next_check_at need to know how old the times  *)
(* are that the loop and the processes carry from one step to a later one. *)

CarriedTimes ==
  /\ loopNow <= now
  /\ \A p \in Procs :
       /\ pc[p] \in {"dial", "commit"} => checkedAt[p] <= now
       /\ pc[p] = "commit" =>
            \E i \in Intervals : nextAt[p] <= now + i /\ checkedAt[p] + i <= nextAt[p]
  /\ \A d \in Domains : row[d] = "none" => lastCheckedAt[d] = Never

ScheduleInv == CarriedTimes /\ NotDueBeforeInterval /\ NeverParked

scheduleVars == <<now, loopNow, row, lastCheckedAt, nextCheckAt, pc, checkedAt, nextAt>>

LEMMA ScheduleInit == Init => ScheduleInv
<1> SUFFICES ASSUME Init PROVE ScheduleInv
  OBVIOUS
<1>1. CarriedTimes
  BY DEF Init, CarriedTimes
<1>2. NotDueBeforeInterval /\ NeverParked
  BY AnyIntervalIsOne DEF Init, NotDueBeforeInterval, NeverParked
<1> QED
  BY <1>1, <1>2 DEF ScheduleInv

LEMMA ScheduleFrame ==
  ASSUME ScheduleInv, UNCHANGED scheduleVars
  PROVE  ScheduleInv'
  BY DEF scheduleVars, ScheduleInv, CarriedTimes, NotDueBeforeInterval, NeverParked

(* A process that leaves processDomain carries no times.                   *)
LEMMA ScheduleReturn ==
  ASSUME TypeOK, ScheduleInv, NEW p \in Procs, Return(p),
         UNCHANGED <<now, loopNow, row, lastCheckedAt, nextCheckAt>>
  PROVE  ScheduleInv'
<1>1. \A q \in Procs : pc'[q] \in {"dial", "commit"} => q # p
  BY DEF Return, TypeOK, ProcsOK
<1>2. \A q \in Procs : q # p => pc'[q] = pc[q] /\ checkedAt'[q] = checkedAt[q]
                                /\ nextAt'[q] = nextAt[q]
  BY DEF Return, TypeOK, ProcsOK
<1>3. CarriedTimes'
  BY <1>1, <1>2 DEF ScheduleInv, CarriedTimes
<1> QED
  BY <1>3 DEF ScheduleInv, NotDueBeforeInterval, NeverParked

LEMMA ScheduleProc ==
  ASSUME TypeOK, ScheduleInv, NEW p \in Procs, ProcStep(p) \/ ProcStatementFails(p)
  PROVE  ScheduleInv'
<1> USE DEF dbVars, loopVars, ProcUntouched
<1>0. /\ now \in Nat /\ pc \in [Procs -> ProcPcs] /\ period \in [Procs -> Intervals]
      /\ checkedAt \in [Procs -> Nat] /\ nextAt \in [Procs -> Nat]
      /\ nextCheckAt \in [Domains -> Nat] /\ lastCheckedAt \in [Domains -> Nat \cup {Never}]
  BY DEF TypeOK, RowsOK, ProcsOK
<1>1. CASE ReadDomain(p)
  <2>1. CASE Return(p)
    BY <1>1, <2>1, ScheduleReturn DEF ReadDomain
  <2>2. CASE Advance(p, "tenant") /\ UNCHANGED <<outcome, checkedAt, nextAt>>
    <3>1. CarriedTimes'
      BY <1>0, <1>1, <2>2 DEF ReadDomain, Advance, ScheduleInv, CarriedTimes
    <3> QED
      BY <1>1, <3>1 DEF ReadDomain, ScheduleInv, NotDueBeforeInterval, NeverParked
  <2> QED
    BY <1>1, <2>1, <2>2 DEF ReadDomain
<1>2. CASE ReadTenant(p)
  <2>1. CASE Return(p)
    BY <1>2, <2>1, ScheduleReturn DEF ReadTenant
  <2>2. CASE /\ Advance(p, "dial") /\ checkedAt' = [checkedAt EXCEPT ![p] = now]
             /\ UNCHANGED <<outcome, nextAt, period>>
    <3>1. checkedAt'[p] = now /\ pc'[p] = "dial"
      BY <1>0, <2>2 DEF Advance
    <3>2. \A q \in Procs : q # p => pc'[q] = pc[q] /\ checkedAt'[q] = checkedAt[q]
      BY <1>0, <2>2 DEF Advance
    <3>3. UNCHANGED <<now, loopNow, row, lastCheckedAt, nextCheckAt, nextAt>>
      BY <1>2, <2>2 DEF ReadTenant
    <3>4. \A q \in Procs : pc'[q] \in {"dial", "commit"} => checkedAt'[q] <= now
      <4> SUFFICES ASSUME NEW q \in Procs, pc'[q] \in {"dial", "commit"}
                   PROVE  checkedAt'[q] <= now
        OBVIOUS
      <4>1. CASE q = p
        BY <1>0, <3>1, <4>1
      <4>2. CASE q # p
        BY <3>2, <4>2 DEF ScheduleInv, CarriedTimes
      <4> QED
        BY <4>1, <4>2
    <3>5. \A q \in Procs : pc'[q] = "commit" =>
            \E i \in Intervals : nextAt[q] <= now + i /\ checkedAt'[q] + i <= nextAt[q]
      BY <3>1, <3>2 DEF ScheduleInv, CarriedTimes
    <3>6. CarriedTimes'
      BY <3>3, <3>4, <3>5 DEF ScheduleInv, CarriedTimes
    <3> QED
      BY <3>3, <3>6 DEF ScheduleInv, NotDueBeforeInterval, NeverParked
  <2> QED
    BY <1>2, <2>1, <2>2 DEF ReadTenant
<1>3. CASE Dial(p)
  <2>1. period[p] \in Intervals /\ period[p] \in Nat /\ nextAt'[p] = now + period[p]
    BY <1>0, <1>3 DEF Dial
  <2>2. checkedAt[p] <= now
    BY <1>3 DEF Dial, ScheduleInv, CarriedTimes
  <2>3. nextAt'[p] <= now + period[p] /\ checkedAt[p] + period[p] <= nextAt'[p]
    BY <1>0, <2>1, <2>2
  <2>4. CarriedTimes'
    BY <1>0, <1>3, <2>1, <2>2, <2>3 DEF Dial, Advance, ScheduleInv, CarriedTimes
  <2> QED
    BY <1>3, <2>4 DEF Dial, ScheduleInv, NotDueBeforeInterval, NeverParked
<1>4. CASE Commit(p)
  <2>1. CASE Return(p) /\ UNCHANGED dbVars
    BY <1>4, <2>1, ScheduleReturn DEF Commit
  <2>2. CASE /\ Record(p) /\ Advance(p, "report")
             /\ UNCHANGED <<outcome, checkedAt, nextAt, period>>
    <3>1. pc[p] = "commit" /\ dom[p] \in Domains
      BY <1>4 DEF Commit, TypeOK, ProcsOK
    <3>2. PICK i \in Intervals : nextAt[p] <= now + i /\ checkedAt[p] + i <= nextAt[p]
      BY <3>1 DEF ScheduleInv, CarriedTimes
    <3>3. UNCHANGED <<now, loopNow, row>>
      BY <1>4, <2>2 DEF Commit, Record
    <3>4. CarriedTimes'
      <4>1. \A d \in Domains : row[d] = "none" => lastCheckedAt'[d] = lastCheckedAt[d]
        BY <1>0, <2>2, <3>1 DEF Record
      <4> QED
        BY <1>0, <2>2, <3>3, <4>1 DEF Advance, ScheduleInv, CarriedTimes
    <3>5. NotDueBeforeInterval'
      BY <1>0, <2>2, <3>1, <3>2 DEF Record, ScheduleInv, NotDueBeforeInterval
    <3>6. NeverParked'
      <4>1. \A d \in Domains : nextCheckAt'[d] = nextCheckAt[d] \/ nextCheckAt'[d] = nextAt[p]
        BY <1>0, <2>2, <3>1 DEF Record
      <4> QED
        BY <3>2, <3>3, <4>1 DEF ScheduleInv, NeverParked
    <3> QED
      BY <3>4, <3>5, <3>6 DEF ScheduleInv
  <2> QED
    BY <1>4, <2>1, <2>2 DEF Commit
<1>5. CASE Report(p)
  BY <1>5, ScheduleReturn DEF Report
<1>6. CASE ProcStatementFails(p)
  BY <1>6, ScheduleReturn DEF ProcStatementFails
<1> QED
  BY <1>1, <1>2, <1>3, <1>4, <1>5, <1>6 DEF ProcStep

LEMMA ScheduleNext == TypeOK /\ ScheduleInv /\ [Next]_vars => ScheduleInv'
<1> SUFFICES ASSUME TypeOK, ScheduleInv, [Next]_vars PROVE ScheduleInv'
  OBVIOUS
<1> USE DEF dbVars, loopVars, procVars, LoopUntouched
<1>0. /\ now \in Nat /\ loopNow \in Nat /\ pc \in [Procs -> ProcPcs]
      /\ row \in [Domains -> RowStates]
      /\ checkedAt \in [Procs -> Nat] /\ nextAt \in [Procs -> Nat]
      /\ nextCheckAt \in [Domains -> Nat] /\ lastCheckedAt \in [Domains -> Nat \cup {Never}]
      /\ readInterval \in [Domains -> Intervals]
  BY DEF TypeOK, RowsOK, LoopOK, ProcsOK
<1>1. CASE Tick
  <2>1. now' = now + 1
    BY <1>1 DEF Tick
  <2>2. CarriedTimes'
    BY <1>0, <1>1, <2>1 DEF Tick, ScheduleInv, CarriedTimes
  <2>3. NotDueBeforeInterval'
    BY <1>1 DEF Tick, ScheduleInv, NotDueBeforeInterval
  <2>4. NeverParked'
    BY <1>0, <1>1, <2>1 DEF Tick, ScheduleInv, NeverParked
  <2> QED
    BY <2>2, <2>3, <2>4 DEF ScheduleInv
<1>2. ASSUME NEW d \in Domains, CreateDomain(d) PROVE ScheduleInv'
  <2>1. /\ row[d] = "none" /\ lastCheckedAt[d] = Never /\ row'[d] # "none"
        /\ \A e \in Domains : e # d => row'[e] = row[e] /\ nextCheckAt'[e] = nextCheckAt[e]
        /\ nextCheckAt'[d] = now
        /\ UNCHANGED <<now, loopNow, lastCheckedAt, pc, checkedAt, nextAt>>
    BY <1>0, <1>2 DEF CreateDomain, ScheduleInv, CarriedTimes
  <2>2. CarriedTimes'
    BY <2>1 DEF ScheduleInv, CarriedTimes
  <2>3. NotDueBeforeInterval'
    BY <2>1 DEF ScheduleInv, NotDueBeforeInterval
  <2>4. NeverParked'
    BY <1>0, <2>1, AnyIntervalIsOne DEF ScheduleInv, NeverParked
  <2> QED
    BY <2>2, <2>3, <2>4 DEF ScheduleInv
<1>3. ASSUME NEW d \in Domains, UpdateDomain(d) \/ DeleteDomain(d) PROVE ScheduleInv'
  <2>1. /\ \A e \in Domains : row'[e] = "none" => row[e] = "none"
        /\ UNCHANGED <<now, loopNow, nextCheckAt, lastCheckedAt, pc, checkedAt, nextAt>>
    BY <1>0, <1>3 DEF UpdateDomain, DeleteDomain
  <2> QED
    BY <2>1 DEF ScheduleInv, CarriedTimes, NotDueBeforeInterval, NeverParked
<1>4. ASSUME NEW t \in Tenants, SetTenantDisabled(t) PROVE ScheduleInv'
  BY <1>4, ScheduleFrame DEF SetTenantDisabled, scheduleVars
<1>5. CASE LoopClaim
  <2>1. CASE UNCHANGED nextCheckAt
    BY <1>5, <2>1, ScheduleFrame DEF LoopClaim, scheduleVars
  <2>2. CASE /\ Claimable(Head(batch))
             /\ nextCheckAt' = [nextCheckAt EXCEPT ![Head(batch)] =
                                   loopNow + readInterval[Head(batch)]]
    <3> DEFINE h == Head(batch)
    <3>1. h \in Domains
      BY <1>5 DEF LoopClaim, TypeOK, LoopOK
    <3>2. nextCheckAt[h] <= loopNow /\ loopNow <= now
          /\ readInterval[h] \in Intervals /\ readInterval[h] \in Nat
      BY <1>0, <2>2, <3>1 DEF Claimable, ScheduleInv, CarriedTimes
    <3>3. nextCheckAt[h] <= nextCheckAt'[h] /\ nextCheckAt'[h] <= now + readInterval[h]
          /\ nextCheckAt'[h] \in Nat
      BY <1>0, <2>2, <3>1, <3>2
    <3>4. \A e \in Domains : e # h => nextCheckAt'[e] = nextCheckAt[e]
      BY <1>0, <2>2, <3>1
    <3>5. UNCHANGED <<now, loopNow, row, lastCheckedAt, pc, checkedAt, nextAt>>
      BY <1>5 DEF LoopClaim
    <3>6. CarriedTimes'
      BY <3>5 DEF ScheduleInv, CarriedTimes
    <3>7. NotDueBeforeInterval'
      <4> SUFFICES ASSUME NEW e \in Domains, lastCheckedAt[e] # Never
                   PROVE  \E i \in Intervals : nextCheckAt'[e] >= lastCheckedAt[e] + i
        BY <3>5 DEF NotDueBeforeInterval
      <4>1. PICK i \in Intervals : nextCheckAt[e] >= lastCheckedAt[e] + i
        BY DEF ScheduleInv, NotDueBeforeInterval
      <4>2. nextCheckAt[e] <= nextCheckAt'[e] /\ nextCheckAt'[e] \in Nat
        BY <1>0, <3>3, <3>4
      <4>3. lastCheckedAt[e] + i \in Int
        BY <1>0
      <4>4. nextCheckAt'[e] >= lastCheckedAt[e] + i
        BY <1>0, <4>1, <4>2, <4>3
      <4> QED
        BY <4>4
    <3>8. NeverParked'
      BY <3>2, <3>3, <3>4, <3>5 DEF ScheduleInv, NeverParked
    <3> QED
      BY <3>6, <3>7, <3>8 DEF ScheduleInv
  <2> QED
    BY <1>5, <2>1, <2>2 DEF LoopClaim
<1>6. CASE LoopQuery \/ LoopStatementFails \/ HandoffSend \/ HandoffSpawn
           \/ HandoffCancelled \/ LoopExit
  BY <1>6, ScheduleFrame
  DEF LoopQuery, LoopStatementFails, HandoffSend, HandoffSpawn, HandoffCancelled, LoopExit,
      scheduleVars
<1>7. CASE LoopWake
  <2>1. CarriedTimes'
    BY <1>0, <1>7 DEF LoopWake, ScheduleInv, CarriedTimes
  <2> QED
    BY <1>7, <2>1 DEF LoopWake, ScheduleInv, NotDueBeforeInterval, NeverParked
<1>8. ASSUME NEW d \in Domains, EnqueuerSend(d) \/ EnqueuerQuit(d) PROVE ScheduleInv'
  BY <1>8, ScheduleFrame DEF EnqueuerSend, EnqueuerQuit, scheduleVars
<1>9. ASSUME NEW p \in Procs,
             pc' = [pc EXCEPT ![p] = "read"] \/ pc' = [pc EXCEPT ![p] = "exited"],
             UNCHANGED <<now, loopNow, row, lastCheckedAt, nextCheckAt, checkedAt, nextAt>>
      PROVE  ScheduleInv'
  <2>1. CarriedTimes'
    BY <1>0, <1>9 DEF ScheduleInv, CarriedTimes
  <2> QED
    BY <1>9, <2>1 DEF ScheduleInv, NotDueBeforeInterval, NeverParked
<1>10. ASSUME NEW w \in Workers, WorkerTake(w) \/ WorkerExit(w) PROVE ScheduleInv'
  BY <1>9, <1>10 DEF WorkerTake, WorkerExit, Procs
<1>11. ASSUME NEW r \in Requests, NEW d \in Domains, RequestCheck(r, d) PROVE ScheduleInv'
  BY <1>9, <1>11 DEF RequestCheck, Procs
<1>12. ASSUME NEW r \in Requests, ClientLeaves(r) PROVE ScheduleInv'
  BY <1>12, ScheduleFrame DEF ClientLeaves, scheduleVars
<1>13. ASSUME NEW p \in Procs, ProcStep(p) \/ ProcStatementFails(p) PROVE ScheduleInv'
  BY <1>13, ScheduleProc
<1>14. CASE Cancel \/ StopReturns \/ UNCHANGED vars
  BY <1>14, ScheduleFrame DEF Cancel, StopReturns, vars, scheduleVars
<1>15. CASE Restart
  <2>1. CarriedTimes'
    BY <1>0, <1>15 DEF Restart, ScheduleInv, CarriedTimes
  <2> QED
    BY <1>15, <2>1 DEF Restart, ScheduleInv, NotDueBeforeInterval, NeverParked
<1> QED
  BY <1>1, <1>2, <1>3, <1>4, <1>5, <1>6, <1>7, <1>8, <1>10, <1>11, <1>12, <1>13, <1>14,
     <1>15
  DEF Next, LoopDispatches, Terminated

(* NotDueBeforeInterval holds of every reachable state, however checks,    *)
(* claims and updates of the interval overlap.                             *)
THEOREM ChecksKeepTheirDistance == Spec => []NotDueBeforeInterval
<1>1. TypeOK /\ ScheduleInv /\ [Next]_vars => ScheduleInv'
  BY ScheduleNext
<1>2. ScheduleInv => NotDueBeforeInterval
  BY DEF ScheduleInv
<1> QED
  BY <1>1, <1>2, ScheduleInit, TypeCorrect, PTL DEF Spec

(* NeverParked holds of every reachable state, crashes included.           *)
THEOREM ALostClaimCostsOneInterval == Spec => []NeverParked
<1>1. TypeOK /\ ScheduleInv /\ [Next]_vars => ScheduleInv'
  BY ScheduleNext
<1>2. ScheduleInv => NeverParked
  BY DEF ScheduleInv
<1> QED
  BY <1>1, <1>2, ScheduleInit, TypeCorrect, PTL DEF Spec

-----------------------------------------------------------------------------
(* Interrupted checks.  A check that was cut short waits at its            *)
(* transaction under a context that stays cancelled.                       *)

AbortInv ==
  /\ \A p \in Procs : pc[p] = "commit" /\ outcome[p] = "aborted" => Dead(p)
  /\ AbortedNeverRecorded

abortVars == <<pc, outcome, status, cancelled, gone>>

LEMMA AbortFrame ==
  ASSUME AbortInv, UNCHANGED abortVars
  PROVE  AbortInv'
  BY DEF abortVars, AbortInv, Dead, AbortedNeverRecorded

LEMMA AbortReturn ==
  ASSUME TypeOK, AbortInv, NEW p \in Procs, Return(p), UNCHANGED <<status, cancelled>>
  PROVE  AbortInv'
<1>1. \A q \in Procs : pc'[q] = "commit" =>
                         q # p /\ pc[q] = "commit" /\ outcome'[q] = outcome[q]
  BY DEF Return, TypeOK, ProcsOK
<1>2. \A q \in Procs : q # p => Dead(q)' = Dead(q)
  BY DEF Return, Dead
<1> QED
  BY <1>1, <1>2 DEF AbortInv, AbortedNeverRecorded

(* A step that moves a process to another point than the transaction.      *)
LEMMA AbortMove ==
  ASSUME TypeOK, AbortInv, NEW p \in Procs, NEW step, step # "commit",
         pc' = [pc EXCEPT ![p] = step], UNCHANGED <<outcome, status, cancelled, gone>>
  PROVE  AbortInv'
<1>1. \A q \in Procs : pc'[q] = "commit" => pc[q] = "commit"
  BY DEF TypeOK, ProcsOK
<1> QED
  BY <1>1 DEF AbortInv, Dead, AbortedNeverRecorded

LEMMA AbortProc ==
  ASSUME TypeOK, AbortInv, NEW p \in Procs, ProcStep(p) \/ ProcStatementFails(p)
  PROVE  AbortInv'
<1> USE DEF dbVars, stopVars, ProcUntouched
<1>1. CASE ReadDomain(p)
  BY <1>1, AbortReturn, AbortMove DEF ReadDomain, Advance
<1>2. CASE ReadTenant(p)
  BY <1>2, AbortReturn, AbortMove DEF ReadTenant, Advance
<1>3. CASE Dial(p)
  <2>1. \A q \in Procs : Dead(q)' = Dead(q)
    BY <1>3 DEF Dial, Advance, Dead
  <2>2. outcome'[p] = "aborted" => Dead(p)
    BY <1>3 DEF Dial, TypeOK, ProcsOK
  <2>3. \A q \in Procs : q # p => pc'[q] = pc[q] /\ outcome'[q] = outcome[q]
    BY <1>3 DEF Dial, Advance, TypeOK, ProcsOK
  <2>4. \A q \in Procs : pc'[q] = "commit" /\ outcome'[q] = "aborted" => Dead(q)'
    BY <2>1, <2>2, <2>3 DEF AbortInv
  <2> QED
    BY <1>3, <2>4 DEF Dial, AbortInv, AbortedNeverRecorded
<1>4. CASE Commit(p)
  <2>1. CASE Return(p) /\ UNCHANGED dbVars
    BY <1>4, <2>1, AbortReturn DEF Commit
  <2>2. CASE ~Dead(p) /\ Record(p) /\ Advance(p, "report")
             /\ UNCHANGED <<outcome, checkedAt, nextAt, period>>
    <3>1. outcome[p] # "aborted"
      BY <1>4, <2>2 DEF Commit, AbortInv
    <3>2. \A d \in Domains : status'[d] # "aborted"
      BY <2>2, <3>1 DEF Record, AbortInv, AbortedNeverRecorded, TypeOK, RowsOK
    <3>3. \A q \in Procs : pc'[q] = "commit" => pc[q] = "commit"
      BY <2>2 DEF Advance, TypeOK, ProcsOK
    <3>4. \A q \in Procs : Dead(q)' = Dead(q)
      BY <1>4, <2>2 DEF Commit, Advance, Dead
    <3> QED
      BY <2>2, <3>2, <3>3, <3>4 DEF AbortInv, AbortedNeverRecorded
  <2> QED
    BY <1>4, <2>1, <2>2 DEF Commit
<1>5. CASE Report(p)
  BY <1>5, AbortReturn DEF Report
<1>6. CASE ProcStatementFails(p)
  BY <1>6, AbortReturn DEF ProcStatementFails
<1> QED
  BY <1>1, <1>2, <1>3, <1>4, <1>5, <1>6 DEF ProcStep

LEMMA AbortNext == TypeOK /\ AbortInv /\ [Next]_vars => AbortInv'
<1> SUFFICES ASSUME TypeOK, AbortInv, [Next]_vars PROVE AbortInv'
  OBVIOUS
<1> USE DEF dbVars, stopVars, loopVars, procVars, LoopUntouched
<1>1. CASE Tick
  BY <1>1, AbortFrame DEF Tick, abortVars
<1>2. ASSUME NEW d \in Domains, CreateDomain(d) \/ UpdateDomain(d) \/ DeleteDomain(d)
      PROVE  AbortInv'
  BY <1>2, AbortFrame DEF CreateDomain, UpdateDomain, DeleteDomain, abortVars
<1>3. ASSUME NEW t \in Tenants, SetTenantDisabled(t) PROVE AbortInv'
  BY <1>3, AbortFrame DEF SetTenantDisabled, abortVars
<1>4. CASE LoopDispatches \/ LoopStatementFails \/ LoopWake \/ LoopExit
  BY <1>4, AbortFrame
  DEF LoopDispatches, LoopQuery, LoopClaim, LoopStatementFails, HandoffSend, HandoffSpawn,
      HandoffCancelled, LoopWake, LoopExit, abortVars
<1>5. ASSUME NEW d \in Domains, EnqueuerSend(d) \/ EnqueuerQuit(d) PROVE AbortInv'
  BY <1>5, AbortFrame DEF EnqueuerSend, EnqueuerQuit, abortVars
<1>6. ASSUME NEW w \in Workers, WorkerTake(w) \/ WorkerExit(w) PROVE AbortInv'
  BY <1>6, AbortMove DEF WorkerTake, WorkerExit, Procs
<1>7. ASSUME NEW r \in Requests, NEW d \in Domains, RequestCheck(r, d) PROVE AbortInv'
  BY <1>7, AbortMove DEF RequestCheck, Procs
<1>8. ASSUME NEW r \in Requests, ClientLeaves(r) PROVE AbortInv'
  BY <1>8 DEF ClientLeaves, AbortInv, Dead, AbortedNeverRecorded
<1>9. ASSUME NEW p \in Procs, ProcStep(p) \/ ProcStatementFails(p) PROVE AbortInv'
  BY <1>9, AbortProc
<1>10. CASE Cancel
  BY <1>10 DEF Cancel, AbortInv, Dead, AbortedNeverRecorded
<1>11. CASE StopReturns \/ UNCHANGED vars
  BY <1>11, AbortFrame DEF StopReturns, vars, abortVars
<1>12. CASE Restart
  BY <1>12 DEF Restart, AbortInv, AbortedNeverRecorded
<1> QED
  BY <1>1, <1>2, <1>3, <1>4, <1>5, <1>6, <1>7, <1>8, <1>9, <1>10, <1>11, <1>12
  DEF Next, Terminated

(* AbortedNeverRecorded holds of every reachable state: no domain turns to *)
(* "error" because the server stopped or a client closed its connection.   *)
THEOREM AbortedChecksLeaveNoTrace == Spec => []AbortedNeverRecorded
<1>1. Init => AbortInv
  BY DEF Init, AbortInv, AbortedNeverRecorded
<1>2. TypeOK /\ AbortInv /\ [Next]_vars => AbortInv'
  BY AbortNext
<1>3. AbortInv => AbortedNeverRecorded
  BY DEF AbortInv
<1> QED
  BY <1>1, <1>2, <1>3, TypeCorrect, PTL DEF Spec

-----------------------------------------------------------------------------
(* The order of service.  A domain d that was claimed at or after the time *)
(* at which e became due is due again only later than e, and so a query    *)
(* lists e before it; only the batch in the loop's hand when e became due  *)
(* may let d pass without that.                                            *)

(* The rows of the batch that are still to be claimed.                     *)
Open(i) == i \in DOMAIN batch /\ (loopPc = "handoff" => i # 1)
Ahead(d) == \E i \in DOMAIN batch : Open(i) /\ batch[i] = d
Before(e, d) ==
  \E i, j \in DOMAIN batch : Open(i) /\ i < j /\ batch[i] = e /\ batch[j] = d

(* The claim that made d pass e puts d behind e from now on ...            *)
Passed(e, d) ==
  /\ nextCheckAt[d] > nextCheckAt[e]
  /\ Ahead(d) => nextCheckAt[d] > loopNow \/ (Before(e, d) /\ nextCheckAt[e] <= loopNow)

(* ... or it was made by a loop that had read its clock before e was due;  *)
(* the next claim of d is made by one that has read it since.              *)
Late(e, d) == loopNow >= nextCheckAt[e] \/ (~Ahead(d) /\ loopPc # "query")

OrderKept(e, d) ==
  overtakes[e][d] # 0 =>
    /\ Waiting(e)
    /\ Passed(e, d) \/ (overtakes[e][d] = 1 /\ Late(e, d))

BatchOK ==
  /\ \A i, j \in DOMAIN batch : batch[i] = batch[j] => i = j
  /\ loopPc \in {"query", "wait", "exited"} => batch = <<>>

OrderInv ==
  /\ TypeOK
  /\ BatchOK
  /\ overtakes \in [Domains -> [Domains -> 0 .. 2]]
  /\ \A e, d \in Domains : OrderKept(e, d)

LEMMA IntervalsArePositive == \A i \in Intervals : i \in Nat /\ i > 0
BY SchedulerAssumption

(* What a step may do to the batch.                                        *)
SameBatch ==
  /\ UNCHANGED <<batch, loopNow>>
  /\ loopPc' = loopPc \/ (loopPc = "wait" /\ loopPc' = "exited")
EmptyBatch == batch' = <<>> /\ loopPc' = "wait" /\ UNCHANGED loopNow
NewClock ==
  /\ loopPc' = "query" /\ loopNow' = now /\ now' = now
  /\ batch' = <<>>
NewBatch ==
  /\ loopPc = "query" /\ loopPc' \in {"claim", "wait"}
  /\ batch' \in Batches
  /\ loopPc' = "wait" => batch' = <<>>
  /\ UNCHANGED <<loopNow, row, suspended, nextCheckAt>>
NextInBatch ==
  /\ loopPc \in {"claim", "handoff"} /\ loopPc' \in {"claim", "wait"}
  /\ batch' = Tail(batch)
  /\ loopPc' = "wait" => batch' = <<>>
  /\ loopPc = "claim" => ~Claimable(Head(batch))
  /\ UNCHANGED <<loopNow, nextCheckAt>>
ClaimsHead ==
  /\ loopPc = "claim" /\ loopPc' = "handoff"
  /\ nextCheckAt' = [nextCheckAt EXCEPT ![Head(batch)] = loopNow + readInterval[Head(batch)]]
  /\ Claimable(Head(batch))
  /\ UNCHANGED <<loopNow, batch>>

LEMMA OrderSteps ==
  ASSUME TypeOK, BatchOK, [Next]_vars
  PROVE  \/ SameBatch \/ EmptyBatch \/ NewClock \/ NewBatch \/ NextInBatch \/ ClaimsHead
<1> USE DEF LoopUntouched, loopVars
<1>1. CASE LoopQuery
  <2>1. CASE LoopGoesOn(<<>>)
    BY <1>1, <2>1 DEF LoopQuery, LoopGoesOn, LoopHolds, EmptyBatch
  <2>2. CASE \E b \in Batches : LoopHolds(b, interval)
    BY <1>1, <2>2 DEF LoopQuery, LoopHolds, NewBatch
  <2> QED
    BY <1>1, <2>1, <2>2 DEF LoopQuery
<1>2. CASE LoopClaim
  <2>1. CASE LoopGoesOn(<<>>)
    BY <1>2, <2>1 DEF LoopClaim, LoopGoesOn, LoopHolds, EmptyBatch
  <2>2. CASE ~Claimable(Head(batch)) /\ LoopGoesOn(Tail(batch)) /\ UNCHANGED nextCheckAt
    BY <1>2, <2>2 DEF LoopClaim, LoopGoesOn, LoopHolds, NextInBatch
  <2>3. CASE loopPc' = "handoff"
    BY <1>2, <2>3 DEF LoopClaim, LoopGoesOn, LoopHolds, ClaimsHead
  <2> QED
    BY <1>2, <2>1, <2>2, <2>3 DEF LoopClaim
<1>3. CASE HandoffSend \/ HandoffSpawn
  BY <1>3 DEF HandoffSend, HandoffSpawn, LoopGoesOn, LoopHolds, NextInBatch
<1>4. CASE HandoffCancelled \/ LoopStatementFails
  BY <1>4 DEF HandoffCancelled, LoopStatementFails, LoopGoesOn, LoopHolds, EmptyBatch
<1>5. CASE LoopWake
  BY <1>5 DEF LoopWake, NewClock, BatchOK
<1>6. CASE Restart
  BY <1>6 DEF Restart, NewClock
<1>7. CASE LoopExit
  BY <1>7 DEF LoopExit, SameBatch
<1>8. CASE UNCHANGED loopVars
  BY <1>8 DEF SameBatch
<1>9. ASSUME NEW p \in Procs, ProcStep(p) \/ ProcStatementFails(p)
      PROVE  UNCHANGED loopVars
  BY <1>9 DEF ProcStep, ReadDomain, ReadTenant, Dial, Commit, Report, ProcStatementFails, ProcUntouched
<1>10. ASSUME NEW d \in Domains, CreateDomain(d) \/ UpdateDomain(d) \/ DeleteDomain(d)
                                 \/ EnqueuerSend(d) \/ EnqueuerQuit(d)
       PROVE  UNCHANGED loopVars
  BY <1>10 DEF CreateDomain, UpdateDomain, DeleteDomain, EnqueuerSend, EnqueuerQuit
<1>11. ASSUME NEW w \in Workers, WorkerTake(w) \/ WorkerExit(w)
       PROVE  UNCHANGED loopVars
  BY <1>11 DEF WorkerTake, WorkerExit
<1>12. ASSUME NEW r \in Requests, ClientLeaves(r) \/ \E d \in Domains : RequestCheck(r, d)
       PROVE  UNCHANGED loopVars
  BY <1>12 DEF ClientLeaves, RequestCheck
<1>13. ASSUME Tick \/ Cancel \/ StopReturns \/ \E t \in Tenants : SetTenantDisabled(t)
       PROVE  UNCHANGED loopVars
  BY <1>13 DEF Tick, Cancel, StopReturns, SetTenantDisabled
<1>14. CASE UNCHANGED vars
  BY <1>8, <1>14 DEF vars
<1> QED
  BY <1>1, <1>2, <1>3, <1>4, <1>5, <1>6, <1>7, <1>8, <1>9, <1>10, <1>11, <1>12, <1>13, <1>14
  DEF Next, LoopDispatches, Terminated

LEMMA BatchesAreOrdered ==
  ASSUME NEW b \in Batches
  PROVE  /\ \A i, j \in DOMAIN b : b[i] = b[j] => i = j
         /\ \A i \in DOMAIN b : b[i] \in Due
         /\ DOMAIN b \in SUBSET Nat
         /\ IsBatch(b)
<1>1. DOMAIN b = 1 .. Smaller(Cardinality(Due), BatchLimit) /\ IsBatch(b)
  BY DEF Batches
<1>2. \A i \in DOMAIN b : b[i] \in Due
  BY DEF Batches
<1>3. Smaller(Cardinality(Due), BatchLimit) \in Nat
  <2>1. IsFiniteSet(Due)
    BY SchedulerAssumption, FS_Subset DEF Due
  <2> QED
    BY <2>1, SizesAreNat, FS_CardinalityType DEF Smaller
<1>4. DOMAIN b \in SUBSET Nat
  BY <1>1, <1>3
<1>5. ASSUME NEW i \in DOMAIN b, NEW j \in DOMAIN b, b[i] = b[j], i # j
      PROVE  FALSE
  <2>1. i < j \/ j < i
    BY <1>4, <1>5
  <2> QED
    BY <1>1, <1>5, <2>1 DEF IsBatch
<1> QED
  BY <1>1, <1>2, <1>4, <1>5

LEMMA BatchStaysOK ==
  ASSUME TypeOK, BatchOK, [Next]_vars
  PROVE  BatchOK'
<1>1. batch \in Seq(Domains) /\ (loopPc \in {"claim", "handoff"} => batch # <<>>)
  BY DEF TypeOK, LoopOK
<1>2. CASE SameBatch
  BY <1>2 DEF SameBatch, BatchOK
<1>3. CASE EmptyBatch \/ NewClock
  BY <1>3 DEF EmptyBatch, NewClock, BatchOK
<1>4. CASE NewBatch
  BY <1>4, BatchesAreOrdered DEF NewBatch, BatchOK
<1>5. CASE NextInBatch
  <2>1. \A i \in DOMAIN batch' : i + 1 \in DOMAIN batch /\ batch'[i] = batch[i + 1] /\ i \in Nat
    BY <1>1, <1>5 DEF NextInBatch
  <2>2. ASSUME NEW i \in DOMAIN batch', NEW j \in DOMAIN batch', batch'[i] = batch'[j]
        PROVE  i = j
    <3>1. i + 1 = j + 1
      BY <2>1, <2>2 DEF BatchOK
    <3> QED
      BY <2>1, <3>1
  <2> QED
    BY <1>5, <2>2 DEF NextInBatch, BatchOK
<1>6. CASE ClaimsHead
  BY <1>6 DEF ClaimsHead, BatchOK
<1> QED
  BY <1>2, <1>3, <1>4, <1>5, <1>6, OrderSteps

(* What a count that is not reset tells of the step.                       *)
LEMMA CountFacts ==
  ASSUME OrderInv, CountOvertakes, NEW e \in Domains, NEW d \in Domains, overtakes'[e][d] # 0
  PROVE  /\ Waiting(e) /\ Waiting(e)'
         /\ nextCheckAt'[e] = nextCheckAt[e]
         /\ ~(nextCheckAt'[d] < nextCheckAt[d])
         /\ overtakes'[e][d] = IF ClaimStep(d) THEN overtakes[e][d] + 1 ELSE overtakes[e][d]
BY DEF CountOvertakes, Served, ClaimUndone

(* A step that leaves the batch, or empties it, keeps the order.           *)
LEMMA QuietStepKeepsOrder ==
  ASSUME OrderInv, TypeOK', CountOvertakes, NEW e \in Domains, NEW d \in Domains,
         overtakes'[e][d] # 0, SameBatch \/ EmptyBatch \/ NewClock
  PROVE  OrderKept(e, d)' /\ overtakes'[e][d] = overtakes[e][d]
<1>1. /\ Waiting(e) /\ Waiting(e)'
      /\ nextCheckAt'[e] = nextCheckAt[e]
      /\ ~(nextCheckAt'[d] < nextCheckAt[d])
      /\ overtakes'[e][d] = IF ClaimStep(d) THEN overtakes[e][d] + 1 ELSE overtakes[e][d]
  BY CountFacts
<1>2. /\ nextCheckAt[e] \in Nat /\ nextCheckAt[d] \in Nat /\ loopNow \in Nat /\ now \in Nat
      /\ nextCheckAt'[e] \in Nat /\ nextCheckAt'[d] \in Nat
  BY DEF OrderInv, TypeOK, RowsOK, LoopOK
<1>3. ~ClaimStep(d)
  BY DEF ClaimStep, SameBatch, EmptyBatch, NewClock
<1>4. OrderKept(e, d) /\ overtakes[e][d] # 0 /\ overtakes'[e][d] = overtakes[e][d]
  BY <1>1, <1>3 DEF OrderInv
<1>5. CASE SameBatch
  <2>1. Ahead(d)' => Ahead(d)
    BY <1>5 DEF SameBatch, Ahead, Open
  <2>2. Ahead(d)' /\ Before(e, d) => Before(e, d)'
    BY <1>5 DEF SameBatch, Ahead, Before, Open
  <2>3. Passed(e, d) => Passed(e, d)'
    BY <1>1, <1>2, <1>5, <2>1, <2>2 DEF Passed, SameBatch
  <2>4. Late(e, d) => Late(e, d)'
    BY <1>1, <1>5, <2>1 DEF Late, SameBatch
  <2> QED
    BY <1>1, <1>4, <2>3, <2>4 DEF OrderKept
<1>6. CASE EmptyBatch \/ NewClock
  <2>1. ~Ahead(d)'
    BY <1>6 DEF EmptyBatch, NewClock, Ahead, Open
  <2>2. Passed(e, d) => Passed(e, d)'
    BY <1>1, <1>2, <2>1 DEF Passed
  <2>3. Late(e, d) => Late(e, d)'
    <3>1. CASE EmptyBatch
      BY <1>1, <2>1, <3>1 DEF Late, EmptyBatch
    <3>2. CASE NewClock
      BY <1>1, <1>2, <3>2 DEF Late, NewClock, Waiting
    <3> QED
      BY <1>6, <3>1, <3>2
  <2> QED
    BY <1>1, <1>4, <2>2, <2>3 DEF OrderKept
<1> QED
  BY <1>4, <1>5, <1>6

(* A query lists e before the d that has passed it.                        *)
LEMMA QueryKeepsOrder ==
  ASSUME OrderInv, CountOvertakes, NEW e \in Domains, NEW d \in Domains,
         overtakes'[e][d] # 0, NewBatch
  PROVE  OrderKept(e, d)' /\ overtakes'[e][d] = overtakes[e][d]
<1>1. /\ Waiting(e) /\ Waiting(e)'
      /\ overtakes'[e][d] = IF ClaimStep(d) THEN overtakes[e][d] + 1 ELSE overtakes[e][d]
  BY CountFacts
<1>2. ~ClaimStep(d)
  BY DEF ClaimStep, NewBatch
<1>3. OrderKept(e, d) /\ overtakes[e][d] # 0 /\ overtakes'[e][d] = overtakes[e][d]
  BY <1>1, <1>2 DEF OrderInv
<1>4. /\ nextCheckAt[e] \in Nat /\ nextCheckAt[d] \in Nat /\ loopNow \in Nat
      /\ UNCHANGED <<loopNow, nextCheckAt>>
      /\ loopPc' # "handoff" /\ loopPc = "query"
  BY DEF OrderInv, TypeOK, RowsOK, LoopOK, NewBatch
<1>5. /\ \A i \in DOMAIN batch' : batch'[i] \in Due
      /\ DOMAIN batch' \in SUBSET Nat
      /\ IsBatch(batch')
  BY BatchesAreOrdered DEF NewBatch
<1>6. Passed(e, d) => Passed(e, d)'
  <2> SUFFICES ASSUME Passed(e, d), Ahead(d)'
               PROVE  Before(e, d)' /\ nextCheckAt[e] <= loopNow
    BY <1>4 DEF Passed
  <2>1. PICK j \in DOMAIN batch' : batch'[j] = d
    BY DEF Ahead, Open
  <2>2. nextCheckAt[d] <= loopNow /\ nextCheckAt[d] > nextCheckAt[e]
    BY <1>5, <2>1 DEF Due, Passed
  <2>3. nextCheckAt[e] <= loopNow /\ e \in Due
    BY <1>1, <1>4, <2>2 DEF Due, Waiting
  <2>4. PICK i \in DOMAIN batch' : batch'[i] = e
    BY <1>4, <1>5, <2>1, <2>2, <2>3 DEF IsBatch
  <2>5. i < j
    <3>1. i \in Nat /\ j \in Nat /\ i # j
      BY <1>4, <1>5, <2>1, <2>2, <2>4
    <3>2. ~(j < i)
      BY <1>4, <1>5, <2>1, <2>2, <2>4 DEF IsBatch
    <3> QED
      BY <3>1, <3>2
  <2> QED
    BY <1>4, <2>1, <2>3, <2>4, <2>5 DEF Before, Open
<1>7. Late(e, d) => Late(e, d)'
  BY <1>4 DEF Late
<1> QED
  BY <1>1, <1>3, <1>6, <1>7 DEF OrderKept

(* The next row of the batch: e itself is not passed over.                 *)
LEMMA NextInBatchKeepsOrder ==
  ASSUME OrderInv, CountOvertakes, NEW e \in Domains, NEW d \in Domains,
         overtakes'[e][d] # 0, NextInBatch
  PROVE  OrderKept(e, d)' /\ overtakes'[e][d] = overtakes[e][d]
<1>1. /\ Waiting(e) /\ Waiting(e)'
      /\ overtakes'[e][d] = IF ClaimStep(d) THEN overtakes[e][d] + 1 ELSE overtakes[e][d]
  BY CountFacts
<1>2. ~ClaimStep(d)
  BY DEF ClaimStep, NextInBatch
<1>3. OrderKept(e, d) /\ overtakes[e][d] # 0 /\ overtakes'[e][d] = overtakes[e][d]
  BY <1>1, <1>2 DEF OrderInv
<1>4. /\ nextCheckAt[e] \in Nat /\ nextCheckAt[d] \in Nat /\ loopNow \in Nat
      /\ UNCHANGED <<loopNow, nextCheckAt>>
      /\ loopPc' \in {"claim", "wait"} /\ loopPc \in {"claim", "handoff"}
      /\ batch \in Seq(Domains) /\ batch # <<>>
  BY DEF OrderInv, TypeOK, RowsOK, LoopOK, NextInBatch
<1>5. /\ \A i \in DOMAIN batch' : i + 1 \in DOMAIN batch /\ batch'[i] = batch[i + 1] /\ i \in Nat /\ i + 1 # 1
      /\ \A i \in DOMAIN batch : i # 1 => i - 1 \in DOMAIN batch' /\ batch'[i - 1] = batch[i] /\ i \in Nat
      /\ Head(batch) = batch[1]
  BY <1>4 DEF NextInBatch
<1>6. Ahead(d)' => Ahead(d)
  BY <1>5 DEF Ahead, Open
<1>7. Passed(e, d) => Passed(e, d)'
  <2> SUFFICES ASSUME nextCheckAt[e] <= loopNow, Before(e, d)
               PROVE  Before(e, d)'
    BY <1>4, <1>6 DEF Passed
  <2>1. PICK i \in DOMAIN batch, j \in DOMAIN batch : Open(i) /\ i < j /\ batch[i] = e /\ batch[j] = d
    BY DEF Before
  <2>2. i # 1
    <3> SUFFICES ASSUME i = 1
                 PROVE  FALSE
      OBVIOUS
    <3>1. loopPc = "claim"
      BY <1>4, <2>1 DEF Open
    <3>2. ~Claimable(e)
      BY <1>5, <2>1, <3>1 DEF NextInBatch
    <3> QED
      BY <1>1, <3>2 DEF Claimable, Waiting, Eligible
  <2>3. i \in Nat /\ j \in Nat /\ j # 1 /\ i >= 1
    BY <1>4, <2>1
  <2>4. /\ i - 1 \in DOMAIN batch' /\ batch'[i - 1] = e
        /\ j - 1 \in DOMAIN batch' /\ batch'[j - 1] = d
        /\ i - 1 < j - 1
    BY <1>5, <2>1, <2>2, <2>3
  <2> QED
    BY <1>4, <2>4 DEF Before, Open
<1>8. Late(e, d) => Late(e, d)'
  BY <1>4, <1>6 DEF Late
<1> QED
  BY <1>1, <1>3, <1>7, <1>8 DEF OrderKept

(* The claim: of a domain that has not passed e, or of another one.        *)
LEMMA ClaimKeepsOrder ==
  ASSUME OrderInv, TypeOK', CountOvertakes, NEW e \in Domains, NEW d \in Domains,
         overtakes'[e][d] # 0, ClaimsHead
  PROVE  OrderKept(e, d)' /\ overtakes'[e][d] \in 0 .. 2
<1>1. /\ Waiting(e) /\ Waiting(e)'
      /\ nextCheckAt'[e] = nextCheckAt[e]
      /\ ~(nextCheckAt'[d] < nextCheckAt[d])
      /\ overtakes'[e][d] = IF ClaimStep(d) THEN overtakes[e][d] + 1 ELSE overtakes[e][d]
  BY CountFacts
<1>2. /\ nextCheckAt \in [Domains -> Nat] /\ loopNow \in Nat
      /\ batch \in Seq(Domains) /\ batch # <<>>
      /\ readInterval \in [Domains -> Intervals]
      /\ nextCheckAt' \in [Domains -> Nat]
      /\ overtakes[e][d] \in 0 .. 2 /\ OrderKept(e, d)
      /\ loopPc = "claim" /\ loopPc' = "handoff" /\ batch' = batch /\ loopNow' = loopNow
  BY DEF OrderInv, TypeOK, RowsOK, LoopOK, ClaimsHead
<1>3. /\ 1 \in DOMAIN batch /\ Head(batch) = batch[1] /\ Head(batch) \in Domains
      /\ \A i \in DOMAIN batch : batch[i] = batch[1] => i = 1
  BY <1>2 DEF OrderInv, BatchOK
<1>4. CASE Head(batch) = d
  <2>1. ClaimStep(d) /\ overtakes'[e][d] = overtakes[e][d] + 1
    BY <1>1, <1>2, <1>4 DEF ClaimStep
  <2>2. readInterval[d] \in Nat /\ readInterval[d] > 0
    BY <1>2, IntervalsArePositive
  <2>3. nextCheckAt'[d] > loopNow
    <3>1. nextCheckAt'[d] = loopNow + readInterval[d]
      BY <1>2, <1>4 DEF ClaimsHead
    <3> QED
      BY <1>2, <2>2, <3>1
  <2>4. ~Ahead(d)'
    BY <1>2, <1>3, <1>4 DEF Ahead, Open
  <2>5. CASE overtakes[e][d] = 0
    BY <1>1, <1>2, <2>1, <2>4, <2>5 DEF OrderKept, Late
  <2>6. CASE overtakes[e][d] # 0
    <3>1. ~Passed(e, d)
      <4> SUFFICES ASSUME Passed(e, d)
                   PROVE  FALSE
        OBVIOUS
      <4>1. nextCheckAt[d] <= loopNow
        BY <1>4 DEF ClaimsHead, Claimable
      <4>2. Ahead(d)
        BY <1>2, <1>3, <1>4 DEF Ahead, Open
      <4>3. Before(e, d)
        BY <1>2, <4>1, <4>2 DEF Passed
      <4>4. PICK i \in DOMAIN batch, j \in DOMAIN batch : i < j /\ batch[j] = d
        BY <4>3 DEF Before
      <4> QED
        BY <1>2, <1>3, <1>4, <4>4
    <3>2. overtakes[e][d] = 1 /\ Late(e, d)
      BY <1>2, <2>6, <3>1 DEF OrderKept
    <3>3. Ahead(d)
      BY <1>2, <1>3, <1>4 DEF Ahead, Open
    <3>4. loopNow >= nextCheckAt[e]
      BY <3>2, <3>3 DEF Late
    <3>5. nextCheckAt'[d] > nextCheckAt'[e]
      BY <1>1, <1>2, <2>2, <2>3, <3>4
    <3> QED
      BY <1>1, <2>1, <2>4, <3>2, <3>5 DEF OrderKept, Passed
  <2> QED
    BY <2>5, <2>6
<1>5. CASE Head(batch) # d
  <2>1. ~ClaimStep(d) /\ overtakes'[e][d] = overtakes[e][d] /\ nextCheckAt'[d] = nextCheckAt[d]
    BY <1>1, <1>2, <1>3, <1>5 DEF ClaimStep, ClaimsHead
  <2>2. Ahead(d)' => Ahead(d)
    BY <1>2 DEF Ahead, Open
  <2>3. Passed(e, d) => Passed(e, d)'
    <3> SUFFICES ASSUME Passed(e, d), nextCheckAt[e] <= loopNow, Before(e, d)
                 PROVE  Before(e, d)'
      BY <1>1, <1>2, <2>1, <2>2 DEF Passed
    <3>1. PICK i \in DOMAIN batch, j \in DOMAIN batch : i < j /\ batch[i] = e /\ batch[j] = d
      BY DEF Before
    <3>2. i # 1
      <4> SUFFICES ASSUME i = 1
                   PROVE  FALSE
        OBVIOUS
      <4>1. nextCheckAt'[e] = loopNow + readInterval[e] /\ nextCheckAt[e] <= loopNow
        BY <1>2, <1>3, <3>1 DEF ClaimsHead, Claimable
      <4>2. readInterval[e] \in Nat /\ readInterval[e] > 0
        BY <1>2, IntervalsArePositive
      <4> QED
        BY <1>1, <1>2, <4>1, <4>2
    <3> QED
      BY <1>2, <3>1, <3>2 DEF Before, Open
  <2>4. Late(e, d) => Late(e, d)'
    BY <1>1, <1>2, <2>2 DEF Late
  <2> QED
    BY <1>1, <1>2, <2>1, <2>3, <2>4 DEF OrderKept
<1> QED
  BY <1>4, <1>5

LEMMA OrderInitInv == OrderInit => OrderInv
<1> SUFFICES ASSUME OrderInit
             PROVE  OrderInv
  OBVIOUS
<1>1. TypeOK
  BY TypeInit DEF OrderInit
<1>2. BatchOK
  BY DEF OrderInit, Init, BatchOK
<1> QED
  BY <1>1, <1>2 DEF OrderInit, OrderInv, OrderKept

LEMMA OrderNextInv == OrderInv /\ [OrderNext]_<<vars, overtakes>> => OrderInv'
<1> SUFFICES ASSUME OrderInv, [OrderNext]_<<vars, overtakes>>
             PROVE  OrderInv'
  OBVIOUS
<1>1. TypeOK' /\ BatchOK'
  BY TypeNext, BatchStaysOK DEF OrderInv, OrderNext
<1>2. CASE OrderNext
  <2>1. SameBatch \/ EmptyBatch \/ NewClock \/ NewBatch \/ NextInBatch \/ ClaimsHead
    BY <1>2, OrderSteps DEF OrderInv, OrderNext
  <2>2. ASSUME NEW e \in Domains, NEW d \in Domains
        PROVE  OrderKept(e, d)' /\ overtakes'[e][d] \in 0 .. 2
    <3>1. CASE overtakes'[e][d] = 0
      BY <3>1 DEF OrderKept
    <3>2. CASE overtakes'[e][d] # 0
      <4>1. overtakes[e][d] \in 0 .. 2
        BY DEF OrderInv
      <4> QED
        BY <1>1, <1>2, <2>1, <3>2, <4>1, QuietStepKeepsOrder, QueryKeepsOrder, NextInBatchKeepsOrder,
           ClaimKeepsOrder DEF OrderNext
    <3> QED
      BY <3>1, <3>2
  <2>3. overtakes' \in [Domains -> [Domains -> 0 .. 2]]
    <3>1. \A e, d \in Domains : overtakes'[e][d] \in 0 .. 2
      BY <2>2
    <3>2. /\ overtakes' = [e \in Domains |-> overtakes'[e]]
          /\ \A e \in Domains : overtakes'[e] = [d \in Domains |-> overtakes'[e][d]]
      BY <1>2 DEF OrderNext, CountOvertakes
    <3> QED
      BY <3>1, <3>2
  <2> QED
    BY <1>1, <2>2, <2>3 DEF OrderInv
<1>3. CASE UNCHANGED <<vars, overtakes>>
  BY <1>1, <1>3 DEF OrderInv, OrderKept, Passed, Late, Ahead, Before, Open, Waiting, Eligible, vars,
     dbVars, loopVars
<1> QED
  BY <1>2, <1>3

(* While a due domain waits to be claimed, no other domain is claimed more *)
(* than twice, whatever the sizes of the backlog, the batch and the        *)
(* intervals (dispatchDueDomains).                                         *)
THEOREM OvertakingIsBounded == OrderSpec => []BoundedOvertaking
<1>1. OrderInv => BoundedOvertaking
  BY DEF OrderInv, BoundedOvertaking
<1> QED
  BY <1>1, OrderInitInv, OrderNextInv, PTL DEF OrderSpec
=============================================================================
