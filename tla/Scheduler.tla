------------------------------ MODULE Scheduler ------------------------------
(***************************************************************************)
(* The background scheduler of the API server: one loop that claims due    *)
(* domains in the database, a bounded channel of jobs, goroutines that     *)
(* wait to enqueue when the channel is full, a pool of workers, and the    *)
(* HTTP requests that run the same check on demand.  The database rows     *)
(* survive a crash; everything else is memory of the process.              *)
(*                                                                         *)
(* Each database statement and each transaction is one atomic step (the    *)
(* default database is SQLite); everything between two statements          *)
(* interleaves.                                                            *)
(***************************************************************************)
EXTENDS Integers, Sequences, FiniteSets

CONSTANTS
  Domains,      \* ids of the monitored domains
  Tenants,      \* ids of the tenants
  Owner,        \* [Domains -> Tenants], the column tenant_id
  Intervals,    \* the values of check_interval_seconds
  Workers,      \* the ScanConcurrency worker goroutines
  Requests,     \* HTTP requests that may run a manual check at one time
  NoDomain,     \* "no domain in hand"
  QueueFactor,  \* the job channel holds QueueFactor * ScanConcurrency (2 in the code)
  BatchFactor,  \* a dispatch reads BatchFactor * ScanConcurrency rows (4 in the code)
  MaxNow,       \* bound: the clock stops here
  MaxFaults,    \* bound: crashes and failing statements
  MaxEdits      \* bound: changes the HTTP handlers make to existing rows

ASSUME SchedulerAssumption ==
  /\ NoDomain \notin Domains
  /\ Workers \cap Requests = {}
  /\ IsFiniteSet(Workers)
  /\ IsFiniteSet(Domains)
  /\ Owner \in [Domains -> Tenants]
  /\ Intervals \subseteq Nat \ {0}
  /\ Intervals # {}
  /\ QueueFactor \in Nat \ {0}
  /\ BatchFactor \in Nat \ {0}
  /\ MaxNow \in Nat
  /\ MaxFaults \in Nat
  /\ MaxEdits \in Nat

Procs      == Workers \cup Requests
JobsCap    == QueueFactor * Cardinality(Workers)
BatchLimit == BatchFactor * Cardinality(Workers)
Never      == -1

VARIABLES
  now,            \* the clock
  faults, edits,  \* faults injected and rows edited so far
  (* database *)
  row,            \* [Domains -> "none" | "enabled" | "disabled" | "deleted"]
  interval,       \* [Domains -> check_interval_seconds]
  suspended,      \* the tenants whose column disabled is true
  status,         \* [Domains -> status of the last recorded check]
  nextCheckAt,    \* [Domains -> next_check_at]
  lastCheckedAt,  \* [Domains -> last_checked_at, or Never]
  (* memory of the process *)
  cancelled,      \* the run context is cancelled
  stopped,        \* Stop has returned
  loopPc, loopNow, batch,
  readInterval,   \* [Domains -> check_interval_seconds as the batch's query read it]
  jobs,           \* the channel
  blocked,        \* [Domains -> number of goroutines waiting to enqueue the domain]
  pc, dom, outcome, checkedAt, nextAt,   \* processDomain, one entry per process
  period,         \* [process -> check_interval_seconds as processDomain read it]
  gone,           \* the requests whose client went away (their context is cancelled)
  (* history *)
  owed            \* [Domains -> claimed, and no worker has taken a job of it since]

dbVars   == <<row, interval, suspended, status, nextCheckAt, lastCheckedAt>>
loopVars == <<loopPc, loopNow, batch, readInterval>>
procVars == <<pc, dom, outcome, checkedAt, nextAt, period>>
stopVars == <<cancelled, stopped>>
vars == <<now, faults, edits, dbVars, stopVars, loopVars, jobs, blocked, procVars, gone, owed>>

RowStates == {"none", "enabled", "disabled", "deleted"}

(* A check settles what the host answers ("healthy" or "error", which the  *)
(* scheduler treats alike), or its own context is cancelled under it and   *)
(* the error it reports says nothing of the host.                          *)
Outcomes == {"settled", "aborted"}
Statuses == {"pending"} \cup Outcomes
LoopPcs  == {"query", "claim", "handoff", "wait", "exited"}
ProcPcs  == {"idle", "read", "tenant", "dial", "commit", "report", "exited"}

RowsOK ==
  /\ row \in [Domains -> RowStates]
  /\ interval \in [Domains -> Intervals]
  /\ suspended \subseteq Tenants
  /\ status \in [Domains -> Statuses]
  /\ nextCheckAt \in [Domains -> Nat]
  /\ lastCheckedAt \in [Domains -> Nat \cup {Never}]

LoopOK ==
  /\ loopPc \in LoopPcs
  /\ loopNow \in Nat
  /\ batch \in Seq(Domains)
  /\ loopPc \in {"claim", "handoff"} => batch # <<>>
  /\ readInterval \in [Domains -> Intervals]

QueueOK ==
  /\ jobs \in Seq(Domains)
  /\ Len(jobs) <= JobsCap
  /\ blocked \in [Domains -> Nat]
  /\ owed \in [Domains -> BOOLEAN]

ProcsOK ==
  /\ pc \in [Procs -> ProcPcs]
  /\ dom \in [Procs -> Domains \cup {NoDomain}]
  /\ \A p \in Procs : pc[p] \notin {"idle", "exited"} => dom[p] \in Domains
  /\ outcome \in [Procs -> Outcomes]
  /\ checkedAt \in [Procs -> Nat]
  /\ nextAt \in [Procs -> Nat]
  /\ period \in [Procs -> Intervals]
  /\ gone \subseteq Requests

(* Every variable keeps its type, and the channel its capacity.            *)
TypeOK ==
  /\ now \in Nat /\ faults \in Nat /\ edits \in Nat
  /\ cancelled \in BOOLEAN /\ stopped \in BOOLEAN
  /\ RowsOK
  /\ LoopOK
  /\ QueueOK
  /\ ProcsOK

(* A value of no meaning for what holds no interval.                       *)
AnyInterval == CHOOSE i \in Intervals : TRUE

(* The database is empty and nothing is queued; nobody is at work and the  *)
(* loop is about to run its initial dispatch.                              *)
Init ==
  /\ now = 0
  /\ faults = 0
  /\ edits = 0
  /\ row = [d \in Domains |-> "none"]
  /\ interval = [d \in Domains |-> AnyInterval]
  /\ suspended = {}
  /\ status = [d \in Domains |-> "pending"]
  /\ nextCheckAt = [d \in Domains |-> 0]
  /\ lastCheckedAt = [d \in Domains |-> Never]
  /\ cancelled = FALSE
  /\ stopped = FALSE
  /\ loopPc = "query"
  /\ loopNow = 0
  /\ batch = <<>>
  /\ readInterval = [d \in Domains |-> AnyInterval]
  /\ jobs = <<>>
  /\ blocked = [d \in Domains |-> 0]
  /\ pc = [p \in Procs |-> "idle"]
  /\ dom = [p \in Procs |-> NoDomain]
  /\ outcome = [p \in Procs |-> "settled"]
  /\ checkedAt = [p \in Procs |-> 0]
  /\ nextAt = [p \in Procs |-> 0]
  /\ period = [p \in Procs |-> AnyInterval]
  /\ gone = {}
  /\ owed = [d \in Domains |-> FALSE]

-----------------------------------------------------------------------------
(* The clock, and the rows the HTTP handlers change under the scheduler.   *)

Tick ==
  /\ now < MaxNow
  /\ now' = now + 1
  /\ UNCHANGED <<faults, edits, dbVars, stopVars, loopVars, jobs, blocked, procVars, gone, owed>>

(* A created row is enabled and due at once, whatever the request said of  *)
(* "enabled": the column has a default, so a false value is not inserted.  *)
CreateDomain(d) ==
  /\ row[d] = "none"
  /\ row' = [row EXCEPT ![d] = "enabled"]
  /\ \E i \in Intervals : interval' = [interval EXCEPT ![d] = i]
  /\ nextCheckAt' = [nextCheckAt EXCEPT ![d] = now]
  /\ UNCHANGED <<now, faults, edits, suspended, status, lastCheckedAt, stopVars,
                 loopVars, jobs, blocked, procVars, gone, owed>>

(* An update may pause or resume a domain and give it another interval; it *)
(* leaves next_check_at alone.                                             *)
UpdateDomain(d) ==
  /\ edits < MaxEdits
  /\ edits' = edits + 1
  /\ row[d] \in {"enabled", "disabled"}
  /\ \E e \in {"enabled", "disabled"} : row' = [row EXCEPT ![d] = e]
  /\ \E i \in Intervals : interval' = [interval EXCEPT ![d] = i]
  /\ UNCHANGED <<now, faults, suspended, status, nextCheckAt, lastCheckedAt,
                 stopVars, loopVars, jobs, blocked, procVars, gone, owed>>

DeleteDomain(d) ==
  /\ edits < MaxEdits
  /\ edits' = edits + 1
  /\ row[d] \in {"enabled", "disabled"}
  /\ row' = [row EXCEPT ![d] = "deleted"]
  /\ UNCHANGED <<now, faults, interval, suspended, status, nextCheckAt, lastCheckedAt,
                 stopVars, loopVars, jobs, blocked, procVars, gone, owed>>

SetTenantDisabled(t) ==
  /\ edits < MaxEdits
  /\ edits' = edits + 1
  /\ suspended' = IF t \in suspended THEN suspended \ {t} ELSE suspended \cup {t}
  /\ UNCHANGED <<now, faults, row, interval, status, nextCheckAt, lastCheckedAt, stopVars,
                 loopVars, jobs, blocked, procVars, gone, owed>>

-----------------------------------------------------------------------------
(* The loop: dispatchDueDomains, once at the start and on every tick.      *)

Eligible(d) == row[d] = "enabled" /\ Owner[d] \notin suspended
Due == {d \in Domains : Eligible(d) /\ nextCheckAt[d] <= loopNow}

Smaller(a, b) == IF a <= b THEN a ELSE b

(* Mutant: the rows come latest first.                                     *)
IsBatchNewestFirst(b) ==
  /\ \A i, j \in DOMAIN b : i < j => b[i] # b[j] /\ nextCheckAt[b[i]] >= nextCheckAt[b[j]]
  /\ \A i \in DOMAIN b, d \in Due :
       (\A k \in DOMAIN b : b[k] # d) => nextCheckAt[b[i]] >= nextCheckAt[d]

(* The query's answers: the BatchLimit due rows with the least             *)
(* next_check_at, in that order; the order of equal ones is open.          *)
IsBatch(b) ==
  /\ \A i, j \in DOMAIN b : i < j => b[i] # b[j] /\ nextCheckAt[b[i]] <= nextCheckAt[b[j]]
  /\ \A i \in DOMAIN b, d \in Due :
       (\A k \in DOMAIN b : b[k] # d) => nextCheckAt[b[i]] <= nextCheckAt[d]

Batches == {b \in [1..Smaller(Cardinality(Due), BatchLimit) -> Due] : IsBatch(b)}

(* On to the next of the rows the query read, or back to the select of the *)
(* loop.                                                                   *)
LoopHolds(rest, intervals) ==
  /\ batch' = rest
  /\ loopPc' = IF rest = <<>> THEN "wait" ELSE "claim"
  /\ readInterval' = IF rest = <<>> THEN [d \in Domains |-> AnyInterval] ELSE intervals

LoopGoesOn(rest) == LoopHolds(rest, readInterval)

LoopUntouched == <<now, faults, edits, row, interval, suspended, status, lastCheckedAt, stopVars,
                   loopNow, procVars, gone>>

LoopQuery ==
  /\ loopPc = "query"
  /\ IF cancelled THEN LoopGoesOn(<<>>)
                  ELSE \E b \in Batches : LoopHolds(b, interval)
  /\ UNCHANGED <<LoopUntouched, nextCheckAt, jobs, blocked, owed>>

(* Mutant: the claim updates the row by id alone.                          *)
ClaimableUnchecked(d) == row[d] \in {"enabled", "disabled"}

(* The claim is a compare-and-set on the row: it takes nothing that a      *)
(* check has pushed past loopNow since the query.                          *)
Claimable(d) == row[d] \in {"enabled", "disabled"} /\ nextCheckAt[d] <= loopNow

LoopClaim ==
  LET d == Head(batch) IN
  /\ loopPc = "claim"
  /\ \/ /\ cancelled
        /\ LoopGoesOn(<<>>)
        /\ UNCHANGED <<nextCheckAt, owed>>
     \/ /\ ~cancelled
        /\ Claimable(d)
        /\ nextCheckAt' = [nextCheckAt EXCEPT ![d] = loopNow + readInterval[d]]
        /\ owed' = [owed EXCEPT ![d] = TRUE]
        /\ loopPc' = "handoff"
        /\ UNCHANGED <<batch, readInterval>>
     \/ /\ ~cancelled
        /\ ~Claimable(d)
        /\ LoopGoesOn(Tail(batch))
        /\ UNCHANGED <<nextCheckAt, owed>>
  /\ UNCHANGED <<LoopUntouched, jobs, blocked>>

(* A statement of the dispatch fails: the rest of the batch is given up,   *)
(* still due.                                                              *)
LoopStatementFails ==
  /\ loopPc \in {"query", "claim"}
  /\ faults < MaxFaults
  /\ faults' = faults + 1
  /\ LoopGoesOn(<<>>)
  /\ UNCHANGED <<now, edits, dbVars, stopVars, loopNow, jobs, blocked, procVars, gone, owed>>

(* Mutants of the hand-over: the send takes no notice of the capacity; a   *)
(* full channel drops the domain.                                          *)
HandoffSendUnbounded ==
  /\ loopPc = "handoff"
  /\ jobs' = Append(jobs, Head(batch))
  /\ LoopGoesOn(Tail(batch))
  /\ UNCHANGED <<LoopUntouched, nextCheckAt, blocked, owed>>

HandoffSpawnDropped ==
  /\ loopPc = "handoff"
  /\ ~cancelled
  /\ Len(jobs) >= JobsCap
  /\ LoopGoesOn(Tail(batch))
  /\ UNCHANGED <<LoopUntouched, nextCheckAt, jobs, blocked, owed>>

(* The select that hands a claimed domain over: a ready case is taken, any *)
(* of them if both are; with none ready a goroutine is left to wait.       *)
HandoffSend ==
  /\ loopPc = "handoff"
  /\ Len(jobs) < JobsCap
  /\ jobs' = Append(jobs, Head(batch))
  /\ LoopGoesOn(Tail(batch))
  /\ UNCHANGED <<LoopUntouched, nextCheckAt, blocked, owed>>

HandoffSpawn ==
  /\ loopPc = "handoff"
  /\ ~cancelled
  /\ Len(jobs) >= JobsCap
  /\ blocked' = [blocked EXCEPT ![Head(batch)] = @ + 1]
  /\ LoopGoesOn(Tail(batch))
  /\ UNCHANGED <<LoopUntouched, nextCheckAt, jobs, owed>>

HandoffCancelled ==
  /\ loopPc = "handoff"
  /\ cancelled
  /\ LoopGoesOn(<<>>)
  /\ UNCHANGED <<LoopUntouched, nextCheckAt, jobs, blocked, owed>>

EnqueuerSend(d) ==
  /\ blocked[d] > 0
  /\ Len(jobs) < JobsCap
  /\ jobs' = Append(jobs, d)
  /\ blocked' = [blocked EXCEPT ![d] = @ - 1]
  /\ UNCHANGED <<now, faults, edits, dbVars, stopVars, loopVars, procVars, gone, owed>>

(* Mutant: the goroutine sends without watching the context.               *)
EnqueuerNeverQuits(d) == FALSE

EnqueuerQuit(d) ==
  /\ blocked[d] > 0
  /\ cancelled
  /\ blocked' = [blocked EXCEPT ![d] = @ - 1]
  /\ UNCHANGED <<now, faults, edits, dbVars, stopVars, loopVars, jobs, procVars, gone, owed>>

(* The ticker fires; a tick may win the select even after the cancel.      *)
LoopWake ==
  /\ loopPc = "wait"
  /\ loopPc' = "query"
  /\ loopNow' = now
  /\ UNCHANGED <<now, faults, edits, dbVars, stopVars, batch, readInterval, jobs, blocked,
                 procVars, gone, owed>>

LoopExit ==
  /\ loopPc = "wait"
  /\ cancelled
  /\ loopPc' = "exited"
  /\ UNCHANGED <<now, faults, edits, dbVars, stopVars, loopNow, batch, readInterval, jobs,
                 blocked, procVars, gone, owed>>

-----------------------------------------------------------------------------
(* Workers and requests, both running processDomain.                       *)

WorkerTake(w) ==
  /\ pc[w] = "idle"
  /\ jobs # <<>>
  /\ jobs' = Tail(jobs)
  /\ pc' = [pc EXCEPT ![w] = "read"]
  /\ dom' = [dom EXCEPT ![w] = Head(jobs)]
  /\ owed' = [owed EXCEPT ![Head(jobs)] = FALSE]
  /\ UNCHANGED <<now, faults, edits, dbVars, stopVars, loopVars, blocked, outcome, checkedAt,
                 nextAt, period, gone>>

WorkerExit(w) ==
  /\ pc[w] = "idle"
  /\ cancelled
  /\ pc' = [pc EXCEPT ![w] = "exited"]
  /\ UNCHANGED <<now, faults, edits, dbVars, stopVars, loopVars, jobs, blocked, dom, outcome,
                 checkedAt, nextAt, period, gone, owed>>

(* The handler has found the domain among its tenant's.                    *)
RequestCheck(r, d) ==
  /\ pc[r] = "idle"
  /\ row[d] \in {"enabled", "disabled"}
  /\ pc' = [pc EXCEPT ![r] = "read"]
  /\ dom' = [dom EXCEPT ![r] = d]
  /\ UNCHANGED <<now, faults, edits, dbVars, stopVars, loopVars, jobs, blocked, outcome,
                 checkedAt, nextAt, period, gone, owed>>

ClientLeaves(r) ==
  /\ pc[r] # "idle"
  /\ r \notin gone
  /\ gone' = gone \cup {r}
  /\ UNCHANGED <<now, faults, edits, dbVars, stopVars, loopVars, jobs, blocked, procVars, owed>>

(* The context a process runs under is cancelled.                          *)
Dead(p) == IF p \in Workers THEN cancelled ELSE p \in gone

(* processDomain returns: the worker is back at its select, the request is *)
(* answered; what the call held is gone.                                   *)
Return(p) ==
  /\ pc' = [pc EXCEPT ![p] = "idle"]
  /\ dom' = [dom EXCEPT ![p] = NoDomain]
  /\ outcome' = [outcome EXCEPT ![p] = "settled"]
  /\ checkedAt' = [checkedAt EXCEPT ![p] = 0]
  /\ nextAt' = [nextAt EXCEPT ![p] = 0]
  /\ period' = [period EXCEPT ![p] = AnyInterval]
  /\ gone' = gone \ {p}

Advance(p, step) ==
  /\ pc' = [pc EXCEPT ![p] = step]
  /\ UNCHANGED <<dom, gone>>

ProcUntouched == <<now, edits, stopVars, loopVars, jobs, blocked, owed>>

ReadDomain(p) ==
  /\ pc[p] = "read"
  /\ \/ /\ Dead(p) \/ row[dom[p]] # "enabled"
        /\ Return(p)
     \/ /\ ~Dead(p)
        /\ row[dom[p]] = "enabled"
        /\ Advance(p, "tenant")
        /\ period' = [period EXCEPT ![p] = interval[dom[p]]]
        /\ UNCHANGED <<outcome, checkedAt, nextAt>>
  /\ UNCHANGED <<ProcUntouched, faults, dbVars>>

(* The checker notes the time when it starts.                              *)
ReadTenant(p) ==
  /\ pc[p] = "tenant"
  /\ \/ /\ Dead(p) \/ Owner[dom[p]] \in suspended
        /\ Return(p)
     \/ /\ ~Dead(p)
        /\ Owner[dom[p]] \notin suspended
        /\ Advance(p, "dial")
        /\ checkedAt' = [checkedAt EXCEPT ![p] = now]
        /\ UNCHANGED <<outcome, nextAt, period>>
  /\ UNCHANGED <<ProcUntouched, faults, dbVars>>

(* The check ends; the time of the next one is counted from here.          *)
Dial(p) ==
  /\ pc[p] = "dial"
  /\ outcome' = [outcome EXCEPT ![p] = IF Dead(p) THEN "aborted" ELSE "settled"]
  /\ nextAt' = [nextAt EXCEPT ![p] = now + period[p]]
  /\ Advance(p, "commit")
  /\ UNCHANGED <<ProcUntouched, faults, dbVars, checkedAt, period>>

(* Mutant: the next check is counted from the claimed next_check_at.       *)
RecordFromClaim(p) ==
  LET d == dom[p] IN
  /\ IF row[d] \in {"enabled", "disabled"}
     THEN /\ status' = [status EXCEPT ![d] = outcome[p]]
          /\ lastCheckedAt' = [lastCheckedAt EXCEPT ![d] = checkedAt[p]]
          /\ nextCheckAt' = [nextCheckAt EXCEPT ![d] = @ + period[p]]
     ELSE UNCHANGED <<status, lastCheckedAt, nextCheckAt>>
  /\ UNCHANGED <<row, interval, suspended>>

(* One transaction: the result row and the update of the domain, which     *)
(* finds no row when the domain was deleted meanwhile.  Its context is the *)
(* one the check ran under.                                                *)
Record(p) ==
  LET d == dom[p] IN
  /\ IF row[d] \in {"enabled", "disabled"}
     THEN /\ status' = [status EXCEPT ![d] = outcome[p]]
          /\ lastCheckedAt' = [lastCheckedAt EXCEPT ![d] = checkedAt[p]]
          /\ nextCheckAt' = [nextCheckAt EXCEPT ![d] = nextAt[p]]
     ELSE UNCHANGED <<status, lastCheckedAt, nextCheckAt>>
  /\ UNCHANGED <<row, interval, suspended>>

(* Mutant: the transaction runs under a context of its own.                *)
CommitDetached(p) ==
  /\ pc[p] = "commit"
  /\ Record(p)
  /\ Advance(p, "report")
  /\ UNCHANGED <<outcome, checkedAt, nextAt, period>>
  /\ UNCHANGED <<ProcUntouched, faults>>

Commit(p) ==
  /\ pc[p] = "commit"
  /\ \/ /\ Dead(p)
        /\ Return(p)
        /\ UNCHANGED dbVars
     \/ /\ ~Dead(p)
        /\ Record(p)
        /\ Advance(p, "report")
        /\ UNCHANGED <<outcome, checkedAt, nextAt, period>>
  /\ UNCHANGED <<ProcUntouched, faults>>

(* Reload and MaybeNotify: they end the check whatever happens in them     *)
(* (module CheckNotify has their steps).                                   *)
Report(p) ==
  /\ pc[p] = "report"
  /\ Return(p)
  /\ UNCHANGED <<ProcUntouched, faults, dbVars>>

ProcStatementFails(p) ==
  /\ pc[p] \in {"read", "tenant", "commit"}
  /\ faults < MaxFaults
  /\ faults' = faults + 1
  /\ Return(p)
  /\ UNCHANGED <<ProcUntouched, dbVars>>

-----------------------------------------------------------------------------
(* Shutdown and crash.                                                     *)

Cancel ==
  /\ ~cancelled
  /\ cancelled' = TRUE
  /\ UNCHANGED <<now, faults, edits, dbVars, stopped, loopVars, jobs, blocked, procVars, gone, owed>>

(* Stop waits for the loop, then for the workers.                          *)
StopReturns ==
  /\ cancelled /\ ~stopped
  /\ loopPc = "exited"
  /\ \A w \in Workers : pc[w] = "exited"
  /\ stopped' = TRUE
  /\ UNCHANGED <<now, faults, edits, dbVars, cancelled, loopVars, jobs, blocked, procVars, gone, owed>>

(* The process dies, or ends after Stop, and is started again: the         *)
(* database stays, the memory is new.                                      *)
Restart ==
  /\ faults < MaxFaults
  /\ faults' = faults + 1
  /\ cancelled' = FALSE
  /\ stopped' = FALSE
  /\ loopPc' = "query"
  /\ loopNow' = now
  /\ batch' = <<>>
  /\ readInterval' = [d \in Domains |-> AnyInterval]
  /\ jobs' = <<>>
  /\ blocked' = [d \in Domains |-> 0]
  /\ pc' = [p \in Procs |-> "idle"]
  /\ dom' = [p \in Procs |-> NoDomain]
  /\ outcome' = [p \in Procs |-> "settled"]
  /\ checkedAt' = [p \in Procs |-> 0]
  /\ nextAt' = [p \in Procs |-> 0]
  /\ period' = [p \in Procs |-> AnyInterval]
  /\ gone' = {}
  /\ owed' = [d \in Domains |-> FALSE]
  /\ UNCHANGED <<now, edits, dbVars>>

(* Nothing more need happen once Stop has returned.                        *)
Terminated == stopped /\ UNCHANGED vars

-----------------------------------------------------------------------------
LoopDispatches == LoopQuery \/ LoopClaim \/ HandoffSend \/ HandoffSpawn \/ HandoffCancelled

ProcStep(p) == ReadDomain(p) \/ ReadTenant(p) \/ Dial(p) \/ Commit(p) \/ Report(p)

Next ==
  \/ Tick
  \/ \E d \in Domains : CreateDomain(d) \/ UpdateDomain(d) \/ DeleteDomain(d)
  \/ \E t \in Tenants : SetTenantDisabled(t)
  \/ LoopDispatches \/ LoopStatementFails \/ LoopWake \/ LoopExit
  \/ \E d \in Domains : EnqueuerSend(d) \/ EnqueuerQuit(d)
  \/ \E w \in Workers : WorkerTake(w) \/ WorkerExit(w)
  \/ \E r \in Requests : ClientLeaves(r) \/ \E d \in Domains : RequestCheck(r, d)
  \/ \E p \in Procs : ProcStep(p) \/ ProcStatementFails(p)
  \/ Cancel \/ StopReturns \/ Restart \/ Terminated

Spec == Init /\ [][Next]_vars

(* Goroutines that can run do run, and the ticker keeps firing.  A select  *)
(* chooses at random among its ready cases, and senders on a full channel  *)
(* are served in turn: an exit or a send that is possible again and again  *)
(* happens.                                                                *)
Fairness ==
  /\ WF_vars(LoopDispatches)
  /\ WF_vars(LoopWake)
  /\ SF_vars(LoopExit)
  /\ WF_vars(StopReturns)
  /\ \A d \in Domains : SF_vars(EnqueuerSend(d)) /\ WF_vars(EnqueuerQuit(d))
  /\ \A w \in Workers : WF_vars(WorkerTake(w)) /\ SF_vars(WorkerExit(w))
  /\ \A p \in Procs : WF_vars(ProcStep(p))

FairSpec == Spec /\ Fairness

-----------------------------------------------------------------------------
(* Where a claimed domain may be until a worker has it.                    *)
Queued(d) ==
  \/ loopPc = "handoff" /\ Head(batch) = d
  \/ \E i \in DOMAIN jobs : jobs[i] = d
  \/ blocked[d] > 0

(* No claim is lost while the process runs: a domain whose next_check_at   *)
(* the loop has pushed forward is in the loop's hand, in the channel or    *)
(* with a goroutine that waits for room, until a worker takes it           *)
(* (dispatchDueDomains, the select with a default).                        *)
NoLostClaim == ~cancelled => \A d \in Domains : owed[d] => Queued(d)

(* The loop, the manual requests and the workers together never make a     *)
(* domain due before an interval has passed since the start of the check   *)
(* recorded on its row, whoever wrote next_check_at last                   *)
(* (dispatchDueDomains against processDomain).                             *)
NotDueBeforeInterval ==
  \A d \in Domains :
    lastCheckedAt[d] # Never =>
      \E i \in Intervals : nextCheckAt[d] >= lastCheckedAt[d] + i

(* next_check_at is never more than one interval ahead of the clock: a     *)
(* claim that dies with the process, or at shutdown, costs at most one     *)
(* interval (dispatchDueDomains and processDomain count from their clock,  *)
(* not from the old next_check_at).                                        *)
NeverParked ==
  \A d \in Domains : \E i \in Intervals : nextCheckAt[d] <= now + i

(* A check cut short by the shutdown or by a client that went away never   *)
(* shows as the status of a domain: the transaction runs under the same    *)
(* context as the check (processDomain).                                   *)
AbortedNeverRecorded == \A d \in Domains : status[d] # "aborted"

(* After the cancel Stop returns and no goroutine of the scheduler stays   *)
(* behind, also with a full channel and nobody left to read it (Stop, and  *)
(* the goroutines of dispatchDueDomains).                                  *)
ShutdownDrains ==
  \A f \in 0..MaxFaults :
    (cancelled /\ faults = f) ~>
      (faults > f \/ (stopped /\ \A d \in Domains : blocked[d] = 0))

(* A due domain of an active tenant gets a check recorded, unless it is    *)
(* paused, the server stops or a statement fails (the whole path from      *)
(* dispatchDueDomains to the transaction of processDomain).                *)
Recorded(d) == \E p \in Procs : pc[p] = "report" /\ dom[p] = d

DueIsChecked ==
  \A d \in Domains : \A f \in 0..MaxFaults :
    (Eligible(d) /\ nextCheckAt[d] <= now /\ faults = f) ~>
      (Recorded(d) \/ ~Eligible(d) \/ cancelled \/ faults > f)
=============================================================================
