---------------------------- MODULE BulkActions ----------------------------
(***************************************************************************)
(* The bulk actions of the administration page: the tenants that are       *)
(* ticked are enabled, disabled or deleted one request after the other,    *)
(* whatever becomes of each; the selection is then cleared, the list read  *)
(* again and the outcome told.  Nothing keeps the reader from ticking, or  *)
(* from beginning another run, meanwhile.                                  *)
(***************************************************************************)
EXTENDS Naturals, Sequences, FiniteSets

CONSTANTS
  Tenants,   \* the tenants there are at first
  Runs,      \* runs that may be under way at one time
  MaxRuns    \* bound: runs begun

BulkActionsAssumption == Tenants \subseteq Nat /\ IsFiniteSet(Tenants) /\ MaxRuns \in Nat

VARIABLES
  exists,     \* server: the tenants there are
  off,        \* server: those that are disabled
  list,       \* the tenants of the page that is shown
  selected,   \* selectedTenantIds, in the order they were ticked
  run,        \* [Runs -> a run of runBulkAction]
  note,       \* actionMessage
  error,      \* actionError is set
  begun

vars == <<exists, off, list, selected, run, note, error, begun>>

Actions == {"enable", "disable", "delete"}
Elems(s) == {s[i] : i \in DOMAIN s}

(* confirmed, touched: history, what the run was begun for and has done.   *)
IdleRun == [at |-> "idle", action |-> "enable", todo |-> <<>>, failed |-> 0, confirmed |-> {}, touched |-> {}]
NoNote  == [kind |-> "none", success |-> 0, total |-> 0, done |-> 0]

TypeOK ==
  /\ exists \subseteq Tenants
  /\ off \subseteq exists
  /\ list \subseteq Tenants
  /\ selected \in Seq(Tenants)
  /\ \A r \in Runs :
       /\ run[r].at \in {"idle", "running", "reading"}
       /\ run[r].action \in Actions
       /\ run[r].todo \in Seq(Tenants) /\ Elems(run[r].todo) \subseteq Tenants
       /\ run[r].failed \in 0 .. Cardinality(run[r].confirmed)
       /\ (run[r].at = "idle") = (run[r] = IdleRun)
  /\ note.kind \in {"none", "partial", "all"}
  /\ {note.success, note.total, note.done} \subseteq 0 .. Cardinality(Tenants)
  /\ error \in BOOLEAN
  /\ begun \in 0 .. MaxRuns

Init ==
  /\ exists = Tenants
  /\ off \in SUBSET Tenants
  /\ list = Tenants
  /\ selected = <<>>
  /\ run = [r \in Runs |-> IdleRun]
  /\ note = NoNote
  /\ error = FALSE
  /\ begun = 0

-----------------------------------------------------------------------------
(* The selection.                                                          *)

(* The rows in the order they are listed.                                  *)
InOrder(S) == [i \in 1 .. Cardinality(S) |-> CHOOSE t \in S : Cardinality({u \in S : u < t}) = i - 1]

Without(s, S) ==
  LET kept == InOrder({i \in DOMAIN s : s[i] \notin S}) IN [n \in DOMAIN kept |-> s[kept[n]]]

toggleTenantSelection(t) ==
  /\ t \in list
  /\ selected' = IF t \in Elems(selected) THEN Without(selected, {t}) ELSE Append(selected, t)
  /\ UNCHANGED <<exists, off, list, run, note, error, begun>>

(* Mutant: the tenants of the page are added to those that are ticked.     *)
togglePageSelectionTwice ==
  /\ list # {}
  /\ selected' = IF list \subseteq Elems(selected) THEN Without(selected, list)
                 ELSE selected \o InOrder(list)
  /\ UNCHANGED <<exists, off, list, run, note, error, begun>>

(* The box is ticked when all rows of the page are.                        *)
togglePageSelection ==
  /\ list # {}
  /\ selected' = IF list \subseteq Elems(selected) THEN Without(selected, list)
                 ELSE selected \o InOrder(list \ Elems(selected))
  /\ UNCHANGED <<exists, off, list, run, note, error, begun>>

ClearSelection ==
  /\ selected # <<>>
  /\ selected' = <<>>
  /\ UNCHANGED <<exists, off, list, run, note, error, begun>>

-----------------------------------------------------------------------------
(* A run.                                                                  *)

(* The buttons are enabled while something is ticked; a deletion has been  *)
(* confirmed, with the number of tenants.                                  *)
runBulkAction(action) ==
  /\ selected # <<>>
  /\ begun < MaxRuns
  /\ begun' = begun + 1
  /\ \E r \in Runs :
       /\ run[r].at = "idle"
       /\ run' = [run EXCEPT ![r] = [IdleRun EXCEPT !.at = "running", !.action = action,
                                     !.todo = selected, !.confirmed = Elems(selected)]]
  /\ note' = NoNote /\ error' = FALSE
  /\ UNCHANGED <<exists, off, list, selected>>

(* Mutant: the tenants are those that are ticked by now.                   *)
TargetTicked(r) == IF selected = <<>> THEN Head(run[r].todo) ELSE Head(selected)

(* The tenant whose turn it is, of those that were ticked at the click.    *)
Target(r) == Head(run[r].todo)

Apply(action, t) ==
  /\ exists' = IF action = "delete" THEN exists \ {t} ELSE exists
  /\ off' = IF action = "disable" THEN off \cup {t} ELSE off \ {t}

(* Mutants: a failure ends the run without a word; it is not counted.      *)
TurnStopped(r, fails, t) ==
  /\ run[r].at = "running" /\ run[r].todo # <<>>
  /\ run' = [run EXCEPT ![r].todo = IF fails = 1 THEN @ ELSE Tail(@), ![r].touched = @ \cup t]
  /\ UNCHANGED <<list, selected, note, error, begun>>

TurnUncounted(r, fails, t) ==
  /\ run[r].at = "running" /\ run[r].todo # <<>>
  /\ run' = [run EXCEPT ![r].todo = Tail(@), ![r].touched = @ \cup t]
  /\ UNCHANGED <<list, selected, note, error, begun>>

Turn(r, fails, t) ==
  /\ run[r].at = "running" /\ run[r].todo # <<>>
  /\ run' = [run EXCEPT ![r].todo = Tail(@), ![r].failed = @ + fails, ![r].touched = @ \cup t]
  /\ UNCHANGED <<list, selected, note, error, begun>>

Process(r) ==
  /\ Turn(r, 0, {Target(r)})
  /\ Target(r) \in exists
  /\ Apply(run[r].action, Target(r))

(* The tenant is gone, or the connection fails before the request is       *)
(* carried out.                                                            *)
FailTo(r) == Turn(r, 1, {}) /\ UNCHANGED <<exists, off>>

(* The connection fails after that.                                        *)
LoseAnswer(r) ==
  /\ Turn(r, 1, {Target(r)})
  /\ Target(r) \in exists
  /\ Apply(run[r].action, Target(r))

(* All tenants have had their turn: the selection is cleared, whatever is  *)
(* ticked by now, and the list invalidated.                                *)
Finish(r) ==
  /\ run[r].at = "running" /\ run[r].todo = <<>>
  /\ run' = [run EXCEPT ![r].at = "reading"]
  /\ selected' = <<>>
  /\ UNCHANGED <<exists, off, list, note, error, begun>>

(* The list has been read again, or could not be.                          *)
Report(r) ==
  LET total   == Cardinality(run[r].confirmed)
      success == total - run[r].failed
  IN
  /\ run[r].at = "reading"
  /\ list' \in {list, exists}
  /\ note' = [kind |-> IF run[r].failed > 0 THEN "partial" ELSE "all",
              success |-> success, total |-> total, done |-> Cardinality(run[r].touched)]
  /\ error' = (error \/ run[r].failed > 0)
  /\ run' = [run EXCEPT ![r] = IdleRun]
  /\ UNCHANGED <<exists, off, selected, begun>>

(* Another administrator deletes a tenant.                                 *)
DeletedElsewhere(t) ==
  /\ t \in exists
  /\ exists' = exists \ {t} /\ off' = off \ {t}
  /\ UNCHANGED <<list, selected, run, note, error, begun>>

RunStep(r) == Process(r) \/ FailTo(r) \/ LoseAnswer(r) \/ Finish(r) \/ Report(r)

Next ==
  \/ \E t \in Tenants : toggleTenantSelection(t) \/ DeletedElsewhere(t)
  \/ togglePageSelection \/ ClearSelection
  \/ \E action \in Actions : runBulkAction(action)
  \/ \E r \in Runs : RunStep(r)

Spec == Init /\ [][Next]_vars

-----------------------------------------------------------------------------
(* No tenant is ticked twice, so that none is asked for twice and counted  *)
(* as a failure (the sets in toggleTenantSelection, togglePageSelection).  *)
TickedOnce == Len(selected) = Cardinality(Elems(selected))

(* A run touches only the tenants that were ticked, and counted in the     *)
(* question, when it was begun (targetIds).                                *)
TouchesOnlyTheConfirmed == \A r \in Runs : run[r].touched \subseteq run[r].confirmed

(* What the message counts as processed was; all of them, when it says so. *)
CountsOnlyWhatWasDone ==
  /\ note.success <= note.done /\ note.done <= note.total
  /\ note.kind = "all" => note.success = note.total
=============================================================================
