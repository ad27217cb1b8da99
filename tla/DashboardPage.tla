--------------------------- MODULE DashboardPage ---------------------------
(***************************************************************************)
(* The overview page: the list of domains and the public status it reads,  *)
(* the form that adds or edits one of them (what its fields may hold is    *)
(* the business of module DomainForm), and the requests that save, delete  *)
(* and check, any of which may be under way together.  A mutation lasts    *)
(* until both queries, which it invalidates, have been fetched again.      *)
(***************************************************************************)
EXTENDS Naturals, FiniteSets

CONSTANTS
  Hosts,      \* what is typed as a host name, and identifies a domain to its reader
  Calls,      \* mutations that may be under way at one time
  MaxId,      \* bound: domains ever created
  MaxActs,    \* bound: mutations
  MaxFaults   \* bound: requests and fetches that fail for other reasons than the server's answer

DashboardAssumption == "" \notin Hosts /\ MaxId \in Nat \ {0} /\ MaxActs \in Nat /\ MaxFaults \in Nat

Ids     == 1 .. MaxId
Keys    == {"domains", "status"}   \* ["domains"] and ["workspace-public-status", tenant]
New     == 0                       \* the form adds a domain
Absent  == [host |-> "", checked |-> FALSE]
Rows    == [Ids -> [host : Hosts, checked : BOOLEAN] \cup {Absent}]
NoRows  == [i \in Ids |-> Absent]

VARIABLES
  rows,     \* server: the tenant's domains; the host and whether it has been checked
  issued,   \* server: ids given out
  cached,   \* [Keys -> the answer shown]
  fetch,    \* [Keys -> the fetch in flight]
  editing,  \* editingDomain: its id, or New
  form,     \* the domain the fields were filled from, the host they hold, and whether typed
  call,     \* [Calls -> the mutation under way]
  late,     \* history: the end of a creation emptied the form while a domain was edited
  joined,   \* history: queries whose first fetch an invalidation has joined
  acts, faults

pageVars == <<editing, form, late>>
vars     == <<rows, issued, cached, fetch, pageVars, call, joined, acts, faults>>

IdleFetch == [at |-> "idle", data |-> NoRows]
IdleCall  == [kind |-> "none", id |-> New, host |-> "", fresh |-> FALSE, at |-> "idle", waits |-> {}]
EmptyForm == [of |-> New, host |-> "", typed |-> FALSE]

TypeOK ==
  /\ rows \in Rows
  /\ issued \in 0 .. MaxId
  /\ cached \in [Keys -> [loaded : BOOLEAN, rows : Rows]]
  /\ fetch \in [Keys -> [at : {"idle", "asked", "answered"}, data : Rows]]
  /\ editing \in Ids \cup {New}
  /\ form \in [of : Ids \cup {New}, host : Hosts \cup {""}, typed : BOOLEAN]
  /\ call \in [Calls -> [kind : {"none", "save", "delete", "check"}, id : Ids \cup {New},
                         host : Hosts \cup {""}, fresh : BOOLEAN,
                         at : {"idle", "asked", "done", "refused", "settling"}, waits : SUBSET Keys]]
  /\ late \in BOOLEAN
  /\ joined \subseteq Keys
  /\ acts \in 0 .. MaxActs
  /\ faults \in 0 .. MaxFaults

(* The page is opened by a tenant with one domain.                         *)
Init ==
  /\ rows \in {[NoRows EXCEPT ![1] = [host |-> h, checked |-> FALSE]] : h \in Hosts}
  /\ issued = 1
  /\ cached = [k \in Keys |-> [loaded |-> FALSE, rows |-> NoRows]]
  /\ fetch = [k \in Keys |-> [at |-> "asked", data |-> NoRows]]
  /\ editing = New
  /\ form = EmptyForm
  /\ call = [c \in Calls |-> IdleCall]
  /\ late = FALSE
  /\ joined = {}
  /\ acts = 0
  /\ faults = 0

Shown    == {i \in Ids : cached["domains"].rows[i] # Absent}
Checking == {call[c].id : c \in {d \in Calls : call[d].kind = "check"}}   \* checkMutation.isPending

(* The tile of all domains falls back to the list until the status is in.  *)
DomainCount ==
  IF cached["status"].loaded
  THEN Cardinality({i \in Ids : cached["status"].rows[i] # Absent})
  ELSE Cardinality(Shown)

-----------------------------------------------------------------------------
(* What the reader does.                                                   *)

(* The effect of the form: filled again when another domain is passed.     *)
Pass(i, host) ==
  /\ editing' = i
  /\ form' = [of |-> i, host |-> host, typed |-> FALSE]
  /\ late' = FALSE

Edit(i) ==
  /\ i \in Shown
  /\ editing # i
  /\ Pass(i, cached["domains"].rows[i].host)
  /\ UNCHANGED <<rows, issued, cached, fetch, call, joined, acts, faults>>

Cancel ==
  /\ editing # New
  /\ Pass(New, "")
  /\ UNCHANGED <<rows, issued, cached, fetch, call, joined, acts, faults>>

Type(h) ==
  /\ form' = [form EXCEPT !.host = h, !.typed = TRUE]
  /\ UNCHANGED <<rows, issued, cached, fetch, editing, call, late, joined, acts, faults>>

Begin(kind, i, h, new) ==
  /\ acts < MaxActs
  /\ acts' = acts + 1
  /\ \E c \in Calls :
       /\ call[c] = IdleCall
       /\ call' = [call EXCEPT ![c] = [kind |-> kind, id |-> i, host |-> h, fresh |-> new,
                                       at |-> "asked", waits |-> {}]]
  /\ UNCHANGED <<rows, issued, cached, fetch, pageVars, joined, faults>>

(* The button is never disabled: a submission may be sent twice.           *)
Submit == form.host # "" /\ Begin("save", editing, form.host, editing = New)
Delete == \E i \in Shown : Begin("delete", i, "", FALSE)
Check  == Checking = {} /\ \E i \in Shown : Begin("check", i, "", FALSE)

-----------------------------------------------------------------------------
(* The server.                                                             *)

Taken(h, i) == \E j \in Ids \ {i} : rows[j].host = h

Serve(c) ==
  LET i == call[c].id
      h == call[c].host
  IN
  /\ call[c].at = "asked"
  /\ \/ /\ call[c].kind = "save" /\ i = New /\ ~Taken(h, New) /\ issued < MaxId
        /\ issued' = issued + 1
        /\ rows' = [rows EXCEPT ![issued + 1] = [host |-> h, checked |-> FALSE]]
        /\ call' = [call EXCEPT ![c].at = "done"]
     \/ /\ call[c].kind = "save" /\ i # New /\ rows[i] # Absent /\ ~Taken(h, i)
        /\ rows' = [rows EXCEPT ![i].host = h]
        /\ call' = [call EXCEPT ![c].at = "done"]
        /\ UNCHANGED issued
     \/ /\ call[c].kind = "delete" /\ rows[i] # Absent
        /\ rows' = [rows EXCEPT ![i] = Absent]
        /\ call' = [call EXCEPT ![c].at = "done"]
        /\ UNCHANGED issued
     \/ /\ call[c].kind = "check" /\ rows[i] # Absent
        /\ rows' = [rows EXCEPT ![i].checked = TRUE]
        /\ call' = [call EXCEPT ![c].at = "done"]
        /\ UNCHANGED issued
     \/ /\ \/ i # New /\ rows[i] = Absent                         \* 404
           \/ call[c].kind = "save" /\ Taken(h, i)                \* 409 or an error
           \/ call[c].kind = "save" /\ i = New /\ issued = MaxId  \* beyond the bound
        /\ call' = [call EXCEPT ![c].at = "refused"]
        /\ UNCHANGED <<rows, issued>>
  /\ UNCHANGED <<cached, fetch, pageVars, joined, acts, faults>>

(* A request is lost, or its answer is: the page cannot tell.              *)
Lose(c) ==
  /\ call[c].at \in {"asked", "done"}
  /\ faults < MaxFaults
  /\ faults' = faults + 1
  /\ call' = [call EXCEPT ![c].at = "refused"]
  /\ UNCHANGED <<rows, issued, cached, fetch, pageVars, joined, acts>>

Read(k) ==
  /\ fetch[k].at = "asked"
  /\ fetch' = [fetch EXCEPT ![k] = [at |-> "answered", data |-> rows]]
  /\ UNCHANGED <<rows, issued, cached, pageVars, call, joined, acts, faults>>

-----------------------------------------------------------------------------
(* The queries, by the rules of the library.                               *)

(* Mutant: a fetch in flight is joined.                                    *)
InvalidateJoins ==
  /\ fetch' = [k \in Keys |-> IF fetch[k].at = "idle" THEN [at |-> "asked", data |-> NoRows] ELSE fetch[k]]
  /\ joined' = {k \in Keys : fetch[k].at # "idle" /\ ~cached[k].loaded}

(* Both are fetched again; a fetch in flight is given up for the new one,  *)
(* unless it is the first.                                                 *)
Invalidate ==
  /\ fetch' = [k \in Keys |->
              IF fetch[k].at = "idle" \/ cached[k].loaded
              THEN [at |-> "asked", data |-> NoRows] ELSE fetch[k]]
  /\ joined' = {k \in Keys : fetch[k].at # "idle" /\ ~cached[k].loaded}

(* The mutations that wait for the key wait no longer.                     *)
Release(k) == call' = [c \in Calls |-> [call[c] EXCEPT !.waits = @ \ {k}]]

Arrive(k) ==
  /\ fetch[k].at = "answered"
  /\ cached' = [cached EXCEPT ![k] = [loaded |-> TRUE, rows |-> fetch[k].data]]
  /\ fetch' = [fetch EXCEPT ![k] = IdleFetch]
  /\ Release(k)
  /\ UNCHANGED <<rows, issued, pageVars, joined, acts, faults>>

(* Mutant: who waits for a fetch that fails waits on.                      *)
GiveUpUnreleased(k) ==
  /\ fetch[k].at # "idle"
  /\ faults < MaxFaults
  /\ faults' = faults + 1
  /\ fetch' = [fetch EXCEPT ![k] = IdleFetch]
  /\ UNCHANGED <<rows, issued, cached, pageVars, call, joined, acts>>

GiveUp(k) ==
  /\ fetch[k].at # "idle"
  /\ faults < MaxFaults
  /\ faults' = faults + 1
  /\ fetch' = [fetch EXCEPT ![k] = IdleFetch]
  /\ Release(k)
  /\ UNCHANGED <<rows, issued, cached, pageVars, joined, acts>>

-----------------------------------------------------------------------------
(* The page hears of it.                                                   *)

(* onSuccess: a save closes whatever is edited by now.                     *)
Succeed(c) ==
  /\ call[c].at = "done"
  /\ IF call[c].kind = "save" /\ editing # New THEN Pass(New, "") ELSE UNCHANGED pageVars
  /\ Invalidate
  /\ call' = [call EXCEPT ![c].at = "settling", ![c].waits = Keys]
  /\ UNCHANGED <<rows, issued, cached, acts, faults>>

(* Mutants: the form is emptied after every save; a save that ends leaves  *)
(* its mark.                                                               *)
SettleEmptiesAlways(c) ==
  /\ call[c].at = "settling"
  /\ call[c].waits = {}
  /\ call' = [call EXCEPT ![c] = IdleCall]
  /\ form' = EmptyForm
  /\ late' = (IF call[c].fresh THEN editing # New ELSE late)
  /\ UNCHANGED <<rows, issued, cached, fetch, editing, joined, acts, faults>>

SettleKeepsKind(c) ==
  /\ call[c].at = "settling"
  /\ call[c].waits = {}
  /\ call' = [call EXCEPT ![c].at = "settled"]
  /\ UNCHANGED <<rows, issued, cached, fetch, pageVars, joined, acts, faults>>

(* Both fetches are over, and the mutation is: only now the form of a      *)
(* creation is emptied, whatever it shows.                                 *)
Settle(c) ==
  /\ call[c].at = "settling"
  /\ call[c].waits = {}
  /\ call' = [call EXCEPT ![c] = IdleCall]
  /\ IF call[c].fresh
     THEN form' = EmptyForm /\ late' = (editing # New)
     ELSE UNCHANGED <<form, late>>
  /\ UNCHANGED <<rows, issued, cached, fetch, editing, joined, acts, faults>>

(* A refusal is not shown, and nothing is read again.                      *)
Refused(c) ==
  /\ call[c].at = "refused"
  /\ call' = [call EXCEPT ![c] = IdleCall]
  /\ UNCHANGED <<rows, issued, cached, fetch, pageVars, joined, acts, faults>>

Next ==
  \/ \E i \in Ids : Edit(i)
  \/ Cancel \/ Submit \/ Delete \/ Check
  \/ \E h \in Hosts : Type(h)
  \/ \E c \in Calls : Serve(c) \/ Lose(c) \/ Succeed(c) \/ Settle(c) \/ Refused(c)
  \/ \E k \in Keys : Read(k) \/ Arrive(k) \/ GiveUp(k)

Spec == Init /\ [][Next]_vars

-----------------------------------------------------------------------------
(* When nothing is under way and nothing has failed, list, tiles and       *)
(* server agree, in whatever order saves, deletions, checks and the        *)
(* fetches they cause have crossed; except that what succeeds before the   *)
(* first list is in may be missing from it (onSuccess of the mutations).   *)
QuietPageIsCurrent ==
  (faults = 0 /\ \A c \in Calls : call[c] = IdleCall) /\ (\A k \in Keys : fetch[k] = IdleFetch)
  => /\ \A k \in Keys \ joined : cached[k].rows = rows
     /\ joined = {} => DomainCount = Cardinality(Shown)

(* The form that is headed as the edition of a domain was filled from that *)
(* domain; except after the end of a creation that was still under way     *)
(* when the edition began (handleSubmit resets after its await).           *)
EditFormShowsItsDomain == form.of # editing => late
=============================================================================
