---------------------------- MODULE PolicyEditor ----------------------------
(***************************************************************************)
(* The two policy forms of the notifications page, for the default policy  *)
(* and for the override of the domain chosen in the select: what fills     *)
(* them, what they send, and what the page shows when the saves and the    *)
(* fetches they cause have crossed.  One form object serves all domains.   *)
(***************************************************************************)
EXTENDS Integers

CONSTANTS
  Domains,    \* the tenant's domains
  Endpoints,  \* its endpoints
  Texts,      \* what is typed as thresholds: the items between the commas
  Calls,      \* saves that may be under way at one time
  MaxSaves    \* bound: saves

(* An item of a text that is no natural number.                            *)
Blank    == -1
Fraction == -2
Junk     == -3   \* a negative number too

Absent == "absent"   \* no domain is chosen

PolicyEditorAssumption ==
  /\ Texts \subseteq SUBSET (Nat \cup {Blank, Fraction, Junk})
  /\ {} \notin Texts
  /\ MaxSaves \in Nat
  /\ Domains \cap {"default", Absent} = {}

Scopes == {"default"} \cup Domains
None   == [none |-> TRUE]   \* no override: the default policy applies

DefaultText == {30, 7, 1}

VARIABLES
  policy,    \* server: [Scopes -> the policy stored, or None]
  shown,     \* the policies the page has read
  loaded,    \* ... if it has
  reading,   \* the fetch of the policies: under way, and what it has read
  listed,    \* the domains the select offers
  selected,  \* selectedDomainId
  form,      \* the two forms: text, endpoints and whether changed by hand
  call,      \* [Calls -> the save under way]
  saved,     \* history: [Scopes -> what was saved last, in the order of the clicks]
  crossed,   \* history: scopes with two saves under way together, or one refused
  saves

serverVars == <<policy>>
queryVars  == <<shown, loaded, reading, listed>>
vars       == <<policy, queryVars, selected, form, call, saved, crossed, saves>>

View      == [days : SUBSET Nat, ends : SUBSET Endpoints]
Forms     == {"default", "override"}
NoReading == [at |-> "idle", data |-> [s \in Scopes |-> None]]
IdleCall  == [at |-> "idle"]

TypeOK ==
  /\ \A s \in Scopes : policy[s] = None \/ policy[s] \in View
  /\ \A s \in Scopes : shown[s] = None \/ shown[s] \in View
  /\ loaded \in BOOLEAN
  /\ reading.at \in {"idle", "asked", "answered"}
  /\ listed \subseteq Domains
  /\ selected \in Domains \cup {Absent}
  /\ form \in [Forms -> [text : Texts \cup SUBSET (Nat \cup {Blank}), ends : SUBSET Endpoints, typed : BOOLEAN]]
  /\ \A c \in Calls : call[c].at \in {"idle", "asked", "done", "refused"}
  /\ crossed \subseteq Scopes
  /\ saves \in 0 .. MaxSaves

(* join(", ") of no threshold at all is the empty text.                    *)
Joined(days) == IF days = {} THEN {Blank} ELSE days

(* Mutant: the effect fills the text only.                                 *)
FilledTextOnly(p) ==
  [text |-> IF p = None THEN DefaultText ELSE Joined(p.days), ends |-> {}, typed |-> FALSE]

(* The values a form takes from a policy, and from none.                   *)
Filled(p) ==
  IF p = None THEN [text |-> DefaultText, ends |-> {}, typed |-> FALSE]
              ELSE [text |-> Joined(p.days), ends |-> p.ends, typed |-> FALSE]

(* The thresholds of a text: an empty item reads as zero, junk is dropped. *)
Parsed(text) == {IF n = Blank THEN 0 ELSE n : n \in text \ {Junk}}

(* The page has just been opened.                                          *)
Init ==
  /\ policy \in {[s \in Scopes |-> IF s = "default" THEN v ELSE None] :
                   v \in {[days |-> DefaultText, ends |-> e] : e \in SUBSET Endpoints}}
  /\ shown = [s \in Scopes |-> None]
  /\ loaded = FALSE
  /\ reading = [at |-> "asked", data |-> [s \in Scopes |-> None]]
  /\ listed = Domains
  /\ selected = Absent
  /\ form = [f \in Forms |-> Filled(None)]
  /\ call = [c \in Calls |-> IdleCall]
  /\ saved = policy
  /\ crossed = {}
  /\ saves = 0

Mounted(f)  == f = "default" \/ selected \in listed
ScopeOf(f)  == IF f = "default" THEN "default" ELSE selected

-----------------------------------------------------------------------------
(* What the reader does.                                                   *)

(* Another domain is chosen.  The effect fills the form when the policy it *)
(* is passed is another object: from one domain without an override to the *)
(* next it is undefined both times, and the form keeps what it holds.      *)
Select(d) ==
  /\ d \in listed \cup {Absent}
  /\ selected' = d
  /\ form' = [form EXCEPT !["override"] =
                IF d = Absent THEN Filled(None)
                ELSE IF selected \in listed /\ shown[selected] = None /\ shown[d] = None
                THEN [@ EXCEPT !.typed = FALSE]
                ELSE Filled(shown[d])]
  /\ UNCHANGED <<policy, queryVars, call, saved, crossed, saves>>

Type(f, text) ==
  /\ Mounted(f)
  /\ form' = [form EXCEPT ![f].text = text, ![f].typed = TRUE]
  /\ UNCHANGED <<policy, queryVars, selected, call, saved, crossed, saves>>

Tick(f, e) ==
  /\ Mounted(f)
  /\ form' = [form EXCEPT ![f].ends = IF e \in @ THEN @ \ {e} ELSE @ \cup {e}, ![f].typed = TRUE]
  /\ UNCHANGED <<policy, queryVars, selected, call, saved, crossed, saves>>

(* What the server makes of it: an override without thresholds and without *)
(* endpoints is deleted.                                                   *)
Result(s, days, ends) ==
  IF s \in Domains /\ days = {} /\ ends = {} THEN None ELSE [days |-> days, ends |-> ends]

Underway(s) == \E c \in Calls : call[c].at # "idle" /\ call[c].scope = s

Submit(f) ==
  LET s    == ScopeOf(f)
      days == Parsed(form[f].text)
  IN
  /\ Mounted(f)
  /\ saves < MaxSaves
  /\ saves' = saves + 1
  /\ \E c \in Calls :
       /\ call[c] = IdleCall
       /\ call' = [call EXCEPT ![c] = [at |-> "asked", scope |-> s, days |-> days, ends |-> form[f].ends]]
  /\ saved' = [saved EXCEPT ![s] = Result(s, days, form[f].ends)]
  /\ crossed' = IF Underway(s) THEN crossed \cup {s} ELSE crossed
  /\ UNCHANGED <<policy, queryVars, selected, form>>

-----------------------------------------------------------------------------
(* The server, and the queries.                                            *)

(* A threshold that is no integer fails the decoding of the request.       *)
Serve(c) ==
  /\ call[c].at = "asked"
  /\ IF Fraction \in call[c].days
     THEN /\ call' = [call EXCEPT ![c].at = "refused"]
          /\ UNCHANGED policy
     ELSE /\ call' = [call EXCEPT ![c].at = "done"]
          /\ policy' = [policy EXCEPT ![call[c].scope] = Result(call[c].scope, call[c].days, call[c].ends)]
  /\ UNCHANGED <<queryVars, selected, form, saved, crossed, saves>>

Read ==
  /\ reading.at = "asked"
  /\ reading' = [at |-> "answered", data |-> policy]
  /\ UNCHANGED <<policy, shown, loaded, listed, selected, form, call, saved, crossed, saves>>

(* A form whose policy has changed is filled again, whatever was typed.    *)
Arrive ==
  /\ reading.at = "answered"
  /\ shown' = reading.data
  /\ loaded' = TRUE
  /\ reading' = NoReading
  /\ form' = [f \in Forms |->
                IF Mounted(f) /\ shown[ScopeOf(f)] # reading.data[ScopeOf(f)]
                THEN Filled(reading.data[ScopeOf(f)]) ELSE form[f]]
  /\ UNCHANGED <<policy, listed, selected, call, saved, crossed, saves>>

(* Mutant: a fetch in flight is joined, the first or not.                  *)
SucceedJoins(c) ==
  /\ call[c].at = "done"
  /\ call' = [call EXCEPT ![c] = IdleCall]
  /\ reading' = IF reading.at = "idle"
                THEN [at |-> "asked", data |-> [s \in Scopes |-> None]] ELSE reading
  /\ crossed' = IF reading.at # "idle" /\ ~loaded THEN Scopes ELSE crossed
  /\ UNCHANGED <<policy, shown, loaded, listed, selected, form, saved, saves>>

(* A save has succeeded: the policies are read again; the first fetch is   *)
(* joined (and what it has read may be older than the save).               *)
Succeed(c) ==
  /\ call[c].at = "done"
  /\ call' = [call EXCEPT ![c] = IdleCall]
  /\ reading' = IF reading.at = "idle" \/ loaded
                THEN [at |-> "asked", data |-> [s \in Scopes |-> None]] ELSE reading
  /\ crossed' = IF reading.at # "idle" /\ ~loaded THEN Scopes ELSE crossed
  /\ UNCHANGED <<policy, shown, loaded, listed, selected, form, saved, saves>>

(* Nobody catches the error: nothing is shown.                             *)
Refused(c) ==
  /\ call[c].at = "refused"
  /\ call' = [call EXCEPT ![c] = IdleCall]
  /\ crossed' = crossed \cup {call[c].scope}
  /\ UNCHANGED <<policy, queryVars, selected, form, saved, saves>>

(* The list of domains is read again and one has gone: its form with it.   *)
Unlist(d) ==
  /\ d \in listed
  /\ listed' = listed \ {d}
  /\ form' = IF selected = d THEN [form EXCEPT !["override"] = Filled(None)] ELSE form
  /\ UNCHANGED <<policy, shown, loaded, reading, selected, call, saved, crossed, saves>>

Next ==
  \/ \E d \in Domains \cup {Absent} : Select(d)
  \/ \E f \in Forms : Submit(f) \/ (\E t \in Texts : Type(f, t)) \/ (\E e \in Endpoints : Tick(f, e))
  \/ \E c \in Calls : Serve(c) \/ Succeed(c) \/ Refused(c)
  \/ Read \/ Arrive
  \/ \E d \in Domains : Unlist(d)

Spec == Init /\ [][Next]_vars

-----------------------------------------------------------------------------
(* A form that nobody has changed, of a policy the page has read, would    *)
(* save that policy as it is, in whatever order domains were chosen and    *)
(* policies read; except one without thresholds, of which the empty text   *)
(* makes the threshold 0 (useEffect and handleSubmit of PolicyForm).       *)
UntouchedKeepsPolicy ==
  \A f \in Forms :
    LET p == shown[ScopeOf(f)] IN
    Mounted(f) /\ ~form[f].typed /\ loaded /\ p # None =>
      /\ form[f].ends = p.ends
      /\ p.days # {} => Parsed(form[f].text) = p.days

(* When nothing is under way, the page shows for every policy what was     *)
(* saved last; unless two saves of it were under way together, one was     *)
(* refused, or it was saved before the policies were read.                 *)
QuietPolicyIsTheLastSaved ==
  (reading.at = "idle" /\ \A c \in Calls : call[c] = IdleCall) /\ saves > 0
  => \A s \in Scopes \ crossed : shown[s] = saved[s]
=============================================================================
