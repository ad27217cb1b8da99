--------------------------- MODULE TenantDialogs ---------------------------
(***************************************************************************)
(* The dialogs of the administration page: the details of a tenant, its    *)
(* access and the password of its owner; what they ask of the server, and  *)
(* what the answers do to whichever dialog is open by then.  The callbacks *)
(* of a mutation are those of the last rendering, until a second mutation  *)
(* of its kind begins.  The list behind may be old: it offers any tenant.  *)
(***************************************************************************)
EXTENDS Naturals

CONSTANTS
  Tenants,   \* tenants the list shows
  Nobody,    \* selectedTenantId = null
  Calls,     \* requests that may be under way at one time
  MaxActs,   \* bound: requests
  MaxFails   \* bound: requests that fail

TenantDialogsAssumption == Nobody \notin Tenants /\ MaxActs \in Nat /\ MaxFails \in Nat

VARIABLES
  exists,     \* server: the tenants there are
  off,        \* server: those that are disabled
  who,        \* selectedTenantId
  view,       \* activeModal
  selected,   \* selectedTenantIds
  detail,     \* [Tenants -> what the page knows of it]
  reading,    \* [Tenants -> the request for it]
  typed,      \* the tenant the password in the form was typed for
  note,       \* actionMessage, and the tenant it is about
  error,      \* actionError, and the tenant it is about
  call,       \* [Calls -> the request under way]
  crossed,    \* history: tenants changed, and not read since their request ended elsewhere or was lost
  missed,     \* history: tenants deleted whose request ended elsewhere or was lost
  swept,      \* history: a deletion has closed a dialog with a typed password
  acts, fails

server == <<exists, off>>
dialog == <<who, view, selected, typed, note, error, swept>>
ends   == <<crossed, missed>>
vars   == <<server, dialog, detail, reading, call, ends, acts, fails>>

Views    == {"details", "access", "password"}
Nothing  == ""            \* no text, no status
None     == [text |-> Nothing, of |-> Nobody]
IdleCall == [kind |-> "none", of |-> Nobody, to |-> Nothing, at |-> "idle", sees |-> "live"]

TypeOK ==
  /\ exists \subseteq Tenants
  /\ off \subseteq Tenants
  /\ who \in Tenants \cup {Nobody}
  /\ view \in Views \cup {"none"}
  /\ selected \subseteq Tenants
  /\ detail \in [Tenants -> {"unknown", "on", "off"}]
  /\ reading \in [Tenants -> {"idle", "asked", "on", "off", "gone"}]
  /\ typed \in Tenants \cup {Nobody}
  /\ note \in [text : {Nothing, "on", "off", "deleted", "password"}, of : Tenants \cup {Nobody}]
  /\ error \in [text : {Nothing, "failed"}, of : Tenants \cup {Nobody}]
  /\ call \in [Calls -> [kind : {"none", "status", "delete", "password"}, of : Tenants \cup {Nobody},
                         to : {Nothing, "on", "off"},
                         at : {"idle", "asked", "done", "refused", "listing"},
                         sees : Tenants \cup {Nobody, "live"}]]
  /\ \A c \in Calls : (call[c].at = "idle") = (call[c] = IdleCall)
  /\ crossed \subseteq Tenants /\ missed \subseteq Tenants
  /\ swept \in BOOLEAN
  /\ acts \in 0 .. MaxActs
  /\ fails \in 0 .. MaxFails

Init ==
  /\ exists = Tenants
  /\ off = {}
  /\ who = Nobody
  /\ view = "none"
  /\ selected = Tenants
  /\ detail = [t \in Tenants |-> "unknown"]
  /\ reading = [t \in Tenants |-> "idle"]
  /\ typed = Nobody
  /\ note = None
  /\ error = None
  /\ call = [c \in Calls |-> IdleCall]
  /\ crossed = {} /\ missed = {}
  /\ swept = FALSE
  /\ acts = 0
  /\ fails = 0

Seen(c) == IF call[c].sees = "live" THEN who ELSE call[c].sees

(* detailQuery is enabled for the tenant of an open dialog, and reads it   *)
(* whenever it becomes so.                                                 *)
Watch(t, v) ==
  reading' = IF t # Nobody /\ v # "none" /\ (t # who \/ view = "none") /\ reading[t] = "idle"
             THEN [reading EXCEPT ![t] = "asked"] ELSE reading

ResetFeedback == note' = None /\ error' = None

-----------------------------------------------------------------------------
(* The reader.  A dialog covers the page until it is closed.               *)

OpenModal(t, v) ==
  /\ view = "none"
  /\ who' = t
  /\ view' = v
  /\ Watch(t, v)
  /\ ResetFeedback
  /\ typed' = IF v = "password" THEN typed ELSE Nobody
  /\ swept' = (swept /\ v = "password")
  /\ UNCHANGED <<server, selected, detail, call, ends, acts, fails>>

(* From the details to another dialog of the tenant.                       *)
SwitchTo(v) ==
  /\ view = "details"
  /\ detail[who] # "unknown"
  /\ v # "details"
  /\ view' = v
  /\ UNCHANGED <<server, who, selected, typed, note, error, detail, reading, call, ends, swept, acts, fails>>

(* Mutant: the password is left in the form.                               *)
CloseTyped ==
  /\ view # "none"
  /\ view' = "none"
  /\ ResetFeedback
  /\ UNCHANGED <<server, who, selected, typed, detail, reading, call, ends, swept, acts, fails>>

(* The button of the dialog, or Escape.                                    *)
Close ==
  /\ view # "none"
  /\ view' = "none"
  /\ typed' = Nobody
  /\ swept' = FALSE
  /\ ResetFeedback
  /\ UNCHANGED <<server, who, selected, detail, reading, call, ends, acts, fails>>

TypePassword ==
  /\ view = "password" /\ detail[who] # "unknown"
  /\ typed = Nobody
  /\ typed' = who
  /\ UNCHANGED <<server, who, view, selected, note, error, detail, reading, call, ends, swept, acts, fails>>

(* A request about the tenant that is selected; an earlier one of its kind *)
(* keeps the callbacks it has.  The buttons stay enabled meanwhile.        *)
Begin(kind, to) ==
  /\ detail[who] # "unknown"
  /\ acts < MaxActs
  /\ acts' = acts + 1
  /\ \E c \in Calls :
       /\ call[c] = IdleCall
       /\ call' = [d \in Calls |->
            IF d = c THEN [kind |-> kind, of |-> who, to |-> to, at |-> "asked", sees |-> "live"]
            ELSE IF call[d].kind = kind THEN [call[d] EXCEPT !.sees = Seen(d)]
            ELSE call[d]]
  /\ UNCHANGED <<server, who, view, selected, typed, detail, reading, ends, swept, fails>>

SetStatus ==
  /\ view = "access"
  /\ Begin("status", IF detail[who] = "off" THEN "on" ELSE "off")
  /\ UNCHANGED <<note, error>>

DeleteTenant == view = "access" /\ Begin("delete", Nothing) /\ UNCHANGED <<note, error>>

SetPassword == view = "password" /\ typed # Nobody /\ Begin("password", Nothing) /\ ResetFeedback

-----------------------------------------------------------------------------
(* The server and the queries.                                             *)

Apply(c) ==
  LET t == call[c].of IN
  /\ t \in exists
  /\ \/ /\ call[c].kind = "status"
        /\ off' = IF call[c].to = "off" THEN off \cup {t} ELSE off \ {t}
        /\ UNCHANGED exists
     \/ /\ call[c].kind = "delete"
        /\ exists' = exists \ {t}
        /\ off' = off \ {t}
     \/ call[c].kind = "password" /\ UNCHANGED <<exists, off>>

Serve(c) ==
  /\ call[c].at = "asked"
  /\ Apply(c)
  /\ call' = [call EXCEPT ![c].at = "done"]
  /\ UNCHANGED <<dialog, detail, reading, ends, acts, fails>>

Refuse(c) ==
  /\ call[c].at = "asked"
  /\ call[c].of \notin exists
  /\ call' = [call EXCEPT ![c].at = "refused"]
  /\ UNCHANGED <<server, dialog, detail, reading, ends, acts, fails>>

(* The connection fails before the request is carried out, or after.       *)
Lose(c) ==
  /\ call[c].at = "asked"
  /\ fails < MaxFails
  /\ fails' = fails + 1
  /\ \/ UNCHANGED <<server, ends>>
     \/ Apply(c) /\ crossed' = crossed \cup {call[c].of} /\ missed' = missed \cup {call[c].of}
  /\ call' = [call EXCEPT ![c].at = "refused"]
  /\ UNCHANGED <<dialog, detail, reading, acts>>

Read(t) ==
  /\ reading[t] = "asked"
  /\ reading' = [reading EXCEPT ![t] = IF t \notin exists THEN "gone" ELSE IF t \in off THEN "off" ELSE "on"]
  /\ crossed' = crossed \ {t}
  /\ UNCHANGED <<server, dialog, detail, call, missed, acts, fails>>

Arrive(t) ==
  /\ reading[t] \in {"on", "off", "gone"}
  /\ reading' = [reading EXCEPT ![t] = "idle"]
  /\ detail' = IF reading[t] = "gone" THEN detail ELSE [detail EXCEPT ![t] = reading[t]]
  /\ UNCHANGED <<server, dialog, call, ends, acts, fails>>

-----------------------------------------------------------------------------
(* The page hears of it.                                                   *)

Ends(c, at) == call' = [call EXCEPT ![c] = IF at = "idle" THEN IdleCall ELSE [@ EXCEPT !.at = at, !.sees = Seen(c)]]

(* onSuccess: the list is read again, then the tenant that is selected.    *)
StatusSet(c) ==
  /\ call[c].kind = "status" /\ call[c].at = "done"
  /\ note' = [text |-> call[c].to, of |-> call[c].of]
  /\ error' = None
  /\ Ends(c, "listing")
  /\ UNCHANGED <<server, who, view, selected, typed, detail, reading, ends, swept, acts, fails>>

Open(t) == t = who /\ view # "none"

Outcome(c) ==
  /\ call[c].at = "listing"
  /\ crossed' = IF call[c].sees = call[c].of /\ Open(call[c].of) THEN crossed ELSE crossed \cup {call[c].of}
  /\ Ends(c, "idle")
  /\ UNCHANGED <<server, dialog, detail, missed, acts, fails>>

(* Mutant: an answer on its way is waited for.                             *)
ReadAgainJoined(c) ==
  LET t == call[c].sees IN
  /\ Outcome(c)
  /\ reading' = IF t \in Tenants /\ Open(t) /\ reading[t] = "idle"
                THEN [reading EXCEPT ![t] = "asked"] ELSE reading

(* A first read under way is joined, any other one begun anew; a dialog    *)
(* that is closed reads nothing.                                           *)
ReadAgain(c) ==
  LET t == call[c].sees IN
  /\ Outcome(c)
  /\ reading' = IF t \in Tenants /\ Open(t) /\ (detail[t] # "unknown" \/ reading[t] = "idle")
                THEN [reading EXCEPT ![t] = "asked"] ELSE reading

(* Mutant: the selection keeps the tenant.                                 *)
DeletedSelected(c) ==
  /\ call[c].kind = "delete" /\ call[c].at = "done"
  /\ note' = [text |-> "deleted", of |-> call[c].of]
  /\ error' = None
  /\ view' = "none" /\ who' = Nobody
  /\ Ends(c, "idle")
  /\ UNCHANGED <<server, selected, typed, detail, reading, ends, swept, acts, fails>>

(* Whatever dialog is open is closed, without its form being emptied, and  *)
(* whatever tenant is selected by then leaves the selection.               *)
Deleted(c) ==
  /\ call[c].kind = "delete" /\ call[c].at = "done"
  /\ note' = [text |-> "deleted", of |-> call[c].of]
  /\ error' = None
  /\ view' = "none" /\ who' = Nobody
  /\ selected' = selected \ {Seen(c)}
  /\ missed' = IF Seen(c) = call[c].of THEN missed ELSE missed \cup {call[c].of}
  /\ swept' = (swept \/ typed # Nobody)
  /\ Ends(c, "idle")
  /\ UNCHANGED <<server, typed, detail, reading, crossed, acts, fails>>

PasswordSet(c) ==
  /\ call[c].kind = "password" /\ call[c].at = "done"
  /\ note' = [text |-> "password", of |-> call[c].of]
  /\ error' = None
  /\ typed' = Nobody
  /\ Ends(c, "idle")
  /\ UNCHANGED <<server, who, view, selected, detail, reading, ends, swept, acts, fails>>

Refused(c) ==
  /\ call[c].at = "refused"
  /\ note' = IF call[c].kind = "password" THEN note ELSE None
  /\ error' = [text |-> "failed", of |-> call[c].of]
  /\ Ends(c, "idle")
  /\ UNCHANGED <<server, who, view, selected, typed, detail, reading, ends, swept, acts, fails>>

Next ==
  \/ \E t \in Tenants : Read(t) \/ Arrive(t) \/ \E v \in Views : OpenModal(t, v)
  \/ \E v \in Views : SwitchTo(v)
  \/ Close \/ TypePassword \/ SetStatus \/ DeleteTenant \/ SetPassword
  \/ \E c \in Calls : \/ Serve(c) \/ Refuse(c) \/ Lose(c) \/ StatusSet(c) \/ ReadAgain(c)
                      \/ Deleted(c) \/ PasswordSet(c) \/ Refused(c)

Spec == Init /\ [][Next]_vars

-----------------------------------------------------------------------------
(* A dialog that is not reading, and whose tenant has no request under     *)
(* way, shows the tenant as it is; unless a request about it was lost, or  *)
(* ended while its dialog was not open (onSuccess of statusMutation).      *)
QuietDialogIsCurrent ==
  (/\ view # "none" /\ who \in exists \ crossed
   /\ reading[who] = "idle" /\ detail[who] # "unknown"
   /\ \A c \in Calls : call[c].of # who)
  => (detail[who] = "off") = (who \in off)

(* A tenant that was deleted here leaves the selection, unless the answer  *)
(* was lost or came while another one was selected (onSuccess of           *)
(* deleteMutation).                                                        *)
DeletedIsDeselected ==
  \A t \in selected \ exists : t \in missed \/ \E c \in Calls : call[c].kind = "delete" /\ call[c].of = t

(* A password is set for the tenant whose dialog it was typed in, unless a *)
(* deletion has closed that dialog (closeModal and openModal empty it).    *)
PasswordIsOfItsTenant == typed # Nobody /\ view = "password" => typed = who \/ swept
=============================================================================
