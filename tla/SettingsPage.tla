---------------------------- MODULE SettingsPage ----------------------------
(***************************************************************************)
(* The settings: one form for the account, which the session knows, and    *)
(* for the public page, which a query reads.  An effect fills the form     *)
(* whenever one of the values it knows changes.  Saving writes all of it,  *)
(* sets the user from the answer, reads the public page again and says so. *)
(* The user name stands for the e-mail too, the title for the subtitle.    *)
(***************************************************************************)
EXTENDS Naturals, PublicStatus

CONSTANTS
  Names,      \* user names the reader types; the first one is among them
  FirstName,
  Words,      \* titles the reader types
  Workspace,  \* the tenant's name
  Calls,      \* saves that may be under way at one time
  MaxSaves,   \* bound: saves
  MaxFails    \* bound: requests that fail

SettingsPageAssumption ==
  FirstName \in Names /\ "" \notin Words /\ Workspace \notin Words \cup {""} /\ {MaxSaves, MaxFails} \subseteq Nat

Titles == {Empty} \cup {Text(w, b) : w \in Words, b \in BOOLEAN}
Name   == Text(Workspace, FALSE)
Fallback == Text("Certificate status", FALSE)
NotRead  == [none |-> TRUE]

VARIABLES
  stored,   \* server: the user's name, the tenant's title
  user,     \* the name the session has
  data,     \* the title the query has, or NotRead
  fetch,    \* the request of the query
  form,     \* the fields
  typed,    \* history: those the reader has typed since they were filled
  call,     \* [Calls -> the save under way]
  message,  \* message or error
  saves, fails

vars == <<stored, user, data, fetch, form, typed, call, message, saves, fails>>

Fields   == {"name", "title"}
IdleCall == [at |-> "idle", name |-> FirstName, title |-> Empty, read |-> NotRead, typed |-> FALSE]

TypeOK ==
  /\ stored.name \in Names /\ stored.title \in Titles /\ ~stored.title.blanks
  /\ user \in Names
  /\ data \in Titles \cup {NotRead}
  /\ fetch.at \in {"idle", "asked", "answered"} /\ fetch.title \in Titles
  /\ form.name \in Names /\ form.title \in Titles
  /\ typed \subseteq Fields
  /\ \A c \in Calls : /\ call[c].at \in {"idle", "asked", "done", "refused", "reading"}
                      /\ (call[c].at = "idle") = (call[c] = IdleCall)
  /\ message \in {"", "saved", "failed"}
  /\ saves \in 0 .. MaxSaves
  /\ fails \in 0 .. MaxFails

Known(d) == IF d = NotRead THEN Empty ELSE d
Idle     == [at |-> "idle", title |-> Empty]
Asked    == [at |-> "asked", title |-> Empty]

Init ==
  /\ stored \in [name : {FirstName}, title : {t \in Titles : ~t.blanks}]
  /\ user = FirstName
  /\ data = NotRead
  /\ fetch = Asked
  /\ form = [name |-> user, title |-> Empty]
  /\ typed = {}
  /\ call = [c \in Calls |-> IdleCall]
  /\ message = ""
  /\ saves = 0
  /\ fails = 0

(* Mutant: the effect depends on the user alone.                           *)
KnowUserOnly(u, d) ==
  /\ user' = u
  /\ data' = d
  /\ IF u = user THEN UNCHANGED <<form, typed>>
     ELSE form' = [name |-> u, title |-> Known(d)] /\ typed' = {}

(* The page knows a user and a title; the effect fills the form when one   *)
(* of them is another than before.                                         *)
Know(u, d) ==
  /\ user' = u
  /\ data' = d
  /\ IF u = user /\ Known(d) = Known(data) THEN UNCHANGED <<form, typed>>
     ELSE form' = [name |-> u, title |-> Known(d)] /\ typed' = {}

(* The title of the public page, were it saved now.                        *)
effectiveTitle == IF data = NotRead THEN Fallback ELSE resolvePublicStatusTitle(form.title, Name, Fallback)

-----------------------------------------------------------------------------
TypeName(n) ==
  /\ n # form.name
  /\ form' = [form EXCEPT !.name = n]
  /\ typed' = typed \cup {"name"}
  /\ UNCHANGED <<stored, user, data, fetch, call, message, saves, fails>>

TypeTitle(x) ==
  /\ x # form.title
  /\ form' = [form EXCEPT !.title = x]
  /\ typed' = typed \cup {"title"}
  /\ UNCHANGED <<stored, user, data, fetch, call, message, saves, fails>>

Submit ==
  /\ saves < MaxSaves
  /\ saves' = saves + 1
  /\ \E c \in Calls :
       /\ call[c] = IdleCall
       /\ call' = [call EXCEPT ![c] = [at |-> "asked", name |-> form.name, title |-> form.title,
                                       read |-> data, typed |-> "title" \in typed]]
  /\ message' = ""
  /\ UNCHANGED <<stored, user, data, fetch, form, typed, fails>>

Save(c) ==
  /\ call[c].at = "asked"
  /\ stored' = [name |-> call[c].name, title |-> Trimmed(call[c].title)]
  /\ call' = [call EXCEPT ![c].at = "done"]
  /\ UNCHANGED <<user, data, fetch, form, typed, message, saves, fails>>

(* The name is taken, or the connection fails before the request is        *)
(* carried out, or after.                                                  *)
Fail(c) ==
  /\ call[c].at = "asked"
  /\ fails < MaxFails
  /\ fails' = fails + 1
  /\ stored' \in {stored, [name |-> call[c].name, title |-> Trimmed(call[c].title)]}
  /\ call' = [call EXCEPT ![c].at = "refused"]
  /\ UNCHANGED <<user, data, fetch, form, typed, message, saves>>

(* setUser, then refetch: begun anew if a title is known, joined if not.   *)
Saved(c) ==
  /\ call[c].at = "done"
  /\ Know(call[c].name, data)
  /\ fetch' = IF data # NotRead \/ fetch.at = "idle" THEN Asked ELSE fetch
  /\ call' = [call EXCEPT ![c].at = "reading"]
  /\ UNCHANGED <<stored, message, saves, fails>>

(* The refetch has ended, well or badly: it does not throw.                *)
Settle(c) ==
  /\ call[c].at = "reading"
  /\ fetch.at = "idle"
  /\ message' = "saved"
  /\ call' = [call EXCEPT ![c] = IdleCall]
  /\ UNCHANGED <<stored, user, data, fetch, form, typed, saves, fails>>

Refused(c) ==
  /\ call[c].at = "refused"
  /\ message' = "failed"
  /\ call' = [call EXCEPT ![c] = IdleCall]
  /\ UNCHANGED <<stored, user, data, fetch, form, typed, saves, fails>>

Read ==
  /\ fetch.at = "asked"
  /\ fetch' = [at |-> "answered", title |-> stored.title]
  /\ UNCHANGED <<stored, user, data, form, typed, call, message, saves, fails>>

Arrive ==
  /\ fetch.at = "answered"
  /\ Know(user, fetch.title)
  /\ fetch' = Idle
  /\ UNCHANGED <<stored, call, message, saves, fails>>

GiveUp ==
  /\ fetch.at # "idle"
  /\ fails < MaxFails
  /\ fails' = fails + 1
  /\ fetch' = Idle
  /\ UNCHANGED <<stored, user, data, form, typed, call, message, saves>>

Next ==
  \/ \E n \in Names : TypeName(n)
  \/ \E x \in Titles : TypeTitle(x)
  \/ Submit \/ Read \/ Arrive \/ GiveUp
  \/ \E c \in Calls : Save(c) \/ Fail(c) \/ Saved(c) \/ Settle(c) \/ Refused(c)

Spec == Init /\ [][Next]_vars

-----------------------------------------------------------------------------
(* The preview of what is typed is the title the public page will have     *)
(* once it is saved (resolvePublicStatusTitle, and the trim of the save).  *)
PreviewIsWhatSavingGives ==
  data # NotRead => effectiveTitle = resolvePublicStatusTitle(Trimmed(form.title), Name, Fallback)

(* A save replaces a title its reader has not typed only if the page had   *)
(* not read the title, or it was changed since (all fields are sent).      *)
UntypedTitleIsKept ==
  \A c \in Calls :
    (call[c].at = "asked" /\ call'[c].at = "done" /\ stored'.title # stored.title)
      => call[c].typed \/ call[c].read # stored.title
=============================================================================
