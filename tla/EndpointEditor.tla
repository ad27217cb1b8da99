--------------------------- MODULE EndpointEditor ---------------------------
(***************************************************************************)
(* The endpoints on the notifications page: the list, the form that adds   *)
(* or edits one (its fields are the business of module EndpointForm), and  *)
(* the line that tells what became of a save, a deletion or a test.  The   *)
(* callbacks of a mutation are those of the last rendering; but once a     *)
(* second mutation of its kind has begun, the first keeps those it had.    *)
(***************************************************************************)
EXTENDS Naturals

CONSTANTS
  Contents,   \* what a form holds besides the empty form
  Calls,      \* requests that may be under way at one time
  MaxId,      \* bound: endpoints ever created
  MaxActs     \* bound: requests

Ids     == 1 .. MaxId
New     == 0               \* no endpoint: the form adds one
Live    == MaxId + 1       \* the callback sees the editing of the moment
Absent  == ""              \* no row of this id
Nothing == ""              \* no text, no notice

EndpointEditorAssumption == Absent \notin Contents /\ MaxId \in Nat \ {0} /\ MaxActs \in Nat

VARIABLES
  rows,     \* server: [Ids -> content or Absent]
  issued,   \* server: ids given out
  list,     \* the list the page shows
  reading,  \* the fetch of the list
  editing,  \* editingEndpoint
  form,     \* the endpoint the fields were filled from, and what they hold
  notice,   \* endpointMessage or endpointError; at most one is set
  call,     \* [Calls -> the request under way]
  ended,    \* history: what ended last
  late,     \* history: the end of a creation emptied the form of an edited endpoint
  blind,    \* history: an endpoint is edited that the list shows after its end
  acts

pageVars == <<editing, form, notice, ended, late, blind>>
vars     == <<rows, issued, list, reading, pageVars, call, acts>>

Lists     == [Ids -> Contents \cup {Absent}]
NoRows    == [i \in Ids |-> Absent]
Asked     == [at |-> "asked", data |-> NoRows]
NoReading == [at |-> "idle", data |-> NoRows]
IdleCall  == [kind |-> "none", id |-> New, text |-> Nothing, at |-> "idle", sees |-> New]
Results   == {"created", "updated", "deleted", "tested", "failed"}

TypeOK ==
  /\ rows \in Lists
  /\ issued \in 0 .. MaxId
  /\ list \in Lists
  /\ reading \in [at : {"idle", "asked", "answered"}, data : Lists]
  /\ editing \in Ids \cup {New}
  /\ form \in [of : Ids \cup {New}, text : Contents \cup {Nothing}]
  /\ notice \in Results \cup {Nothing}
  /\ call \in [Calls -> [kind : {"none", "save", "delete", "test"}, id : Ids \cup {New},
                         text : Contents \cup {Nothing}, at : {"idle", "asked", "done", "refused", "settling"},
                         sees : Ids \cup {New, Live}]]
  /\ ended \in Results \cup {Nothing}
  /\ late \in BOOLEAN
  /\ blind \in BOOLEAN
  /\ acts \in 0 .. MaxActs

Init ==
  /\ rows \in {[NoRows EXCEPT ![1] = x] : x \in Contents}
  /\ issued = 1
  /\ list = rows
  /\ reading = NoReading
  /\ editing = New
  /\ form = [of |-> New, text |-> Nothing]
  /\ notice = Nothing
  /\ call = [c \in Calls |-> IdleCall]
  /\ ended = Nothing
  /\ late = FALSE
  /\ blind = FALSE
  /\ acts = 0

Testing == \E c \in Calls : call[c].kind = "test"
Seen(c) == IF call[c].sees = Live THEN editing ELSE call[c].sees

-----------------------------------------------------------------------------
(* What the reader does.                                                   *)

(* The effect of the form.                                                 *)
Pass(i, text) ==
  /\ editing' = i
  /\ form' = (IF i = editing THEN form ELSE [of |-> i, text |-> text])
  /\ late' = (IF i = editing THEN late ELSE FALSE)

Detached(i) == \E c \in Calls : call[c].kind = "delete" /\ call[c].id = i /\ call[c].sees # Live

Edit(i) ==
  /\ list[i] # Absent
  /\ editing # i
  /\ Pass(i, list[i])
  /\ blind' = (rows[i] = Absent \/ Detached(i))
  /\ UNCHANGED <<rows, issued, list, reading, call, notice, ended, acts>>

Cancel ==
  /\ editing # New
  /\ Pass(New, Nothing)
  /\ notice' = Nothing
  /\ UNCHANGED <<rows, issued, list, reading, call, ended, blind, acts>>

Type(x) ==
  /\ form' = [form EXCEPT !.text = x]
  /\ UNCHANGED <<rows, issued, list, reading, editing, notice, call, ended, late, blind, acts>>

(* A new request; an earlier one of its kind keeps the callbacks it has.   *)
Begin(kind, i, text) ==
  /\ acts < MaxActs
  /\ acts' = acts + 1
  /\ \E c \in Calls :
       /\ call[c] = IdleCall
       /\ call' = [d \in Calls |->
            IF d = c THEN [kind |-> kind, id |-> i, text |-> text, at |-> "asked", sees |-> Live]
            ELSE IF call[d].kind = kind THEN [call[d] EXCEPT !.sees = Seen(d)]
            ELSE call[d]]
  /\ UNCHANGED <<rows, issued, list, reading, editing, form, ended, late>>

Submit ==
  /\ form.text # Nothing
  /\ Begin("save", editing, form.text)
  /\ notice' = Nothing
  /\ UNCHANGED blind

(* Deleting an endpoint once more detaches the deletion under way.         *)
Delete(i) ==
  /\ list[i] # Absent
  /\ Begin("delete", i, Nothing)
  /\ blind' = (blind \/ \E c \in Calls : call[c].kind = "delete" /\ call[c].id = editing)
  /\ UNCHANGED notice

Test(i) ==
  /\ list[i] # Absent
  /\ ~Testing
  /\ Begin("test", i, Nothing)
  /\ notice' = Nothing
  /\ UNCHANGED blind

-----------------------------------------------------------------------------
(* The server and the query.                                               *)

Serve(c) ==
  LET i == call[c].id IN
  /\ call[c].at = "asked"
  /\ \/ /\ call[c].kind = "save" /\ i = New /\ issued < MaxId
        /\ issued' = issued + 1
        /\ rows' = [rows EXCEPT ![issued + 1] = call[c].text]
        /\ call' = [call EXCEPT ![c].at = "done"]
     \/ /\ i # New /\ rows[i] # Absent
        /\ rows' = CASE call[c].kind = "save"   -> [rows EXCEPT ![i] = call[c].text]
                     [] call[c].kind = "delete" -> [rows EXCEPT ![i] = Absent]
                     [] call[c].kind = "test"   -> rows
        /\ call' = [call EXCEPT ![c].at = "done"]
        /\ UNCHANGED issued
     \/ /\ call' = [call EXCEPT ![c].at = "refused"]
        /\ UNCHANGED <<rows, issued>>
  /\ UNCHANGED <<list, reading, pageVars, acts>>

Read ==
  /\ reading.at = "asked"
  /\ reading' = [at |-> "answered", data |-> rows]
  /\ UNCHANGED <<rows, issued, list, pageVars, call, acts>>

Arrive ==
  /\ reading.at = "answered"
  /\ list' = reading.data
  /\ reading' = NoReading
  /\ UNCHANGED <<rows, issued, pageVars, call, acts>>

-----------------------------------------------------------------------------
(* The page hears of it.                                                   *)

Tell(result) == notice' = result /\ ended' = result

(* onSuccess of a save: the text depends on what is edited by now, and     *)
(* whatever it is, it is closed.                                           *)
Saved(c) ==
  /\ call[c].kind = "save"
  /\ call[c].at = "done"
  /\ notice' = IF Seen(c) = New THEN "created" ELSE "updated"
  /\ ended' = IF call[c].id = New THEN "created" ELSE "updated"
  /\ Pass(New, Nothing)
  /\ reading' = Asked
  /\ call' = [call EXCEPT ![c].at = "settling"]
  /\ UNCHANGED <<rows, issued, list, blind, acts>>

(* Mutant: the form of the endpoint stays open.                            *)
DeletedOpen(c) ==
  /\ call[c].kind = "delete"
  /\ call[c].at = "done"
  /\ Tell("deleted")
  /\ reading' = Asked
  /\ call' = [call EXCEPT ![c] = IdleCall]
  /\ UNCHANGED <<rows, issued, list, editing, form, late, blind, acts>>

Deleted(c) ==
  /\ call[c].kind = "delete"
  /\ call[c].at = "done"
  /\ Tell("deleted")
  /\ IF Seen(c) = call[c].id THEN Pass(New, Nothing) ELSE UNCHANGED <<editing, form, late>>
  /\ reading' = Asked
  /\ call' = [call EXCEPT ![c] = IdleCall]
  /\ UNCHANGED <<rows, issued, list, blind, acts>>

Tested(c) ==
  /\ call[c].kind = "test"
  /\ call[c].at = "done"
  /\ Tell("tested")
  /\ call' = [call EXCEPT ![c] = IdleCall]
  /\ UNCHANGED <<rows, issued, list, reading, editing, form, late, blind, acts>>

(* Mutant: the form is emptied after every save.                           *)
EmptyAlways(c) ==
  /\ call' = [call EXCEPT ![c] = IdleCall]
  /\ form' = [form EXCEPT !.of = New, !.text = Nothing]
  /\ late' = (IF call[c].id = New THEN editing # New ELSE late)

(* The submission of a form that added an endpoint has ended, well or      *)
(* badly (the page has caught the error): the form is emptied.             *)
Empty(c) ==
  /\ call' = [call EXCEPT ![c] = IdleCall]
  /\ IF call[c].kind = "save" /\ call[c].id = New
     THEN form' = [of |-> New, text |-> Nothing] /\ late' = (editing # New)
     ELSE UNCHANGED <<form, late>>

(* Its list has been read again.                                           *)
Settle(c) ==
  /\ call[c].at = "settling"
  /\ reading.at = "idle"
  /\ Empty(c)
  /\ UNCHANGED <<rows, issued, list, reading, editing, notice, ended, blind, acts>>

(* Mutant: an error does not replace the message.                          *)
RefusedBeneath(c) ==
  /\ call[c].at = "refused"
  /\ notice' = IF notice = Nothing THEN "failed" ELSE notice
  /\ ended' = "failed"
  /\ Empty(c)
  /\ UNCHANGED <<rows, issued, list, reading, editing, blind, acts>>

Refused(c) ==
  /\ call[c].at = "refused"
  /\ Tell("failed")
  /\ Empty(c)
  /\ UNCHANGED <<rows, issued, list, reading, editing, blind, acts>>

Next ==
  \/ \E i \in Ids : Edit(i) \/ Delete(i) \/ Test(i)
  \/ \E x \in Contents : Type(x)
  \/ Cancel \/ Submit \/ Read \/ Arrive
  \/ \E c \in Calls : Serve(c) \/ Saved(c) \/ Deleted(c) \/ Tested(c) \/ Settle(c) \/ Refused(c)

Spec == Init /\ [][Next]_vars

-----------------------------------------------------------------------------
(* The line on the page tells how what ended last has ended, in whatever   *)
(* order the answers come; but an update may be told as a creation and the *)
(* other way round (onSuccess and catch of the three mutations).           *)
NoticeIsOfTheLastEnd ==
  notice # Nothing => \/ notice = ended
                 \/ {notice, ended} = {"created", "updated"}

(* The form headed as the edition of an endpoint was filled from it,       *)
(* unless the late end of a creation has emptied it.                       *)
EditFormShowsItsEndpoint == form.of # editing => late

(* The form of an endpoint that has been deleted from the page is closed;  *)
(* unless it was opened from a list that still showed it, or deleted twice *)
(* (editingEndpoint?.id === id).                                           *)
DeletedIsNotEdited ==
  ~(/\ editing # New /\ rows[editing] = Absent /\ ~blind
    /\ \A c \in Calls : call[c].kind = "delete" => call[c].id # editing)
=============================================================================
