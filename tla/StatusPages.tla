---------------------------- MODULE StatusPages -----------------------------
(***************************************************************************)
(* What the pages tell of the domains.  The public status page of a tenant *)
(* and the tiles of the dashboard show one answer of the server, with the  *)
(* summary of the enabled domains; the dashboard shows beside it the list  *)
(* of all domains, which it reads by itself.  Both show a domain in a      *)
(* DomainPanel.  The server's rows change by edits and checks meanwhile.   *)
(***************************************************************************)
EXTENDS Integers, FiniteSets, FiniteSetsExt

CONSTANTS
  Hosts,      \* host names
  ExpiryOf,   \* [Hosts -> day on which the host's certificate ends]
  Intervals,  \* seconds between two checks of a domain
  Day,        \* seconds of a day
  MaxId,      \* bound: domains ever created
  MaxActs,    \* bound: changes on the server
  MaxDay      \* bound: days that pass

StatusPagesAssumption ==
  /\ "" \notin Hosts /\ ExpiryOf \in [Hosts -> Int]
  /\ Intervals \subseteq Nat /\ Day \in Nat \ {0}
  /\ {MaxId, MaxActs, MaxDay} \subseteq Nat

Ids  == 1 .. MaxId
Keys == {"status", "domains"}
None == -100                      \* null: no date, no days
Absent == [host |-> ""]

(* A row of domains, as toAPIDomain passes it on; of the certificate, the  *)
(* day it ends stands for all fields that are written with it.  looked is  *)
(* a history: the host of the certificate.                                 *)
Row == [host : Hosts, enabled : BOOLEAN, interval : Intervals, status : {"pending", "healthy", "error"},
        expires : Int, days : Int, error : BOOLEAN, successful : Int, looked : Hosts \cup {""}]

VARIABLES
  rows,      \* server
  today,     \* the day
  issued,    \* server: ids given out
  suspended, \* server: the tenant is disabled
  answer,    \* [Keys -> the answer under way to the page]
  data,      \* [Keys -> what the page has]
  expanded,  \* expandedDomainId, or 0
  acts

vars == <<rows, today, issued, suspended, answer, data, expanded, acts>>

NoAnswer == [at |-> None, rows |-> [i \in Ids |-> Absent]]

RowsOK(r)   == \A i \in Ids : r[i] = Absent \/ r[i] \in Row
AnswerOK(a) == \A k \in Keys : RowsOK(a[k].rows) /\ a[k].at \in 0 .. MaxActs \cup {None}

TypeOK ==
  /\ RowsOK(rows)
  /\ today \in 0 .. MaxDay
  /\ issued \in Ids \cup {0}
  /\ suspended \in BOOLEAN
  /\ AnswerOK(answer) /\ AnswerOK(data)
  /\ expanded \in 0 .. MaxId
  /\ acts \in 0 .. MaxActs

Init ==
  /\ rows = NoAnswer.rows
  /\ today = 0
  /\ issued = 0
  /\ suspended = FALSE
  /\ answer = [k \in Keys |-> NoAnswer]
  /\ data = [k \in Keys |-> NoAnswer]
  /\ expanded = 0
  /\ acts = 0

Listed(r)  == {i \in Ids : r[i] # Absent}
Enabled(r) == {i \in Listed(r) : r[i].enabled}

-----------------------------------------------------------------------------
(* The server.                                                             *)

Act == acts < MaxActs /\ acts' = acts + 1 /\ UNCHANGED <<answer, data, expanded>>

Create ==
  /\ Act
  /\ issued < MaxId
  /\ issued' = issued + 1
  /\ \E h \in Hosts, s \in Intervals :
       rows' = [rows EXCEPT ![issued + 1] =
            [host |-> h, enabled |-> TRUE, interval |-> s, status |-> "pending", expires |-> None,
             days |-> None, error |-> FALSE, successful |-> None, looked |-> ""]]
  /\ UNCHANGED <<today, suspended>>

(* An edit leaves status and certificate as they are.                      *)
Update(i) ==
  /\ Act
  /\ rows[i] # Absent
  /\ \E h \in Hosts, e \in BOOLEAN, s \in Intervals :
       rows' = [rows EXCEPT ![i].host = h, ![i].enabled = e, ![i].interval = s]
  /\ UNCHANGED <<today, issued, suspended>>

Delete(i) ==
  /\ Act
  /\ rows[i] # Absent
  /\ rows' = [rows EXCEPT ![i] = Absent]
  /\ UNCHANGED <<today, issued, suspended>>

(* Mutant: a check that fails moves the day of the last success.           *)
CheckMarksSuccess(i) ==
  /\ Act
  /\ rows[i] # Absent /\ rows[i].enabled /\ ~suspended
  /\ \/ /\ ExpiryOf[rows[i].host] >= today
        /\ rows' = [rows EXCEPT ![i].status = "healthy", ![i].expires = ExpiryOf[rows[i].host],
                                ![i].days = ExpiryOf[rows[i].host] - today, ![i].error = FALSE,
                                ![i].successful = today, ![i].looked = rows[i].host]
     \/ rows' = [rows EXCEPT ![i].status = "error", ![i].error = TRUE, ![i].successful = today]
  /\ UNCHANGED <<today, issued, suspended>>

(* The commit of a check: an error leaves the certificate as it was.       *)
Check(i) ==
  /\ Act
  /\ rows[i] # Absent /\ rows[i].enabled /\ ~suspended
  /\ \/ /\ ExpiryOf[rows[i].host] >= today
        /\ rows' = [rows EXCEPT ![i].status = "healthy", ![i].expires = ExpiryOf[rows[i].host],
                                ![i].days = ExpiryOf[rows[i].host] - today, ![i].error = FALSE,
                                ![i].successful = today, ![i].looked = rows[i].host]
     \/ rows' = [rows EXCEPT ![i].status = "error", ![i].error = TRUE]
  /\ UNCHANGED <<today, issued, suspended>>

Suspend == Act /\ suspended' = ~suspended /\ UNCHANGED <<rows, today, issued>>

Tomorrow ==
  /\ today < MaxDay
  /\ today' = today + 1
  /\ UNCHANGED <<rows, issued, suspended, answer, data, expanded, acts>>

-----------------------------------------------------------------------------
(* The summary of the public page, and the pages.                          *)

With(r, s) == Cardinality({i \in Enabled(r) : r[i].status = s})

(* Mutant: every domain counts, and every certificate.                     *)
summaryOfAll(r) ==
  [domain_count   |-> Cardinality(Listed(r)),
   healthy_count  |-> Cardinality({i \in Listed(r) : r[i].status = "healthy"}),
   error_count    |-> With(r, "error"),
   pending_count  |-> With(r, "pending"),
   overall_status |-> IF With(r, "error") > 0 THEN "error" ELSE IF With(r, "pending") > 0 THEN "pending" ELSE "healthy",
   next_expiry_at |-> LET days == {r[i].expires : i \in Listed(r)} \ {None} IN IF days = {} THEN None ELSE Min(days)]

summary(r) ==
  [domain_count   |-> Cardinality(Enabled(r)),
   healthy_count  |-> With(r, "healthy"),
   error_count    |-> With(r, "error"),
   pending_count  |-> With(r, "pending"),
   overall_status |-> IF With(r, "error") > 0 THEN "error" ELSE IF With(r, "pending") > 0 THEN "pending" ELSE "healthy",
   next_expiry_at |-> LET days == {r[i].expires : i \in Enabled(r)} \ {None} IN IF days = {} THEN None ELSE Min(days)]

(* A request is carried out: all rows for the list, the enabled ones for   *)
(* the public page.  A suspended tenant gets no answer.                    *)
Read(k) ==
  /\ ~suspended
  /\ answer[k] = NoAnswer
  /\ answer' = [answer EXCEPT ![k] = [at |-> acts, rows |-> rows]]
  /\ UNCHANGED <<rows, today, issued, suspended, data, expanded, acts>>

Arrive(k) ==
  /\ answer[k] # NoAnswer
  /\ data' = [data EXCEPT ![k] = answer[k]]
  /\ answer' = [answer EXCEPT ![k] = NoAnswer]
  /\ UNCHANGED <<rows, today, issued, suspended, expanded, acts>>

Lose(k) ==
  /\ answer[k] # NoAnswer
  /\ answer' = [answer EXCEPT ![k] = NoAnswer]
  /\ UNCHANGED <<rows, today, issued, suspended, data, expanded, acts>>

Loaded(k) == data[k] # NoAnswer

(* Mutant: the days are rounded first.                                     *)
intervalLabelRounded(s) == [unit |-> "days", number |-> (s + Day \div 2) \div Day]

intervalLabel(s) ==
  IF s % Day = 0 THEN [unit |-> "days", number |-> s \div Day] ELSE [unit |-> "seconds", number |-> s]

statusLabel(s) == IF s \in {"healthy", "error"} THEN s ELSE "pending"

(* DomainPanel; the error is among the details.                            *)
Panel(r) ==
  [host |-> r.host, badge |-> statusLabel(r.status), daysLeft |-> r.days, validTo |-> r.expires,
   lastSuccessful |-> r.successful, interval |-> intervalLabel(r.interval)]

Details(r, open) == IF open THEN [validTo |-> r.expires, error |-> r.error] ELSE [validTo |-> None, error |-> FALSE]

PublicPanels == {i \in Ids : i \in Enabled(data["status"].rows)}
ListPanels   == Listed(data["domains"].rows)
PanelsOf(k)  == IF k = "status" THEN PublicPanels ELSE ListPanels
RowOf(k, i)  == data[k].rows[i]

(* The tiles of the public page, once there is an answer; and those of the *)
(* dashboard, which has them from the start.                               *)
PublicTiles ==
  LET s == summary(data["status"].rows) IN
  [overall |-> statusLabel(s.overall_status), total |-> s.domain_count, healthy |-> s.healthy_count,
   pending |-> s.pending_count + s.error_count, next |-> s.next_expiry_at]

DashboardTiles ==
  LET s == summary(data["status"].rows) IN
  IF Loaded("status")
  THEN [overall |-> statusLabel(s.overall_status), total |-> s.domain_count, healthy |-> s.healthy_count,
        pending |-> s.pending_count, errors |-> s.error_count, next |-> s.next_expiry_at]
  ELSE [overall |-> statusLabel("pending"), total |-> Cardinality(ListPanels), healthy |-> 0,
        pending |-> 0, errors |-> 0, next |-> None]

(* onToggle: one panel at most is open; the button that edits opens too.   *)
Toggle(k, i) ==
  /\ i \in PanelsOf(k)
  /\ expanded' = IF expanded = i THEN 0 ELSE i
  /\ UNCHANGED <<rows, today, issued, suspended, answer, data, acts>>

EditButton(i) ==
  /\ i \in ListPanels
  /\ expanded' = i
  /\ UNCHANGED <<rows, today, issued, suspended, answer, data, acts>>

Next ==
  \/ Create \/ Suspend \/ Tomorrow
  \/ \E i \in Ids : Update(i) \/ Delete(i) \/ Check(i) \/ EditButton(i)
  \/ \E k \in Keys : Read(k) \/ Arrive(k) \/ Lose(k)
  \/ \E k \in Keys, i \in Ids : Toggle(k, i)

Spec == Init /\ [][Next]_vars

-----------------------------------------------------------------------------
Badged(k, b) == {i \in PanelsOf(k) : Panel(RowOf(k, i)).badge = b}

(* The tiles of the public page tell what its panels show: as many panels, *)
(* as many healthy ones, healthy all over only if all are, and an end of   *)
(* validity that a panel shows and none undercuts (handlePublicTenant-     *)
(* Status and the page, which count and list apart).                       *)
TilesTellOfThePanels ==
  Loaded("status") =>
    LET ends == {Panel(RowOf("status", i)).validTo : i \in PublicPanels} \ {None} IN
    /\ PublicTiles.total = Cardinality(PublicPanels)
    /\ PublicTiles.healthy = Cardinality(Badged("status", "healthy"))
    /\ PublicTiles.overall = "healthy" <=> Badged("status", "healthy") = PublicPanels
    /\ PublicTiles.next = (IF ends = {} THEN None ELSE Min(ends))

(* The tiles of the dashboard, read apart from its list, can differ from   *)
(* it only by a change between the two readings and by disabled domains.   *)
TilesFitTheList ==
  (Loaded("domains") /\ Loaded("status") /\ data["domains"].at = data["status"].at) =>
    LET on(b) == Cardinality({i \in Badged("domains", b) : RowOf("domains", i).enabled}) IN
    /\ DashboardTiles.healthy = on("healthy") /\ DashboardTiles.pending = on("pending")
    /\ DashboardTiles.errors = on("error")
    /\ DashboardTiles.total = on("healthy") + on("pending") + on("error")

(* A panel is of one piece, whatever checks, edits and readings came in    *)
(* between: days left count from the last success to the end of validity,  *)
(* they are never fewer than there are left today, a healthy badge has     *)
(* them, and the error is shown under an error badge and no other (the     *)
(* columns a check writes).                                                *)
PanelIsOfOnePiece ==
  \A k \in Keys : \A i \in PanelsOf(k) :
    LET p == Panel(RowOf(k, i)) IN
    /\ (p.daysLeft = None) = (p.lastSuccessful = None) /\ (p.validTo = None) = (p.lastSuccessful = None)
    /\ p.daysLeft # None => p.daysLeft = p.validTo - p.lastSuccessful /\ p.daysLeft >= p.validTo - today
    /\ p.badge = "healthy" => p.daysLeft # None
    /\ expanded = i => Details(RowOf(k, i), TRUE).error = (p.badge = "error")

(* Two panels with the same cadence on them have the same interval.        *)
LabelTellsTheInterval ==
  \A k \in Keys : \A i, j \in PanelsOf(k) :
    Panel(RowOf(k, i)).interval = Panel(RowOf(k, j)).interval => RowOf(k, i).interval = RowOf(k, j).interval
=============================================================================
