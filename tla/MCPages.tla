------------------------------ MODULE MCPages -------------------------------
(***************************************************************************)
(* The pages of the web client, each on instances of its own, of which a   *)
(* behaviour is one: the forms of domains, endpoints and policies with     *)
(* what the server makes of them, the dashboard, the public page, and the  *)
(* administrator's list of tenants, its dialogs and its bulk actions.      *)
(***************************************************************************)
EXTENDS Integers, Sequences, FiniteSets, TLC

CONSTANTS c1, c2, c3, d1, d2, d3, e1, Nobody

VARIABLES
  part,   \* the part whose behaviour this is
  domain, hostForm, hostTyped, sending,
  boardRows, boardIssued, cached, boardFetch, boardEditing, boardForm,
  boardCall, boardLate, joined, boardActs, faults,
  stored, targetForm, targetTyped,
  policy, shown, loaded, ruleReading, listed, ruleSelected, ruleForm, ruleCall,
  saved, ruleCrossed, saves,
  alarmRows, alarmIssued, alarmList, alarmReading, alarmEditing, alarmForm,
  notice, alarmCall, ended, alarmLate, blind, alarmActs,
  statusRows, today, statusIssued, suspended, answer, data, expanded,
  statusActs,
  listExists, listOff, query, page, cache, listFetch, fresh, moves, changes,
  listFails,
  dialogExists, dialogOff, who, view, dialogSelected, detail, dialogReading,
  dialogTyped, dialogNote, dialogError, dialogCall, dialogCrossed, missed,
  swept, dialogActs, dialogFails,
  bulkExists, bulkOff, bulkList, bulkSelected, run, bulkNote, bulkError, begun

hostVars == <<domain, hostForm, hostTyped, sending>>
boardVars == <<boardRows, boardIssued, cached, boardFetch, boardEditing,
               boardForm, boardCall, boardLate, joined, boardActs, faults>>
targetVars == <<stored, targetForm, targetTyped>>
ruleVars == <<policy, shown, loaded, ruleReading, listed, ruleSelected,
              ruleForm, ruleCall, saved, ruleCrossed, saves>>
alarmVars == <<alarmRows, alarmIssued, alarmList, alarmReading, alarmEditing,
               alarmForm, notice, alarmCall, ended, alarmLate, blind, alarmActs>>
statusVars == <<statusRows, today, statusIssued, suspended, answer, data,
                expanded, statusActs>>
listVars == <<listExists, listOff, query, page, cache, listFetch, fresh, moves,
              changes, listFails>>
dialogVars == <<dialogExists, dialogOff, who, view, dialogSelected, detail,
                dialogReading, dialogTyped, dialogNote, dialogError,
                dialogCall, dialogCrossed, missed, swept, dialogActs,
                dialogFails>>
bulkVars == <<bulkExists, bulkOff, bulkList, bulkSelected, run, bulkNote,
              bulkError, begun>>
allVars == <<part, hostVars, boardVars, targetVars, ruleVars, alarmVars,
             statusVars, listVars, dialogVars, bulkVars>>

EndOfValidity == ("a.example" :> 1) @@ ("b.example" :> 3)
Symmetry == Permutations({c1, c2}) \cup Permutations({d1, d2})

(* The modules of the pages, for the record b of their constants.          *)
HostForm(b) == INSTANCE DomainForm WITH
  Intervals <- b.intervals, Typed <- b.typed, form <- hostForm, typed <- hostTyped
Board(b) == INSTANCE DashboardPage WITH
  Hosts <- b.hosts, Calls <- b.calls, MaxId <- b.maxId, MaxActs <- b.maxActs,
  MaxFaults <- b.maxFaults, rows <- boardRows, issued <- boardIssued,
  fetch <- boardFetch, editing <- boardEditing, form <- boardForm,
  call <- boardCall, late <- boardLate, acts <- boardActs
TargetForm(b) == INSTANCE EndpointForm WITH
  Types <- b.types, Values <- b.values, form <- targetForm, typed <- targetTyped
Rules(b) == INSTANCE PolicyEditor WITH
  Domains <- b.domains, Endpoints <- b.endpoints, Texts <- b.texts,
  Calls <- b.calls, MaxSaves <- b.maxSaves, reading <- ruleReading,
  selected <- ruleSelected, form <- ruleForm, call <- ruleCall,
  crossed <- ruleCrossed
Alarms(b) == INSTANCE EndpointEditor WITH
  Contents <- b.contents, Calls <- b.calls, MaxId <- b.maxId,
  MaxActs <- b.maxActs, rows <- alarmRows, issued <- alarmIssued,
  list <- alarmList, reading <- alarmReading, editing <- alarmEditing,
  form <- alarmForm, call <- alarmCall, late <- alarmLate, acts <- alarmActs
Status(b) == INSTANCE StatusPages WITH
  Hosts <- b.hosts, ExpiryOf <- b.expiryOf, Intervals <- b.intervals,
  Day <- b.day, MaxId <- b.maxId, MaxActs <- b.maxActs, MaxDay <- b.maxDay,
  rows <- statusRows, issued <- statusIssued, acts <- statusActs
List(b) == INSTANCE TenantList WITH
  Tenants <- b.tenants, Disabled <- b.disabled, Filters <- b.filters,
  SortKeys <- b.sortKeys, PageSize <- b.pageSize, MaxMoves <- b.maxMoves,
  MaxChanges <- b.maxChanges, MaxFails <- b.maxFails, exists <- listExists,
  off <- listOff, fetch <- listFetch, fails <- listFails
Dialogs(b) == INSTANCE TenantDialogs WITH
  Tenants <- b.tenants, Calls <- b.calls, MaxActs <- b.maxActs,
  MaxFails <- b.maxFails, exists <- dialogExists, off <- dialogOff,
  selected <- dialogSelected, reading <- dialogReading, typed <- dialogTyped,
  note <- dialogNote, error <- dialogError, call <- dialogCall,
  crossed <- dialogCrossed, acts <- dialogActs, fails <- dialogFails
Bulk(b) == INSTANCE BulkActions WITH
  Tenants <- b.tenants, Runs <- b.runs, MaxRuns <- b.maxRuns,
  exists <- bulkExists, off <- bulkOff, list <- bulkList,
  selected <- bulkSelected, note <- bulkNote, error <- bulkError

(* The parts: two are of endpoints, of policies and of lists.              *)
DomainForms == [intervals |-> {30, 259200}, typed |-> {0}]
Dashboard ==
  [hosts |-> {"a"}, calls |-> {c1, c2}, maxId |-> 2, maxActs |-> 3, maxFaults |-> 0]
EndpointForms == [types |-> {"telegram", "webhook"}, values |-> {"x"}]
Webhooks == [types |-> {"webhook"}, values |-> {"x", "y"}]
Policies ==
  [domains |-> {d1, d2}, endpoints |-> {}, texts |-> {{-3}}, calls |-> {c1, c2},
   maxSaves |-> 2]
Thresholds ==
  [domains |-> {d3}, endpoints |-> {e1}, texts |-> {{14, -1}, {-2}},
   calls |-> {c3}, maxSaves |-> 1]
EndpointList ==
  [contents |-> {"x"}, calls |-> {c1, c2}, maxId |-> 2, maxActs |-> 3]
StatusPage ==
  [hosts |-> {"a.example", "b.example"}, expiryOf |-> EndOfValidity,
   intervals |-> {129600, 172800}, day |-> 86400, maxId |-> 2, maxActs |-> 2,
   maxDay |-> 1]
ShortList ==
  [tenants |-> {1, 2, 3}, disabled |-> {1}, filters |-> {"all", "disabled"},
   sortKeys |-> {"expiry", "status"}, pageSize |-> 2, maxMoves |-> 2,
   maxChanges |-> 1, maxFails |-> 0]
LongList ==
  [tenants |-> 1 .. 7, disabled |-> {}, filters |-> {"all"},
   sortKeys |-> {"expiry"}, pageSize |-> 1, maxMoves |-> 3, maxChanges |-> 0,
   maxFails |-> 1]
TenantDialog ==
  [tenants |-> {d1, d2}, calls |-> {c1, c2}, maxActs |-> 2, maxFails |-> 1]
BulkRuns == [tenants |-> {1, 2}, runs |-> {c1, c2}, maxRuns |-> 2]

(* The values suit every part.                                             *)
ASSUME MCPagesValues ==
  /\ HostForm(DomainForms)!DomainFormAssumption
  /\ Board(Dashboard)!DashboardAssumption
  /\ TargetForm(EndpointForms)!EndpointFormAssumption
  /\ TargetForm(Webhooks)!EndpointFormAssumption
  /\ Rules(Policies)!PolicyEditorAssumption
  /\ Rules(Thresholds)!PolicyEditorAssumption
  /\ Alarms(EndpointList)!EndpointEditorAssumption
  /\ Status(StatusPage)!StatusPagesAssumption
  /\ List(ShortList)!TenantListAssumption
  /\ List(LongList)!TenantListAssumption
  /\ Dialogs(TenantDialog)!TenantDialogsAssumption
  /\ Bulk(BulkRuns)!BulkActionsAssumption

(* The variables of a part that does not move.                             *)
Unused == 0
NoHost ==
  /\ domain = Unused /\ hostForm = Unused /\ hostTyped = Unused
  /\ sending = Unused
NoBoard ==
  /\ boardRows = Unused /\ boardIssued = Unused /\ cached = Unused
  /\ boardFetch = Unused /\ boardEditing = Unused /\ boardForm = Unused
  /\ boardCall = Unused /\ boardLate = Unused /\ joined = Unused
  /\ boardActs = Unused /\ faults = Unused
NoTarget ==
  /\ stored = Unused /\ targetForm = Unused /\ targetTyped = Unused
NoRule ==
  /\ policy = Unused /\ shown = Unused /\ loaded = Unused
  /\ ruleReading = Unused /\ listed = Unused /\ ruleSelected = Unused
  /\ ruleForm = Unused /\ ruleCall = Unused /\ saved = Unused
  /\ ruleCrossed = Unused /\ saves = Unused
NoAlarm ==
  /\ alarmRows = Unused /\ alarmIssued = Unused /\ alarmList = Unused
  /\ alarmReading = Unused /\ alarmEditing = Unused /\ alarmForm = Unused
  /\ notice = Unused /\ alarmCall = Unused /\ ended = Unused
  /\ alarmLate = Unused /\ blind = Unused /\ alarmActs = Unused
NoStatus ==
  /\ statusRows = Unused /\ today = Unused /\ statusIssued = Unused
  /\ suspended = Unused /\ answer = Unused /\ data = Unused
  /\ expanded = Unused /\ statusActs = Unused
NoList ==
  /\ listExists = Unused /\ listOff = Unused /\ query = Unused /\ page = Unused
  /\ cache = Unused /\ listFetch = Unused /\ fresh = Unused
  /\ moves = Unused /\ changes = Unused /\ listFails = Unused
NoDialog ==
  /\ dialogExists = Unused /\ dialogOff = Unused /\ who = Unused
  /\ view = Unused /\ dialogSelected = Unused /\ detail = Unused
  /\ dialogReading = Unused /\ dialogTyped = Unused /\ dialogNote = Unused
  /\ dialogError = Unused /\ dialogCall = Unused /\ dialogCrossed = Unused
  /\ missed = Unused /\ swept = Unused /\ dialogActs = Unused
  /\ dialogFails = Unused
NoBulk ==
  /\ bulkExists = Unused /\ bulkOff = Unused /\ bulkList = Unused
  /\ bulkSelected = Unused /\ run = Unused /\ bulkNote = Unused
  /\ bulkError = Unused /\ begun = Unused

Parts == {"domain", "dashboard", "endpoint", "webhook", "policies",
          "thresholds", "endpoints", "status", "tenants", "pages",
          "dialogs", "bulk"}

Init ==
  /\ part \in Parts
  /\ IF part = "domain" THEN HostForm(DomainForms)!Init ELSE NoHost
  /\ IF part = "dashboard" THEN Board(Dashboard)!Init ELSE NoBoard
  /\ CASE part = "endpoint" -> TargetForm(EndpointForms)!Init
       [] part = "webhook" -> TargetForm(Webhooks)!Init
       [] OTHER -> NoTarget
  /\ CASE part = "policies" -> Rules(Policies)!Init
       [] part = "thresholds" -> Rules(Thresholds)!Init
       [] OTHER -> NoRule
  /\ IF part = "endpoints" THEN Alarms(EndpointList)!Init ELSE NoAlarm
  /\ IF part = "status" THEN Status(StatusPage)!Init ELSE NoStatus
  /\ CASE part = "tenants" -> List(ShortList)!Init
       [] part = "pages" -> List(LongList)!Init
       [] OTHER -> NoList
  /\ IF part = "dialogs" THEN Dialogs(TenantDialog)!Init ELSE NoDialog
  /\ IF part = "bulk" THEN Bulk(BulkRuns)!Init ELSE NoBulk

(* One part moves, the others are not there.                               *)
Next ==
  \/ /\ part = "domain" /\ HostForm(DomainForms)!Next
     /\ UNCHANGED <<part, boardVars, targetVars, ruleVars, alarmVars, statusVars,
                  listVars, dialogVars, bulkVars>>
  \/ /\ part = "dashboard" /\ Board(Dashboard)!Next
     /\ UNCHANGED <<part, hostVars, targetVars, ruleVars, alarmVars, statusVars,
                  listVars, dialogVars, bulkVars>>
  \/ /\ part = "endpoint" /\ TargetForm(EndpointForms)!Next
     /\ UNCHANGED <<part, hostVars, boardVars, ruleVars, alarmVars, statusVars,
                  listVars, dialogVars, bulkVars>>
  \/ /\ part = "webhook" /\ TargetForm(Webhooks)!Next
     /\ UNCHANGED <<part, hostVars, boardVars, ruleVars, alarmVars, statusVars,
                  listVars, dialogVars, bulkVars>>
  \/ /\ part = "policies" /\ Rules(Policies)!Next
     /\ UNCHANGED <<part, hostVars, boardVars, targetVars, alarmVars, statusVars,
                  listVars, dialogVars, bulkVars>>
  \/ /\ part = "thresholds" /\ Rules(Thresholds)!Next
     /\ UNCHANGED <<part, hostVars, boardVars, targetVars, alarmVars, statusVars,
                  listVars, dialogVars, bulkVars>>
  \/ /\ part = "endpoints" /\ Alarms(EndpointList)!Next
     /\ UNCHANGED <<part, hostVars, boardVars, targetVars, ruleVars, statusVars,
                  listVars, dialogVars, bulkVars>>
  \/ /\ part = "status" /\ Status(StatusPage)!Next
     /\ UNCHANGED <<part, hostVars, boardVars, targetVars, ruleVars, alarmVars,
                  listVars, dialogVars, bulkVars>>
  \/ /\ part = "tenants" /\ List(ShortList)!Next
     /\ UNCHANGED <<part, hostVars, boardVars, targetVars, ruleVars, alarmVars,
                  statusVars, dialogVars, bulkVars>>
  \/ /\ part = "pages" /\ List(LongList)!Next
     /\ UNCHANGED <<part, hostVars, boardVars, targetVars, ruleVars, alarmVars,
                  statusVars, dialogVars, bulkVars>>
  \/ /\ part = "dialogs" /\ Dialogs(TenantDialog)!Next
     /\ UNCHANGED <<part, hostVars, boardVars, targetVars, ruleVars, alarmVars,
                  statusVars, listVars, bulkVars>>
  \/ /\ part = "bulk" /\ Bulk(BulkRuns)!Next
     /\ UNCHANGED <<part, hostVars, boardVars, targetVars, ruleVars, alarmVars,
                  statusVars, listVars, dialogVars>>

Spec == Init /\ [][Next]_allVars

-----------------------------------------------------------------------------
(* Types of the parts.                                                     *)
TypeOK ==
  /\ part = "domain" => HostForm(DomainForms)!TypeOK
  /\ part = "dashboard" => Board(Dashboard)!TypeOK
  /\ part = "endpoint" => TargetForm(EndpointForms)!TypeOK
  /\ part = "webhook" => TargetForm(Webhooks)!TypeOK
  /\ part = "policies" => Rules(Policies)!TypeOK
  /\ part = "thresholds" => Rules(Thresholds)!TypeOK
  /\ part = "endpoints" => Alarms(EndpointList)!TypeOK
  /\ part = "status" => Status(StatusPage)!TypeOK
  /\ part = "tenants" => List(ShortList)!TypeOK
  /\ part = "pages" => List(LongList)!TypeOK
  /\ part = "dialogs" => Dialogs(TenantDialog)!TypeOK
  /\ part = "bulk" => Bulk(BulkRuns)!TypeOK

(* A form stores what it shows. What it accepts the server accepts and     *)
(* stores as it is; what was filled in and not touched stays as it was     *)
(* stored, but for an interval below a minute, and for a policy without    *)
(* thresholds, of which the empty text makes the threshold 0; and a masked *)
(* header value stays with its name: it never goes out under another one   *)
(* unless it was typed again (defaultValues and handleSubmit of the three  *)
(* forms, handleUpsertDomain, mergeEndpointConfig).                        *)
FormsSaveWhatTheyShow ==
  /\ part = "domain" => /\ HostForm(DomainForms)!SentIsStored
                        /\ HostForm(DomainForms)!UntouchedKeepsDomain
  /\ part = "endpoint" => /\ TargetForm(EndpointForms)!AcceptedByTheServer
                          /\ TargetForm(EndpointForms)!UntouchedKeepsEndpoint
                          /\ TargetForm(EndpointForms)!SavedIsShown
                          /\ TargetForm(EndpointForms)!HeaderValueStaysWithItsName
  /\ part = "webhook" => /\ TargetForm(Webhooks)!AcceptedByTheServer
                         /\ TargetForm(Webhooks)!UntouchedKeepsEndpoint
                         /\ TargetForm(Webhooks)!SavedIsShown
                         /\ TargetForm(Webhooks)!HeaderValueStaysWithItsName
  /\ part = "policies" => Rules(Policies)!UntouchedKeepsPolicy
  /\ part = "thresholds" => Rules(Thresholds)!UntouchedKeepsPolicy

(* A page that waits for nothing shows what the server has, in whatever    *)
(* order saves, deletions, checks and the fetches they cause have crossed: *)
(* the dashboard, unless something failed or succeeded before its first    *)
(* list was in; the policies, unless two saves of one were under way       *)
(* together, or one was refused or came before the policies were read; the *)
(* list of tenants, for the filter and the order it shows, on a page that  *)
(* exists; and the dialog of a tenant, unless a request about it was lost  *)
(* or ended while it was not open (onSuccess of the mutations, the keys of *)
(* the queries).                                                           *)
QuietIsCurrent ==
  /\ part = "dashboard" => Board(Dashboard)!QuietPageIsCurrent
  /\ part = "policies" => Rules(Policies)!QuietPolicyIsTheLastSaved
  /\ part = "thresholds" => Rules(Thresholds)!QuietPolicyIsTheLastSaved
  /\ part = "tenants" => /\ List(ShortList)!QuietListFitsItsQuery
                         /\ List(ShortList)!LaterPagesAreLoaded
  /\ part = "pages" => /\ List(LongList)!QuietListFitsItsQuery
                       /\ List(LongList)!LaterPagesAreLoaded
                       /\ List(LongList)!NearestPagesOffered
  /\ part = "dialogs" => Dialogs(TenantDialog)!QuietDialogIsCurrent

(* What a page holds for one thing is not used for another: a form headed  *)
(* as the edition of a domain or an endpoint was filled from it, unless    *)
(* the late end of a creation has emptied it; it closes, and a tenant      *)
(* leaves the selection, with the deletion of what it is about; a password *)
(* is set for the tenant whose dialog it was typed in, unless a deletion   *)
(* has closed that dialog; and the notice tells how what ended last has    *)
(* ended (dashboard-page.tsx, notifications-page.tsx, admin-page.tsx:      *)
(* state beside the mutations).                                            *)
HeldForItsOwn ==
  /\ part = "dashboard" => Board(Dashboard)!EditFormShowsItsDomain
  /\ part = "endpoints" => /\ Alarms(EndpointList)!EditFormShowsItsEndpoint
                           /\ Alarms(EndpointList)!DeletedIsNotEdited
                           /\ Alarms(EndpointList)!NoticeIsOfTheLastEnd
  /\ part = "dialogs" => /\ Dialogs(TenantDialog)!DeletedIsDeselected
                         /\ Dialogs(TenantDialog)!PasswordIsOfItsTenant

(* A bulk action touches only the tenants that were ticked, and counted in *)
(* the question, when it was begun, each of them once; and what its        *)
(* message counts as processed was (runBulkAction, togglePageSelection).   *)
OnlyTheConfirmedIsDone ==
  part = "bulk" => /\ Bulk(BulkRuns)!TouchesOnlyTheConfirmed
                   /\ Bulk(BulkRuns)!CountsOnlyWhatWasDone
                   /\ Bulk(BulkRuns)!TickedOnce

(* What a page counts is what it lists. The tiles of the public page tell  *)
(* of its panels: as many, as many healthy ones, healthy all over only if  *)
(* all are, and an end of validity that a panel shows and none undercuts.  *)
(* Those of the dashboard, read apart from its list, differ from it only   *)
(* by a change in between and by disabled domains. A panel is of one       *)
(* piece, whatever checks, edits and readings came in between, and two     *)
(* with the same cadence have the same interval (handlePublicTenantStatus, *)
(* handleDomainSummary, DomainPanel).                                      *)
StatusAddsUp ==
  part = "status" => /\ Status(StatusPage)!TilesTellOfThePanels
                     /\ Status(StatusPage)!TilesFitTheList
                     /\ Status(StatusPage)!PanelIsOfOnePiece
                     /\ Status(StatusPage)!LabelTellsTheInterval

(* "Showing from-to of total tenants": as many rows as that.               *)
SummaryCountsTheRows ==
  /\ part = "tenants" => List(ShortList)!SummaryCountsTheRows
  /\ part = "pages" => List(LongList)!SummaryCountsTheRows
=============================================================================
