----------------------------- MODULE MCWebLive ------------------------------
(***************************************************************************)
(* The parts of the web client that wait for something, of which a         *)
(* behaviour is one, under fairness of what they wait for: the session,    *)
(* the verification of an e-mail, the checks of the dashboard, and the     *)
(* bulk actions.                                                           *)
(***************************************************************************)
EXTENDS Integers, Sequences, FiniteSets, TLC

CONSTANTS c1, c2, t1, u1, Nobody

VARIABLES
  part,   \* the part whose behaviour this is
  owner, live, aged, cookie, token, user, loading, clientCall, disturbed,
  clientFaults,
  password, link, signed, page, pagesCall, attempts, sent, moves, languages,
  pagesFaults,
  rows, issued, cached, fetch, editing, form, boardCall, late, joined, acts,
  boardFaults,
  exists, off, list, selected, run, note, error, begun

clientVars == <<owner, live, aged, cookie, token, user, loading, clientCall,
                disturbed, clientFaults>>
pagesVars == <<password, link, signed, page, pagesCall, attempts, sent, moves,
               languages, pagesFaults>>
boardVars == <<rows, issued, cached, fetch, editing, form, boardCall, late,
               joined, acts, boardFaults>>
bulkVars == <<exists, off, list, selected, run, note, error, begun>>
allVars == <<part, clientVars, pagesVars, boardVars, bulkVars>>

Client == INSTANCE WebClient WITH
  Tabs <- {t1}, Calls <- {c1, c2}, Users <- {u1}, MaxSessions <- 1,
  MaxFaults <- 1, call <- clientCall, faults <- clientFaults
Renewal == INSTANCE WebClient WITH
  Tabs <- {t1}, Calls <- {c1}, Users <- {u1}, MaxSessions <- 3, MaxFaults <- 2,
  call <- clientCall, faults <- clientFaults
Account == INSTANCE AccountPages WITH
  Names <- {"ann"}, Passwords <- {"p"}, Bound <- {"ann"}, ResetLinks <- {"r1"},
  VerifyLinks <- {"v1"}, Calls <- {c1, c2}, MaxSent <- 2, MaxMoves <- 2,
  MaxLanguages <- 1, MaxFaults <- 1, call <- pagesCall, faults <- pagesFaults
Dashboard == INSTANCE DashboardPage WITH
  Hosts <- {"a"}, Calls <- {c1, c2}, MaxId <- 2, MaxActs <- 2, MaxFaults <- 1,
  call <- boardCall, faults <- boardFaults
Bulk == INSTANCE BulkActions WITH
  Tenants <- {1, 2}, Runs <- {c1}, MaxRuns <- 1

(* The values suit every part.                                             *)
ASSUME MCWebLiveValues ==
  /\ Client!WebClientAssumption
  /\ Renewal!WebClientAssumption
  /\ Account!AccountPagesAssumption
  /\ Dashboard!DashboardAssumption
  /\ Bulk!BulkActionsAssumption

(* The variables of a part that does not move.                             *)
Unused == 0
NoClient ==
  /\ owner = Unused /\ live = Unused /\ aged = Unused /\ cookie = Unused
  /\ token = Unused /\ user = Unused /\ loading = Unused /\ clientCall = Unused
  /\ disturbed = Unused /\ clientFaults = Unused
NoPages ==
  /\ password = Unused /\ link = Unused /\ signed = Unused /\ page = Unused
  /\ pagesCall = Unused /\ attempts = Unused /\ sent = Unused /\ moves = Unused
  /\ languages = Unused /\ pagesFaults = Unused
NoBoard ==
  /\ rows = Unused /\ issued = Unused /\ cached = Unused /\ fetch = Unused
  /\ editing = Unused /\ form = Unused /\ boardCall = Unused /\ late = Unused
  /\ joined = Unused /\ acts = Unused /\ boardFaults = Unused
NoBulk ==
  /\ exists = Unused /\ off = Unused /\ list = Unused /\ selected = Unused
  /\ run = Unused /\ note = Unused /\ error = Unused /\ begun = Unused

Parts == {"client", "renewal", "account pages", "dashboard", "bulk"}

Init ==
  /\ part \in Parts
  /\ CASE part = "client" -> Client!Init
       [] part = "renewal" -> Renewal!Init
       [] OTHER -> NoClient
  /\ IF part = "account pages" THEN Account!Init ELSE NoPages
  /\ IF part = "dashboard" THEN Dashboard!Init ELSE NoBoard
  /\ IF part = "bulk" THEN Bulk!Init ELSE NoBulk

(* One part moves, the others are not there.                               *)
Next ==
  \/ part = "client" /\ Client!Next /\ UNCHANGED <<part, pagesVars, boardVars, bulkVars>>
  \/ /\ part = "renewal" /\ Renewal!Next
     /\ UNCHANGED <<part, pagesVars, boardVars, bulkVars>>
  \/ /\ part = "account pages" /\ Account!Next
     /\ UNCHANGED <<part, clientVars, boardVars, bulkVars>>
  \/ /\ part = "dashboard" /\ Dashboard!Next
     /\ UNCHANGED <<part, clientVars, pagesVars, bulkVars>>
  \/ part = "bulk" /\ Bulk!Next /\ UNCHANGED <<part, clientVars, pagesVars, boardVars>>

Spec == Init /\ [][Next]_allVars

Clients == {"client", "renewal"}

(* The network answers or fails, the server serves what reaches it, and    *)
(* what a tab has to do next is done: timers and promises of the browser.  *)
(* The reader and the other tabs need not do anything.                     *)
ClientFairness ==
  /\ \A c \in {c1, c2} :
       /\ WF_clientVars(part = "client" /\ (Client!Serve(c) \/ Client!Exhausted(c)))
       /\ WF_clientVars(part = "client" /\ Client!Receive(c))
  /\ WF_clientVars(part = "client" /\ \E c \in {c1, c2} : Client!Boot(c, t1))
  /\ WF_clientVars(part = "renewal" /\ (Renewal!Serve(c1) \/ Renewal!Exhausted(c1)))
  /\ WF_clientVars(part = "renewal" /\ (Renewal!Receive(c1) \/ Renewal!Boot(c1, t1)))

AccountFairness ==
  \A c \in {c1, c2} :
    /\ WF_pagesVars(part = "account pages" /\ Account!Serve(c))
    /\ WF_pagesVars(part = "account pages" /\ (Account!Succeed(c) \/ Account!Fail(c)))

DashboardFairness ==
  /\ \A c \in {c1, c2} :
       /\ WF_boardVars(part = "dashboard" /\ Dashboard!Serve(c))
       /\ WF_boardVars(part = "dashboard" /\ (Dashboard!Succeed(c) \/ Dashboard!Settle(c) \/ Dashboard!Refused(c)))
  /\ \A k \in Dashboard!Keys :
       /\ WF_boardVars(part = "dashboard" /\ Dashboard!Read(k))
       /\ WF_boardVars(part = "dashboard" /\ Dashboard!Arrive(k))

BulkFairness == WF_bulkVars(part = "bulk" /\ Bulk!RunStep(c1))

FairSpec == Spec /\ ClientFairness /\ AccountFairness /\ DashboardFairness /\ BulkFairness

-----------------------------------------------------------------------------

(* Whatever the answers are, the lookup of the session ends, and so does   *)
(* every call of the client: a request is sent again at most once, after   *)
(* one refresh, and what goes wrong is caught (refreshSession, apiRequest, *)
(* logout).                                                                *)
CallsEnd ==
  /\ (part \in Clients /\ loading[t1]) ~> (part \in Clients /\ ~loading[t1])
  /\ \A c \in {c1, c2} : (part = "client" /\ Client!Busy(c)) ~> (part = "client" /\ ~Client!Busy(c))
  /\ (part = "renewal" /\ Renewal!Busy(c1)) ~> (part = "renewal" /\ ~Renewal!Busy(c1))

(* What a reader waits for ends, also if what it depends on fails: the     *)
(* page of a verification does not say for ever that it is verifying, a    *)
(* check that was begun by hand gives its button back, and a bulk action   *)
(* reaches its message (effect of VerifyEmailPage,                         *)
(* checkMutation.isPending, catch within the loop of runBulkAction).       *)
WaitingEnds ==
  /\ (part = "account pages" /\ page.message = "loading")
       ~> (part = "account pages" /\ page.message # "loading")
  /\ (part = "dashboard" /\ Dashboard!Checking # {})
       ~> (part = "dashboard" /\ Dashboard!Checking = {})
  /\ (part = "bulk" /\ run[c1].at = "running") ~> (part = "bulk" /\ run[c1].at = "idle")
=============================================================================
