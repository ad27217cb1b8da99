# A formal model of Certwarden

Certwarden watches the TLS certificates of the domains of many tenants: a Go
server (`src/apps/api`) checks them on a schedule, records the results, sends
alerts and serves a JSON API and public status pages; a React client
(`src/apps/web`) uses that API.  This directory holds TLA+ modules translated
from the code, the TLC runs that check them and proofs that TLAPS checks.

## 1. Inventory

| Component (source) | State | Operations | Interacts with |
|---|---|---|---|
| Scheduler (`internal/scheduler`) | `domains` rows (`status`, `next_check_at`, `last_checked_at`), job channel, waiting goroutines, run context | dispatch, claim, hand-over, `processDomain`, `CheckDomainNow`, `Start`, `Stop` | checker, notifier, database; the manual-check handler runs `processDomain` beside the workers |
| Checker (`internal/sslcheck`) | none | resolve, dial, handshake | the outside |
| Notifier (`internal/notify`) | policies, endpoints, `notification_deliveries` | `MaybeNotify`, `deliverEvent`, `UpsertPolicy`, `TestEndpoint`, `MaskConfig` | called at the end of every check; mailer, webhooks |
| Authentication (`internal/auth`) | users, tenants' names and slugs, `auth_sessions`, one-time tokens | register, login, refresh, logout, verify, forgot, reset, profile | handlers, administration |
| HTTP handlers (`internal/httpapi`) | none of their own; rows of a tenant | CRUD of domains, policies, endpoints; tenant administration; public page; middleware | all of the above, concurrently, one goroutine per request |
| Database set-up (`internal/database`) | schema, settings, first administrator | migrations, `EnsureBootstrap`, settings | start of the process |
| Process (`internal/app`, `cmd/server`) | run context | start, signal, stop | scheduler, HTTP server |
| Web session (`web/src/lib/api.ts`, `auth.tsx`, `app.tsx`, `main.tsx`) | access token, user, location, one cache of queries; the cookie is shared by all tabs | request with retry after 401, refresh, login, logout, profile, guards of the routes | authentication handlers, every page |
| Pages (`web/src/pages`, `web/src/components`) | forms, selections, dialogs, notices; queries and mutations under way | fill, type, submit, delete, check, turn pages, bulk actions | resource and administration handlers |
| Translations (`web/src/lib/i18n.tsx`, `api-error.ts`) | language of a tab, language in the storage of the browser | detect, choose, look up, interpolate, tell an error | every page, the messages of the server |
| Configuration, mailer, deployment | | | |

What is hard in this code:

* **Overlap.**  The claim of a domain is a compare-and-set on its row, but the
  check itself is not exclusive: a queue longer than the interval, or a manual
  check, makes two processes check the same domain at once, each with its own
  old copy of the row.
* **Statements without transactions.**  Only the result of a check, a
  registration, a profile and the end of a refresh are written in a
  transaction.  The claim, the alerts, bootstrap, the deletion of a tenant and
  most handlers are series of statements with anything in between, on tables
  without foreign keys.
* **Names without an index.**  User names and e-mails are unique only because
  they are looked up before they are written.
* **One context for everything.**  Shutdown, or a client that leaves, cancels
  the dial, the transaction that records it, and the update that records the
  outcome of an alert.
* **Bounded channel, select with default.**  A full channel must neither lose a
  claimed domain nor block the shutdown.
* **Memory and database.**  A claim lives in both; a crash loses one half.
* **Late answers.**  In the client every request may be answered after the
  reader has moved on: another page, another dialog, another user, another tab,
  another language.  What an answer does is decided by the state at its arrival.
* **Forms over queries.**  An effect fills a form whenever what it was given
  changes, and the form sends all of its fields, the untouched ones included.
* **Masks.**  A secret is shown masked and comes back masked; the server has to
  tell what was left alone from what was typed.

`PROJECT.json` lists the hazards at their lines, each with the properties that
cover it or a note why none does.

## 2. Modules

| Module | Models | Kind |
|---|---|---|
| `Scheduler` | loop, channel, waiting goroutines, workers, manual requests, edits of rows, shutdown, crash | detailed specification |
| `SchedulerOrder` | `Scheduler` with a history variable that counts overtaking | extension |
| `Alerting` | `computeEvents`, `computeThresholdCrossings`, `normalizeThresholds` | operators |
| `AlertingHistory` | what the crossings of successive checks add up to | operators over a series of inputs |
| `CheckNotify` | overlapping checks of one domain from the first read to the recorded outcome of every alert | detailed specification |
| `AtMostOnceDelivery` | what the notifier promises of one alert | abstract specification |
| `Sessions` | logins, refreshes, and what revokes the sessions of a user | detailed specification |
| `Accounts` | registrations, profiles, deletions, transaction by transaction | detailed specification |
| `TenantData` | domains, policies, history and deliveries of tenants, and their deletion | detailed specification |
| `Bootstrap` | the start of the process, cut anywhere, and what accounts do between two starts | detailed specification |
| `WebClient` | session of the client in several tabs, over one cookie | detailed specification |
| `Router` | guards of the routes, links, redirections | detailed specification |
| `QueryCache` | one cache of queries for one user after another | detailed specification |
| `AccountPages` | login, registration, forgotten password, reset, verification | detailed specification |
| `Texts` | languages of the tabs, and in which words a refusal is told | detailed specification |
| `PublicStatus` | the title of a public page | operators |
| `SettingsPage` | the settings form, its two sources and its preview | detailed specification |
| `DomainForm`, `EndpointForm` | fields, validation, what is sent, what the server makes of it | detailed specifications |
| `DashboardPage`, `EndpointEditor` | the lists beside those forms, with mutations and fetches that cross | detailed specifications |
| `PolicyEditor` | the two policy forms over one query | detailed specification |
| `StatusPages` | public page and dashboard: summary, panels, tiles | detailed specification |
| `TenantList`, `Paging` | the list of tenants a page at a time; the arithmetic of its pages | detailed specification, operators |
| `TenantDialogs`, `BulkActions` | the dialogs and the bulk actions of the administration page | detailed specifications |
| `SchedulerProofs`, `CheckNotifyProofs`, `SessionsProofs`, `AccountsProofs` | theorems about the module named | proofs |
| `ChecksProofs`, `ServerDataProofs`, `WebProofs`, `PagesProofs` | theorems about `MCChecks`, `MCServerData`, `MCAccountWeb`, `MCPages` and what they are made of | proofs |
| `MCScheduler`, `MCCheckNotify`, `MCSessions` | values of the constants | for TLC |
| `MCChecks`, `MCServerData`, `MCAccountWeb`, `MCPages`, `MCWebLive` | several modules, each on instances of its own | for TLC |

**How they fit together.**  `Scheduler` and `CheckNotify` are two views of
`processDomain`: `Scheduler` has every process and every domain and ends a
check with one step `Report`; `CheckNotify` has one domain, starts its checks
at any moment (so it allows every overlap the scheduler can produce) and takes
`Report` apart.  `TenantData` has checks too, but only what they write about a
tenant that may be gone.  Client and server are split in the same way: a module
of the client makes what the server does with one request a single step
(`Serve`), and the statements that step consists of are the business of a
module of the server, which allows them to interleave: `Sessions` for
`WebClient`, `Accounts` and `Sessions` for `AccountPages`, `TenantData` for the
pages.  Of the forms, `DomainForm` and `EndpointForm` know what the fields may
hold, and `DashboardPage` and `EndpointEditor` know when which row fills them.

**Parts.**  The last five modules put several specifications beside each
other.  A variable `part` says whose behaviour this is; it never changes, the
variables of the other parts are `Unused`, and a property is a conjunction of
`part = "..." => ...` over the parts it is about.  So one state graph holds
those of all parts, none of them multiplied with another, and one property can
be stated for all the pages it makes sense for.  In `MCAccountWeb`, `MCPages` and
`MCServerData` a module is instantiated once, with its constants taken from a
record (`Client(b)` with `b.tabs`, `b.calls` and so on), so that the session of
one tab and that of two are `Client(OneTab)` and `Client(TwoTabs)`, the short
list of tenants and the long one `List(ShortList)` and `List(LongList)`, and a
theorem can speak of every `b`.

Everywhere: each database statement and each transaction is one step and
everything between two of them interleaves (the default database is SQLite,
which serialises statements); where transactions may overlap, in `Accounts` and
`TenantData`, their statements are steps, and what they write is seen when they
commit.  In the client a step is what runs between two awaits.  `handler`, `request`, `call`, `run` hold the locals of a handler or of
an asynchronous function, one entry per activation.  Variables marked
*history* are read by no action; properties use them to say what happened
before.  `Max...` constants bound counters, each in the guard of its own action.

### Scheduler

`row`, `interval`, `status`, `nextCheckAt`, `lastCheckedAt` are
columns of `domains`, `suspended` the tenants whose column `disabled` is set.
`loopPc`, `loopNow`, `batch`, `readInterval` are the locals of
`dispatchDueDomains`; `jobs` is the channel, `blocked` counts the goroutines
that wait to send.  `pc`, `dom`, `outcome`, `checkedAt`, `nextAt`, `period` are
the locals of `processDomain`, one entry per worker and per manual request.
`owed` is history: claimed and not yet taken.

Abstractions: healthy and error are one outcome "settled", since the scheduler
treats them alike; "aborted" marks the error of a check whose own context was
cancelled.  Time is a counter; it never goes back.  `QueueFactor` and
`BatchFactor` stand for the 2 and the 4 of the code, so that the theorems hold
for any sizes and TLC can use small ones.  The result rows of
`domain_check_results` are only appended and are left to `TenantData`.

### Alerting and CheckNotify

A certificate is known by the day it expires on.  The policies, the endpoints,
the row and the delivery records are the database; `previous`, `result`,
`seen`, `policy`, `todo` are the locals of `processDomain`, `resolvePolicy` and
`MaybeNotify`.  An alert is a value of the dedup key: endpoint, event, expiry.
`arrived` counts the messages that reached an endpoint: a send that reports an
error may have arrived, one that reports success has.  `mixed` and `crossed`
are history: whether a check met another one's commit or an edit half-way, and
which alerts the recorded readings call for, said without looking at any check.

Abstractions: a paused domain or tenant makes a check return before it has an
effect, so such checks are left out here (they are in `Scheduler`).
`FirstOrCreate` of a policy is one step: when two race, the unique index makes
the second fail without effect.  Every handshake may fail.  The order in which
the database returns the endpoints is open.

### Sessions

`session` is the table `auth_sessions`, `password` the version of the user's
password hash, `tenant` the state of the tenant's row.  `pc` and `from` are the
locals of a `Login` or a `Refresh` in flight: each of its reads is a step, the
transaction at its end another.  A logout, a new password (`ResetPassword` with
a good token, `SetUserPassword`), a suspension and a deletion are one
transaction and one step each.  `origin`, `began`, `knew` and, in the rows,
`made` are history: the password entered at the head of the chain of refreshes,
the number of revocations when the request began and when the row was made, and
the rows there were when it began; `epoch` counts the revocations.

Abstractions: one user of one tenant; tokens are the ids of their sessions; a
session that has expired is not told from one that is revoked besides.  The
tenant of a super administrator is not looked at by the code; this user is left
out.  The access token, which nothing can revoke, is in `WebClient`.

### Accounts

`user` holds the accounts with their tenants' slugs, `request` the locals of a
`Register` or an `UpdateProfile` inside its transaction, with the commit it
began to read at; `named` is history, the commits between which an account got
its name.  What a lookup is
worth depends on the database, and `SQLite` is a constant: there a transaction
that has read before another one committed may not write.  `Capital` maps a
name in capitals to the same in small letters.  A slug is a base and a number,
tried in order up to `MaxSlugs` (999 in the code); it alone has an index.

Abstractions: a password and its length rules are left out; the tenant and the
default policy made in the same transaction come and go with their user.

### TenantData

Rows are pairs of a tenant and a domain; ids are never given twice.  `handler`
holds a creation, an override, a deletion of a domain or a check in flight, and
also the deletion of a tenant, whose transaction reads the ids of its domains
in one step and writes and commits in another.  `dropped` and `crossed` are
history: domains deleted by themselves, and what was deleted while somebody was
at work on it. Content of the rows is left out: what matters is what they refer
to.

### Bootstrap

`at` is the statement the start is at; `Crash` is possible at each.  Names are
sequences: a base followed by the number `nextAvailableLegacyUsername` gives.
`Legacy` are the accounts of a release without user names.  `Config` is one
configuration, with a password, for all starts: without a password the
administrator is not looked for at all.  Statements that only create tables
and columns repeat without effect and are one step.

### WebClient, Router, QueryCache

A session and the access token issued with it have the same id.  A call of
`apiRequest` goes from `sent` through `refreshing` to `resent`; what it carries
(token, cookie) is fixed when it is sent, and the answer waits in `reply` until
the tab reads it.  A cookie is replaced when the browser reads the answer, for
all tabs at once.  `disturbed` is history: an answer came after the cookie its
request carried had been replaced, or never; so is `switched` in a call: since it
was made the cookie was that of another user, or became it.  `Router` lets the session change
in every way `WebClient` allows; `hops` counts redirections in a row.
`QueryCache` has the rules of the query library as far as the pages depend on
them: an entry outlives its page, is shown while it is fetched again, and a
second fetch of a key joins the one under way.

### AccountPages, SettingsPage, Texts, PublicStatus

A call of `AccountPages` has an `ear`: its page, the tab (the page was left) or
none (the application was loaded anew); that decides which callbacks still run.
`link` holds the one-time links; verification links are no longer sent, those
of an earlier release are there from the start.  `SettingsPage` has the two
sources of its form apart; the user name stands for the e-mail too, the title
for the subtitle.  In `Texts` a text is a record of its language and of what it
says; a language tag is its first two letters, whether its first part goes on,
its other parts, and whether it holds capitals.  What the server refuses with is
listed by the status it comes with: `Refusals` the client has an entry for,
`Unnamed` it has not, and `Unanswered` for a request that failed.

### The pages

`stored`, `rows`, `policy`, `exists` are the server's; `cached`, `list`,
`shown`, `cache`, `detail` what the queries have; `fetch` and `reading` the
queries under way, `call` and `run` the mutations.  A mutation ends with its
`onSuccess`, which may wait for the queries it invalidates.  Two facts of the
query library matter and are modelled: the callbacks of a mutation are those of
the last rendering until a second mutation of its kind begins, after which the
first keeps those it had; and an invalidation during the first fetch of a query
joins that fetch.  Values are few: hosts, names and texts are members of small
sets; intervals are numbers, as `DomainForm` splits and joins them; thresholds
are sets of numbers; a header is a name and a value that may be masked.
`TenantList` lets tenants stand for their names in alphabetical order.

## 3. Runs

| Run | Question | Instance | Properties |
|---|---|---|---|
| `scheduler_checks` | does it matter who writes `next_check_at` last? | one domain, a worker and a manual request, intervals 1 and 2, three clock values, one edit | `NotDueBeforeInterval`, `NeverParked`, `AbortedNeverRecorded` |
| `scheduler_live` | can a claimed domain be lost, is a due one checked, does shutdown end? | two domains, one worker, one slot, one fault, with fairness | `TypeOK`, `NoLostClaim`, `DueIsChecked`, `ShutdownDrains` |
| `checks` | does a backlog starve a domain? which alerts can overlapping checks lose? does one endpoint's failure keep others from their alert? is each threshold announced once? | order: two domains, batch of one; overlap: two checks, two days, a short and a long certificate; endpoints: one check, two endpoints; history: all lists of up to three thresholds from -1 to 3, readings from -2 to 4 | `BoundedOvertaking`, `EveryAlertIsTried`, `OnlyPassingsAnnounced` |
| `notify_edits` | is the policy in force served? | one check, one edit, one renewal, two threshold lists | `NoAlertLost` |
| `notify_faults` | what do crashes do to deliveries? | two checks, one fault anywhere | `TypeOK`, `AtMostOnce`, `NoPendingLeftBehind`, `ImplementsAtMostOnce` |
| `sessions` | which sessions can outlive a revocation, or share a predecessor? | two requests in flight, three sessions, two revocations | `TypeOK`, `OldPasswordOnlyByOverlap`, `OnlyOverlapsSurvive`, `ReplacedTwiceOnlyByOverlap` |
| `sessions_password` | does a new password end all sessions? It does not | two requests, two sessions, one revocation | `PasswordChangeEndsSessions`, violated |
| `server_data` | who can share a name, what outlives a tenant, what does a start leave? | accounts: two requests in flight, two accounts, on either kind of database; tenants: two tenants, three handlers, two domains; starts: with an e-mail, without, and over four legacy accounts | `TypeOK`, `DataTypeOK`, `SameOnlyByOverlap`, `NamesHaveOneOwner`, `OnlyHistoryIsLeft`, `OverridesHaveDomains`, `StartsRepair` |
| `web_account` | do browser and server agree on who is signed in, and is the reader shown and told what is so? | one tab with two calls and a lost answer, two tabs with two users, two users of one cache, two accounts on the public pages, two tabs of other languages, two saves of the settings | `TypeOK`, `SessionIsTheUsers`, `ShownIsTheUsers`, `ReaderIsToldWhatIs`, `OnlyCrossingsMislead`, `OnlyTheAskedIsChanged` |
| `web_pages` | do forms save what they show, and do pages settle on what the server has? | two rows, two requests of a kind in flight, two or three acts; three tenants two to a page, seven one to a page | `TypeOK`, `FormsSaveWhatTheyShow`, `QuietIsCurrent`, `HeldForItsOwn`, `OnlyTheConfirmedIsDone`, `StatusAddsUp` |
| `web_live` | does the client ever wait for ever? | as above, with lost requests, a session renewed twice, under fairness | `CallsEnd`, `WaitingEnds` |
| `tenant_summary` | are the rows those the summary counts? They are not | as `web_pages` | `SummaryCountsTheRows`, violated |

The properties of the runs with parts are conjunctions, and each conjunct has a
name and a comment of its own in the module it is about: for instance
`QuietIsCurrent` is `QuietPageIsCurrent` of `DashboardPage`,
`QuietPolicyIsTheLastSaved` of `PolicyEditor`, and so on.

What they show, beyond that the properties hold:

* A result may be recorded after a later claim and put `next_check_at` back
  (`ClaimUndone` in `SchedulerOrder`); the domain is then checked once more,
  but never sooner than an interval after its recorded check started.
* A shorter interval set by an update counts from the next claim or result on;
  `next_check_at` is not moved by the update.
* An alert can be lost: when another check commits between a check's first
  read and its reload (for instance an error recorded between commit and
  reload hides the crossing, and the next check already starts from the new
  days), and when a fault hits a check after its commit.  `NoAlertLost` says
  that nothing else loses one.
* A record that stays pending suppresses its alert for ever: the key exists,
  whatever its status.  At most once is what the code promises, not at least
  once; nor is a failed delivery tried again.
* The event `expired` is never announced.  `app.go` builds the checker with
  the default verification, so the handshake with an expired certificate is an
  error, and errors are not announced (`ExpiryNeverAnnounced`).
* A new password does not always end the sessions of the old one, as the
  administration page says ("revokes existing sessions"): a login or a refresh
  that has passed its reads when the password changes creates its session
  afterwards, and that session can be refreshed for good
  (`PasswordChangeEndsSessions`, and the finding in `PROJECT.json`).
  `OldPasswordOnlyByOverlap` says that there is no other way.
* In the same way a suspended tenant can keep a live session, and one session
  can become two, but only by requests that overlap.  While the tenant is
  suspended no refresh goes past the tenant check, so such a session leads
  nowhere; when the tenant is enabled again it is good again.
* User names and e-mails are unique on SQLite only (`service.go:130`): on MySQL
  and PostgreSQL two overlapping transactions can give one name to two accounts,
  and the second has no way in (`SameOnlyByOverlap` says that there is no other
  way).  Slugs have an index; of two that collide one request ends in an error.
* A deleted tenant leaves the history of domains that were deleted before it
  (`handlers_admin.go:443` looks for results by the domains that are left),
  although the question to the administrator says that the deletion removes the
  "monitoring history" (`i18n.tsx:296`).  Requests that cross the deletion may
  leave more.
* A start that is cut is repaired by the next one, but for the default policy of
  the administrator's tenant.  When the administrator has changed his name, the
  next start makes a second administrator (`database.go:84`), or fails for good
  if somebody else has taken the name.  The configured contact e-mail is written
  again at every start (`database.go:91`), also if another account has it.
* Of two refreshes with one cookie the slower is refused, and its tab then
  shows nobody signed in while the browser holds a live session; the next load
  of the page mends it.  An answer that comes after a logout can bring the user
  back. `SessionIsTheUsers` and `OnlyCrossingsMislead` say that only such
  crossings do.
* The cache of queries outlives the user (`main.tsx:10`): under a key that does
  not name the tenant the next user of the tab first sees the last one's data,
  until the fetch that is always begun is answered, and longer if it fails.
* A verification is sent again when the language changes
  (`verify-email-page.tsx:29`), and is then refused, as the link has been used:
  the page says so over the success.  On the page of a forgotten password the
  success of one request and the error of another stand together
  (`forgot-password-page.tsx:30`).
* The second page of the tenant list is answered with the rows of the first
  (`handlers_admin.go:498` reads the page number with the maximum 1): a tenant
  after the first page cannot be reached by paging (`SummaryCountsTheRows`, and
  the finding in `PROJECT.json`).
* The page number is corrected by an effect, so that for a moment "next" leads
  to where the reader is (`admin-page.tsx:176`); and a message in a dialog may
  be about the tenant of the dialog before (`admin-page.tsx:247`).
* A policy without thresholds becomes one with the threshold 0 when it is saved
  untouched, since the empty text is the number 0; and a form of a policy is
  filled anew under the hands of the reader when its query is answered
  (`policy-form.tsx:39`).
* The notice of the notifications page is chosen by the state at the end of the
  save (`notifications-page.tsx:66`), so that it can say "updated" of a
  creation; a refused creation of an endpoint empties the form.
* A new domain that was chosen to be disabled is stored as enabled: its column
  has a default, and a false value is not inserted (`handlers_resources.go:328`,
  `models.go:105`).  `SentIsStored` excepts it.
* A new host name keeps the badge and the certificate of the old one until it is
  checked (`handlers_resources.go:337`).  The tile "Pending" of the public page
  counts the domains in error as well (`tenant-status-page.tsx:97`).
* A name with `$` is not put into a text as it is: `replaceAll` reads `$$` and
  `$&` as patterns (`i18n.tsx:3336`).

**Bounds.**  `MaxNow`, `MaxDay` stop the clock; `MaxFaults`, `MaxEdits`,
`MaxRenewals` count events.  Three clock values are enough for a claim, a due
result and a late result of one domain; two domains fill the slot and a waiting
goroutine while the worker is busy.  Two checks are what a race needs, two days
what a crossing and an expiry need (a certificate that expires in eight days
passes the threshold 7, one that expires today runs out).  In `notify_faults`
the day stands still: the first reading and the end of an outage already give a
check two alerts, and what is asked there does not depend on the day.  In the
part "order" a batch of one with two domains is the smallest backlog that
exceeds the batch.  In `sessions`, a login and two refreshes of its session need
three rows, two of them in flight at once; two revocations let a suspension
follow a new password.  In `server_data` two requests overlap on two spellings
of one name, and two tenant names of which one is the other's second candidate
collide; two domains and three handlers put a check, a request and a deletion
about one domain beside another; four starts are a start, a cut one, one after a
rename and its repetition.  The client has two requests of a kind in flight
where their order matters, and one more act than that.  Three tenants, two to a
page, are the least that have a second page; seven, one to a page, are more
pages than the five that are offered.  In `web_live` a session is renewed twice
so that a second renewal may meet what the first has left.

Symmetry: checks, requests and, where nothing tells them apart, domains and tabs
are permuted; runs with liveness use none.  `CHECK_DEADLOCK FALSE`: in
`notify_edits`, in both runs of sessions and in the runs with parts the bounded
events run out, or everything is deleted, and there is nothing left to do.

**Fairness** (`scheduler_live`).  Goroutines that can run do run (weak fairness
of the loop, the workers' steps and `Stop`), and the ticker keeps firing.  Go's
`select` chooses at random among ready cases, so an exit that is ready again
and again is taken (strong fairness of `LoopExit` and `WorkerExit`, also when
the ticker or the channel is ready too); senders blocked on a channel are
queued first in, first out, so each gets its turn (strong fairness of
`EnqueuerSend`). Nothing is assumed of requests, edits, faults, the clock or
the cancel. `DueIsChecked` and `ShutdownDrains` excuse an interval in which a
fault occurs, as the code then gives up a batch or a check until the next tick.

**Fairness** (`web_live`).  Each request that is under way is answered or fails
(the server serves it, or the browser reports the failure), and what a tab has
to do with an answer is done: continuations of promises are run by the browser.
All of it is weak fairness, for one request at a time, so that the answers may
still come in any order.  Nothing is assumed of the reader, who may leave, type
and click or not, nor of lost requests, expiring tokens or the other tab.

## 4. Proofs

Each theorem is about every value of the constants its module's assumption
allows; TLC evaluates those assumptions on every run.  The runs that put several
specifications beside each other have their values fixed in the module; there a
theorem about the run follows from a theorem about each part for any values.

`SchedulerProofs`, for any sets of domains, workers and requests, any sizes of
channel and batch and any bounds, from `SchedulerAssumption`:

* `TypeCorrect` (`TypeOK`, with the capacity of the channel).  `TypeOK` is a
  conjunction of parts for rows, loop, queue and processes; an action is shown
  to keep the parts it touches, frame lemmas keep the others.
* `ClaimsAreKept` (`NoLostClaim`), inductive given the types: the claim puts
  the domain in the loop's hand, each hand-over step passes it on, only a
  worker takes it.
* `ChecksKeepTheirDistance` (`NotDueBeforeInterval`) and
  `ALostClaimCostsOneInterval` (`NeverParked`).  Neither is inductive: they
  need to know what the times carried by the loop and by the checks in flight
  were read from.  `CarriedTimes` says so, and both follow from it.
* `AbortedChecksLeaveNoTrace` (`AbortedNeverRecorded`), with the strengthening
  that a process that carries an aborted outcome has a cancelled context.
* `OvertakingIsBounded` (`BoundedOvertaking` of `SchedulerOrder`).  `OrderInv`
  says what a claim of another domain leaves behind: that domain is due later
  than the one that waits (`Passed`), or it was claimed by a loop that had read
  its clock too early to know, which happens once (`Late`).

`CheckNotifyProofs`, for any number of checks, endpoints and certificates, from
`CheckNotifyAssumption`:

* `AlertsArriveAtMostOnce` (`AtMostOnce`).  The inductive invariant
  `DeliveryInv` is about ownership: between the insertion of its record and the
  outcome an alert is pending and belongs to one check, it has not arrived
  before that check sends, and what has no record has not arrived.  The unique
  key makes a new owner the only one.  The proof does not use which alerts a
  check computes, so it needs no facts about `Alerting`.
* `PendingIsHeldOrBroken` (`NoPendingLeftBehind`), from `DeliveryInv` and the
  fact that a cancelled context is a counted fault.
* `ChecksImplementAtMostOnce` (`ImplementsAtMostOnce`): `CheckNotify` implements
  `AtMostOnceDelivery`; each step is a claim, an arrival, a settlement or a
  stutter of the abstract specification.
* `TypeCorrect` (`TypeOK`), with lemmas about what sorting and filtering a list
  of thresholds returns; these are stated by the set of its elements and need
  no induction.
* `NoExpiryIsAnnounced` (`ExpiryNeverAnnounced`): a healthy reading has a
  certificate that is still valid (`SoundInv`), in the row and in the hands of
  every check, and so no plan holds the event of an expired one.
* `NoAlertIsLost` (`NoAlertLost`).  `LossInv` follows an alert from the commit
  that calls for it to its record: as long as nothing named in the property has
  happened, the row is what its next writer has read, and an alert without a
  record is owed by some check that will reload the row, compute the event or
  try it (`Owes`).

`ChecksProofs`: for the readings of one certificate, `HistoryCountsOnce`
(`EachThresholdOnce`; a reading adds one for each threshold it passes, and those
passed before are above it), and for the run `checks` `NobodyStarves`
(`BoundedOvertaking`), `EveryAlertTried` (`EveryAlertIsTried`) and
`PassingsAnnounced` (`OnlyPassingsAnnounced`), each from the theorems of the part.

`SessionsProofs`, for any number of requests in flight, from
`SessionsAssumption`: `TypeCorrect`, `OldPasswordsOnlyByOverlap`,
`SuspendedOnlyOverlaps` and `RotationForksOnlyByOverlap`.  None of the last
three is inductive, as a session is made from what a request read earlier.
`SessionsInv` adds what a request in flight carries: one that has passed the
tenant check of a tenant no longer active has begun in an earlier epoch; one
with an old password overlaps a revocation or continues a chain that did; the
session it will replace has been replaced, if at all, since it began.

`AccountsProofs`, for any names, spellings, tenant names and requests, from
`AccountsAssumption`:

* `AccountsTypes` (`TypeOK`, with the bound on candidates for a slug).
* `SameByOverlap` (`SameOnlyByOverlap`).  `AccountsInv` adds what a transaction
  has seen: whoever has a name or an e-mail it has looked for and not found has
  got it since it began, and so overlapped it.
* `SQLiteNames`: on SQLite a name and an e-mail are one account's
  (`NamesAreUnique`).  `Apart` says that there no two accounts were named by
  overlapping transactions, since the second may not write; with
  `SameOnlyByOverlap` nothing is left.
* `UniqueSlugs`: no two tenants have one slug, on any database, by the index.
* `KeptNamesAreFree` (`KeepingIsNoConflict`): who keeps his name and his e-mail
  is told that they are taken only if another account has one of them too.

`ServerDataProofs`, of the data of tenants, for any tenants, domains and
handlers: `DataTypes` (`DataTypeOK`), `OnlyHistory` (`OnlyHistoryIsLeft`) and
`OverridesOfDomains` (`OverridesHaveDomains`).  All follow from `DataInv`, in
which the two properties are joined by what handlers in flight know: `AllBusy`
(each is about a domain of its tenant, which is there or was deleted across it),
`Owned` (rows are about domains of their tenant, and a tenant that is there has
all it has not dropped) and `Quiet` (nobody is at work on a tenant that is gone,
unless its deletion was crossed).

Of the start of the process, for any configuration and any accounts of an
earlier release, from `BootstrapAssumption`: `BootstrapTypes`; `BootstrapNames`
(one account to a name: among one more candidates than accounts one is free, by
counting, and the least such number is the one the migration takes);
`UpHasAdmin`, `OneAdminIsMade` and `PolicyIsMade` (`AdminInv`: until a rename all
administrators have the configured name, and a policy is missing only where a
start was cut); and `StartsSucceed`, where there were no accounts before.

For the run `server_data`, `NamesAreOwned` (`NamesHaveOneOwner`) and
`StartsAreRepaired` (`StartsRepair`) follow from the theorems about accounts and
starts.

`WebProofs`, for any values of the constants of the parts:

* `BrowserAndServerAgree` and `OnlyLateAnswersMislead`, from `ClientInv`: every
  cookie, token and call knows of sessions that have been issued; an answer is
  one its call's stage can have; a query that no other user's cookie has
  overtaken carries its user's session; and unless an answer has crossed, a live
  session in the browser is some tab's.  Sessions never change their owner
  (`Later`), which is what lets a call's knowledge survive what others do.
* `GuardsSettle`, from `RoutesInv`: where a redirection has led there is none,
  and who is not where they asked to be may not be there.
* `CachedDataIsOwn`, from `CacheInv`: under a key that names a tenant only that
  tenant's data is fetched and kept, and of what is mounted, foreign data has a
  fetch, or a reason it has none.
* `PagesTellAndDoWhatIsAsked`, from `AccountInv`: what a request must carry to
  be sent, who still listens to it, what a registration that was carried out
  comes to, and what has to have happened for a request to be refused (its link
  tried before, or expired, or the answer lost).  Links are only ever used up and
  attempts only grow (`Grown`), so what holds of a request keeps holding.
* `TextsAreTheReaders`, from `SpeechInv`: each message is said in the language of
  its page as of its last choice, and `ReasonsAreNamed` says what the codes come
  to, text by text.
* `SettingsSaveWhatTheyShow`, from `SettingsInv`: an untyped form shows what is
  known, and a save under way remembers what was read.
* For the run `web_account`: `WebTyped` (`TypeOK`), `SessionsAreTheUsers`
  (`SessionIsTheUsers`), `TabsAreMisledByCrossings` (`OnlyCrossingsMislead`),
  `PagesAreTheUsers` (`ShownIsTheUsers`), `ReadersAreTold` (`ReaderIsToldWhatIs`)
  and `FormsDoWhatIsAsked` (`OnlyTheAskedIsChanged`), from `WebInv`, which has the
  invariant of the part there is.

`PagesProofs`, for any values of the constants of the pages: each page has an
inductive invariant, and what is checked of it follows for every `b` its
assumption allows.  Most of what a quiet page shows is not inductive, as it is
about the moment when nothing is under way; its invariant says what each request
and each fetch on the way will come to.

* `DomainsAreStoredAsShown`, from `HostInv`: until a field is changed the form
  holds the domain it was filled from, or what a creation has emptied it to.
* `EndpointsAreStoredAsShown`, from `TargetInv`: what was not changed by hand is
  what is stored, and what is stored has values under the keys of its type only,
  all that the type requires, and no value of a header without its name.
* `PoliciesAreTheLastSaved`, from `RuleInv`: a form nobody has changed holds the
  policy it is of, as the page has read it; where no two saves have met, the
  policy is the one saved last or the one save under way brings it there; and the
  page has it or will read it.
* `DashboardIsCurrent`, from `BoardInv`: unless something has failed, each query
  that no invalidation has joined holds the rows of the server or is about to.
* `EndpointFormIsOfItsEndpoint`, from `AlarmInv`: a deletion of the endpoint that
  is edited sees the form of the moment and closes it, unless the edition began
  after the deletion, or the deletion is asked for twice (`blind`).
* `TilesCountThePanels`, from `StatusInv`: the columns a check writes fit each
  other on the server as in every answer, and two answers of the same age have
  the same rows.  That the tiles add up is then counting: the panels fall into
  those of each badge, and sets of rows into those of each state.
* `ListFitsItsQuery`, from `ListInv`: a key that nothing has changed since its
  tenants were counted has the count and the answer that came of it, and the page
  that is set is never beyond the last one of its own answer.
* `DialogIsOfItsTenant`, from `DialogInv`: a typed password is of the tenant
  whose dialog is open, or a deletion has swept that dialog away; a deletion that
  was carried out has its answer under way until the tenant has left the
  selection; and what the page knows of a tenant is so, or it is being read, or
  the end of a change will have it read again.
* `BulkTouchesTheConfirmed`, from `BulkInv`: a run goes through what was ticked
  at its click, each once; what it has touched has had its turn, and counting its
  failures loses none.
* For the run `web_pages`: `PagesTyped` (`TypeOK`), `FormsSave`
  (`FormsSaveWhatTheyShow`), `RestingPagesAreCurrent` (`QuietIsCurrent`),
  `StateIsOfItsSubject` (`HeldForItsOwn`), `BulkDoesWhatWasConfirmed`
  (`OnlyTheConfirmedIsDone`) and `CountsFitTheLists` (`StatusAddsUp`), from
  `PagesInv`, which has the invariant of the part there is.
* Of module `Paging`, for every number of pages and tenants:
  `VisiblePagesAreTheNearest` (the numbers offered are at most five, the current
  page and its neighbours among them, none skipped, none nearer left out) and
  `OnlyTheFirstPageIsServed` (whatever page is asked for, the server serves the
  first).

The proofs rest on no order of the elements of a set but one: a list of tenants
is in the order of its query, which is strict, and `RankedOnce` shows that
counting the elements below each gives every rank to exactly one.

**Only model-checked.**  `DueIsChecked`, `ShutdownDrains`, `CallsEnd` and
`WaitingEnds`, since liveness under fairness is out of the prover's reach, as
ENABLED is; and the two violated properties, which are refuted by a behaviour
and not by a proof.  Every invariant and every action property of the passing
runs has a theorem.
No module of the project has a RECURSIVE operator: what the provers cannot do by
induction over a sequence is stated by the set of its elements instead.

## 5. Not modelled

* **Configuration** (`internal/config`): reads environment variables once; its
  values are the CONSTANTS.  Flags and log files of `cmd/server` and `crashlog`.
* **Mailer, webhooks, dialing** (`internal/mailer`, senders of `notify`,
  `sslcheck`): pure I/O; its outcomes are nondeterministic.  The wording of
  messages is left out, and `TestEndpoint`, which records nothing.
* **Hashing, signature and claims of tokens, length rules of passwords.**
  A token is the id of what it names; whether it has expired is a state.
* **Routing, JSON, CORS, cookies' syntax.**  What a handler accepts is modelled
  where a form meets it (`DomainForm`, `EndpointForm`).
* **Reading the history of a domain** and the parsing of times that drivers
  return in different forms: they change no state.
* **Rendering, style, charts, formats of dates and the tables of wording.**
  Which text is chosen is in `Texts`; what it says is data.  The subtitle of the
  public page takes the same way as its title.
* **Deployment**: build and packaging.
