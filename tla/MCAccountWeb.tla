---------------------------- MODULE MCAccountWeb ----------------------------
(***************************************************************************)
(* The parts of the web client that know of the account, of which a        *)
(* behaviour is one: the session of one tab and of two, the guards of the  *)
(* routes, the cache of the queries, the pages before signing in with one  *)
(* account and with two, the texts, and the settings.                      *)
(***************************************************************************)
EXTENDS Integers, Sequences, TLC

CONSTANTS c1, c2, c3, t1, t2, t3, u1, u2, Nobody

VARIABLES
  part,   \* the part whose behaviour this is
  owner, live, aged, cookie, token, clientUser, clientLoading, clientCall,
  disturbed, clientFaults,
  path, routeUser, routeLoading, underway, hops, asked,
  cacheUser, cachePage, cached, fetching, failed, joined,
  password, link, signed, pagesPage, pagesCall, attempts, sent, moves,
  languages, pagesFaults,
  textsStored, spoken, tab, textsCall, choice, textsLoading, opened, choices,
  calls,
  settingsStored, settingsUser, data, fetch, form, typed, settingsCall,
  message, saves, fails

clientVars == <<owner, live, aged, cookie, token, clientUser, clientLoading,
                clientCall, disturbed, clientFaults>>
routeVars == <<path, routeUser, routeLoading, underway, hops, asked>>
cacheVars == <<cacheUser, cachePage, cached, fetching, failed, joined>>
pagesVars == <<password, link, signed, pagesPage, pagesCall, attempts, sent,
               moves, languages, pagesFaults>>
textsVars == <<textsStored, spoken, tab, textsCall, choice, textsLoading,
               opened, choices, calls>>
settingsVars == <<settingsStored, settingsUser, data, fetch, form, typed,
                  settingsCall, message, saves, fails>>
allVars == <<part, clientVars, routeVars, cacheVars, pagesVars, textsVars,
             settingsVars>>

Tag(stem, more, rest, capitals) == [stem |-> stem, more |-> more, rest |-> rest, capitals |-> capitals]
Languages == { <<>>, <<Tag("zh", FALSE, "hk", TRUE), Tag("en", FALSE, "", FALSE)>>,
               <<Tag("ko", TRUE, "", FALSE)>>, <<Tag("nl", FALSE, "", FALSE), Tag("fr", FALSE, "", FALSE)>> }
Symmetry == Permutations({c1, c2}) \cup Permutations({t1, t2})

OneTab  == [tabs |-> {t3}, calls |-> {c1, c2}, users |-> {u1}, sessions |-> 2, faults |-> 1]
TwoTabs == [tabs |-> {t1, t2}, calls |-> {c3}, users |-> {u1, u2}, sessions |-> 3, faults |-> 1]
Client(b) == INSTANCE WebClient WITH
  Tabs <- b.tabs, Calls <- b.calls, Users <- b.users,
  MaxSessions <- b.sessions, MaxFaults <- b.faults, user <- clientUser,
  loading <- clientLoading, call <- clientCall, faults <- clientFaults
Visitors == [users |-> {u1, u2}, admins |-> {u1}]
Routes(b) == INSTANCE Router WITH
  Users <- b.users, Admins <- b.admins, user <- routeUser, loading <- routeLoading

Reader == [users |-> {u1, u2}, pages |-> {"dashboard"}]
Cache(b) == INSTANCE QueryCache WITH
  Users <- b.users, Pages <- b.pages, user <- cacheUser, page <- cachePage

OneAccount  == [names |-> {"ann"}, passwords |-> {"p", "q"}, bound |-> {"ann"},
                resets |-> {"r1"}, verifications |-> {"v1"}, calls |-> {c1, c2},
                sent |-> 2, moves |-> 2, languages |-> 1, faults |-> 1]
TwoAccounts == [OneAccount EXCEPT !.names = {"ann", "bob"}, !.moves = 1, !.faults = 0]
Account(b) == INSTANCE AccountPages WITH
  Names <- b.names, Passwords <- b.passwords, Bound <- b.bound,
  ResetLinks <- b.resets, VerifyLinks <- b.verifications, Calls <- b.calls,
  MaxSent <- b.sent, MaxMoves <- b.moves, MaxLanguages <- b.languages,
  MaxFaults <- b.faults, page <- pagesPage, call <- pagesCall,
  faults <- pagesFaults

Readers == [tabs |-> {t1, t2}, offered |-> {"zh-TW", "ar"}, spoken |-> Languages,
            names |-> {<<"o", "p", "s">>}, opened |-> 3, choices |-> 2, calls |-> 1]
Speech(b) == INSTANCE Texts WITH
  Tabs <- b.tabs, Offered <- b.offered, Spoken <- b.spoken,
  EndpointNames <- b.names, MaxOpened <- b.opened, MaxChoices <- b.choices,
  MaxCalls <- b.calls, stored <- textsStored, call <- textsCall,
  loading <- textsLoading

Owner == [names |-> {"ann", "bob"}, first |-> "ann", words |-> {"a"},
          workspace |-> "w", calls |-> {c1, c2}, saves |-> 2, fails |-> 1]
Settings(b) == INSTANCE SettingsPage WITH
  Names <- b.names, FirstName <- b.first, Words <- b.words,
  Workspace <- b.workspace, Calls <- b.calls, MaxSaves <- b.saves,
  MaxFails <- b.fails, stored <- settingsStored, user <- settingsUser,
  call <- settingsCall

(* The values suit every part.                                             *)
ASSUME MCAccountWebValues ==
  /\ Client(OneTab)!WebClientAssumption
  /\ Client(TwoTabs)!WebClientAssumption
  /\ Routes(Visitors)!RouterAssumption
  /\ Cache(Reader)!QueryCacheAssumption
  /\ Account(OneAccount)!AccountPagesAssumption
  /\ Account(TwoAccounts)!AccountPagesAssumption
  /\ Speech(Readers)!TextsAssumption
  /\ Settings(Owner)!SettingsPageAssumption

(* The variables of a part that does not move.                             *)
Unused == 0
NoClient ==
  /\ owner = Unused /\ live = Unused /\ aged = Unused /\ cookie = Unused
  /\ token = Unused /\ clientUser = Unused /\ clientLoading = Unused
  /\ clientCall = Unused /\ disturbed = Unused /\ clientFaults = Unused
NoRoute ==
  /\ path = Unused /\ routeUser = Unused /\ routeLoading = Unused
  /\ underway = Unused /\ hops = Unused /\ asked = Unused
NoCache ==
  /\ cacheUser = Unused /\ cachePage = Unused /\ cached = Unused
  /\ fetching = Unused /\ failed = Unused /\ joined = Unused
NoPages ==
  /\ password = Unused /\ link = Unused /\ signed = Unused
  /\ pagesPage = Unused /\ pagesCall = Unused /\ attempts = Unused
  /\ sent = Unused /\ moves = Unused /\ languages = Unused
  /\ pagesFaults = Unused
NoTexts ==
  /\ textsStored = Unused /\ spoken = Unused /\ tab = Unused
  /\ textsCall = Unused /\ choice = Unused /\ textsLoading = Unused
  /\ opened = Unused /\ choices = Unused /\ calls = Unused
NoSettings ==
  /\ settingsStored = Unused /\ settingsUser = Unused /\ data = Unused
  /\ fetch = Unused /\ form = Unused /\ typed = Unused /\ settingsCall = Unused
  /\ message = Unused /\ saves = Unused /\ fails = Unused

Parts == {"client", "tabs", "router", "cache", "account",
          "accounts", "texts", "settings"}

Init ==
  /\ part \in Parts
  /\ CASE part = "client" -> Client(OneTab)!Init
       [] part = "tabs" -> Client(TwoTabs)!Init
       [] OTHER -> NoClient
  /\ IF part = "router" THEN Routes(Visitors)!Init ELSE NoRoute
  /\ IF part = "cache" THEN Cache(Reader)!Init ELSE NoCache
  /\ CASE part = "account" -> Account(OneAccount)!Init
       [] part = "accounts" -> Account(TwoAccounts)!Init
       [] OTHER -> NoPages
  /\ IF part = "texts" THEN Speech(Readers)!Init ELSE NoTexts
  /\ IF part = "settings" THEN Settings(Owner)!Init ELSE NoSettings

(* One part moves, the others are not there.                               *)
Next ==
  \/ /\ part = "client" /\ Client(OneTab)!Next
     /\ UNCHANGED <<part, routeVars, cacheVars, pagesVars, textsVars,
                  settingsVars>>
  \/ /\ part = "tabs" /\ Client(TwoTabs)!Next
     /\ UNCHANGED <<part, routeVars, cacheVars, pagesVars, textsVars,
                  settingsVars>>
  \/ /\ part = "router" /\ Routes(Visitors)!Next
     /\ UNCHANGED <<part, clientVars, cacheVars, pagesVars, textsVars,
                  settingsVars>>
  \/ /\ part = "cache" /\ Cache(Reader)!Next
     /\ UNCHANGED <<part, clientVars, routeVars, pagesVars, textsVars,
                  settingsVars>>
  \/ /\ part = "account" /\ Account(OneAccount)!Next
     /\ UNCHANGED <<part, clientVars, routeVars, cacheVars, textsVars,
                  settingsVars>>
  \/ /\ part = "accounts" /\ Account(TwoAccounts)!Next
     /\ UNCHANGED <<part, clientVars, routeVars, cacheVars, textsVars,
                  settingsVars>>
  \/ /\ part = "texts" /\ Speech(Readers)!Next
     /\ UNCHANGED <<part, clientVars, routeVars, cacheVars, pagesVars,
                  settingsVars>>
  \/ /\ part = "settings" /\ Settings(Owner)!Next
     /\ UNCHANGED <<part, clientVars, routeVars, cacheVars, pagesVars, textsVars>>

Spec == Init /\ [][Next]_allVars

-----------------------------------------------------------------------------
(* Types of the parts.                                                     *)
TypeOK ==
  /\ part = "client" => Client(OneTab)!TypeOK
  /\ part = "tabs" => Client(TwoTabs)!TypeOK
  /\ part = "router" => Routes(Visitors)!TypeOK
  /\ part = "cache" => Cache(Reader)!TypeOK
  /\ part = "account" => Account(OneAccount)!TypeOK
  /\ part = "accounts" => Account(TwoAccounts)!TypeOK
  /\ part = "texts" => Speech(Readers)!TypeOK
  /\ part = "settings" => Settings(Owner)!TypeOK

(* As long as no answer has crossed a change of the cookie and no answer   *)
(* was lost, browser and server agree: when nothing is in flight and every *)
(* tab says signed out, the browser holds no live session (logout,         *)
(* refreshSession). And a request is sent again on behalf of another user  *)
(* than the one who made it only if the browser had or got the cookie of   *)
(* another user, by way of whichever tab (apiRequest: the retry takes the  *)
(* token of the refresh).                                                  *)
SessionIsTheUsers ==
  /\ part = "client" => Client(OneTab)!SignedOutMeansNoSession
  /\ part = "tabs" => Client(TwoTabs)!SignedOutMeansNoSession /\ Client(TwoTabs)!RetriedForItsUser

(* A tab drops a user whose session the browser still holds only when it   *)
(* reads an answer to a cookie that has been replaced meanwhile, or an     *)
(* error of the network, never because an access token has expired         *)
(* (apiRequest refreshes first). And the user it shows is the owner of the *)
(* token it sends; only the answer of a save of the profile can part the   *)
(* two, when the token has been replaced or dropped since it was sent      *)
(* (updateProfile: setUser without looking at the token).                  *)
OnlyCrossingsMislead ==
  [][/\ part = "client" => Client(OneTab)!DropsOnlyByCrossing /\ Client(OneTab)!OnlyLateProfilesMislead
     /\ part = "tabs" => Client(TwoTabs)!DropsOnlyByCrossing /\ Client(TwoTabs)!OnlyLateProfilesMislead]_allVars

(* What a visitor is shown is what is open to them: from wherever, whoever *)
(* it is, a page is reached after at most one redirection, and who loads a *)
(* page that is open to them stays there while the session is looked up    *)
(* and after (the guards of app.tsx). And the data on it is the user's:    *)
(* always under a key that names the tenant; under one that does not, what *)
(* is another user's is about to be replaced, unless the fetch has failed  *)
(* or was begun by that other user and joined (queryKey of the pages, one  *)
(* QueryClient in main.tsx).                                               *)
ShownIsTheUsers ==
  /\ part = "router" => Routes(Visitors)!RedirectsSettle /\ Routes(Visitors)!LoadedPageKept
  /\ part = "cache" => Cache(Reader)!KeyedDataIsOwn /\ Cache(Reader)!ForeignDataIsRefetched

(* What the reader is told is what the server answered, in their language: *)
(* asked about any name at all, the page of a forgotten password says the  *)
(* same; a verification is refused only for a link that has been tried     *)
(* before or has expired, or by a lost request; a text is in the language  *)
(* of its page, the one picked last in any tab, and names the reason the   *)
(* server gave; and the preview of the title is the one the public page    *)
(* will have once it is saved.                                             *)
ReaderIsToldWhatIs ==
  /\ part = "account" => Account(OneAccount)!ForgotTellsNothing /\ Account(OneAccount)!FreshLinkVerifies
  /\ part = "accounts" => Account(TwoAccounts)!ForgotTellsNothing /\ Account(TwoAccounts)!FreshLinkVerifies
  /\ part = "texts" => /\ Speech(Readers)!ChoiceSurvives
                       /\ Speech(Readers)!TextsAreInThePagesLanguage
                       /\ Speech(Readers)!RefusalsAreNamed
  /\ part = "settings" => Settings(Owner)!PreviewIsWhatSavingGives

(* A form changes what its reader asked for and nothing else, though every *)
(* button may be pressed twice: who is taken to the login by a             *)
(* registration can sign in with what was typed; a password changes only   *)
(* by a link sent for it, at most once by each and never by one that has   *)
(* expired; and a save of the settings replaces a title its reader has not *)
(* typed only if the page had not read the title, or it was changed since. *)
OnlyTheAskedIsChanged ==
  [][/\ part = "account" => Account(OneAccount)!RegisteredCanSignIn /\ Account(OneAccount)!ResetNeedsALiveLink
     /\ part = "accounts" => /\ Account(TwoAccounts)!RegisteredCanSignIn
                                 /\ Account(TwoAccounts)!ResetNeedsALiveLink
     /\ part = "settings" => Settings(Owner)!UntypedTitleIsKept]_allVars
=============================================================================
