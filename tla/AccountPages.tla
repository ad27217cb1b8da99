---------------------------- MODULE AccountPages ----------------------------
(***************************************************************************)
(* The pages for who is not signed in: login, registration, the forgotten  *)
(* password, its reset and the verification of an e-mail.  Every request   *)
(* can be sent again before it is answered, and its answer may find its    *)
(* page left.  The statements a request consists of on the server are the  *)
(* business of modules Accounts and Sessions; here it is one step.         *)
(* Links of verification are no longer sent; those of an earlier release   *)
(* are there from the start, and so may be a link of a reset.              *)
(***************************************************************************)
EXTENDS Naturals

CONSTANTS
  Names, Passwords,
  Bound,        \* names with an e-mail bound to them
  ResetLinks, VerifyLinks,
  Calls,        \* requests that may be under way at one time
  MaxSent,      \* bound: requests
  MaxMoves,     \* bound: pages opened
  MaxLanguages, \* bound: changes of the language
  MaxFaults     \* bound: requests or answers lost

Links     == ResetLinks \cup VerifyLinks
NoAccount == "nobody"
NoLink    == "no link"
NotSet    == "not set"

AccountPagesAssumption ==
  /\ Bound \subseteq Names /\ ResetLinks \cap VerifyLinks = {}
  /\ NotSet \notin Passwords
  /\ {MaxSent, MaxMoves, MaxLanguages, MaxFaults} \subseteq Nat

Public    == {"login", "register", "forgot", "reset"}   \* routes inside PublicOnly
Pages     == Public \cup {"verify", "app"}

VARIABLES
  password,  \* server: [Names -> password, or NotSet if there is no account]
  link,      \* server: [Links -> whom it is for and what became of it]
  signed,    \* user of the session, or NoAccount
  page,      \* where the reader is, what is typed, what is told
  call,      \* [Calls -> the request under way]
  attempts,  \* history: [Links -> times the pages have tried it]
  sent, moves, languages, faults

counters == <<sent, moves, languages, faults>>
vars == <<password, link, signed, page, call, attempts, counters>>

Blank(p, l) == [at |-> p, link |-> l, name |-> "", password |-> "", message |-> "", error |-> FALSE]
Verifying(l) == [Blank("verify", l) EXCEPT !.message = "loading"]   \* status "loading"
Free == [kind |-> "none", name |-> "", password |-> "", link |-> NoLink, at |-> "idle", ear |-> "none"]

TypeOK ==
  /\ password \in [Names -> Passwords \cup {NotSet}]
  /\ link \in [Links -> [for : Names \cup {NoAccount}, state : {"unsent", "sent", "used", "expired"}]]
  /\ signed \in Names \cup {NoAccount}
  /\ page \in [at : Pages, link : Links \cup {NoLink}, name : Names \cup {""}, password : Passwords \cup {""},
               message : {"", "sent", "loading", "verified"}, error : BOOLEAN]
  /\ call \in [Calls -> [kind : {"none", "verify"} \cup Public, name : Names \cup {""},
                         password : Passwords \cup {""}, link : Links \cup {NoLink},
                         at : {"idle", "asked", "done", "refused"}, ear : {"none", "tab", "page"}]]
  /\ signed # NoAccount => page.at \notin Public
  /\ sent \in 0 .. MaxSent /\ moves \in 0 .. MaxMoves
  /\ languages \in 0 .. MaxLanguages /\ faults \in 0 .. MaxFaults

Init ==
  /\ password \in [Names -> Passwords \cup {NotSet}]
  /\ link \in [Links -> [for : Names \cup {NoAccount}, state : {"unsent", "sent"}]]
  /\ \A l \in Links :
       IF link[l].state = "unsent" THEN l \in ResetLinks /\ link[l].for = NoAccount
       ELSE link[l].for \in Names /\ password[link[l].for] # NotSet /\ (l \in ResetLinks => link[l].for \in Bound)
  /\ signed = NoAccount
  /\ page = Blank("login", NoLink)
  /\ call = [c \in Calls |-> Free]
  /\ attempts = [l \in Links |-> 0]
  /\ sent = 0 /\ moves = 0 /\ languages = 0 /\ faults = 0

-----------------------------------------------------------------------------
(* Where the reader is.                                                    *)

(* PublicOnly sends who is signed in to the application.                   *)
Route(p, l, user) == Blank(IF user # NoAccount /\ p \in Public THEN "app" ELSE p, l)

(* The page is another: its calls find it left.                            *)
Left == [c \in Calls |-> IF call[c].ear = "page" THEN [call[c] EXCEPT !.ear = "tab"] ELSE call[c]]

(* All of the application is loaded anew: nobody waits for its calls.      *)
Unheard == [c \in Calls |-> [call[c] EXCEPT !.ear = "none"]]

Linked(p) ==
  CASE p = "login" -> {"register", "forgot"}
    [] p = "register" -> {"login"}
    [] p = "forgot" -> {"login"}
    [] p = "reset" -> {"login"}
    [] p = "verify" -> {"register"}
    [] p = "app" -> {}

Follow(p) ==
  /\ moves < MaxMoves
  /\ moves' = moves + 1
  /\ p \in Linked(page.at)
  /\ page' = Route(p, NoLink, signed)
  /\ call' = Left
  /\ UNCHANGED <<password, link, signed, attempts, sent, languages, faults>>

Type(n, p) ==
  /\ page.at \in Public
  /\ page.at = "forgot" => p = ""
  /\ page.at = "reset" => n = ""
  /\ page' = [page EXCEPT !.name = n, !.password = p]
  /\ UNCHANGED <<password, link, signed, call, attempts, counters>>

SignOut ==
  /\ page.at = "app"
  /\ signed' = NoAccount
  /\ page' = Blank("login", NoLink)
  /\ UNCHANGED <<password, link, call, attempts, counters>>

-----------------------------------------------------------------------------
(* What the pages send.                                                    *)

Send(kind, before) ==
  /\ sent < MaxSent
  /\ sent' = sent + 1
  /\ \E c \in Calls :
       /\ before[c] = Free
       /\ call' = [before EXCEPT ![c] = [kind |-> kind, name |-> page'.name, password |-> page'.password,
                                         link |-> page'.link, at |-> "asked", ear |-> "page"]]
  /\ attempts' = IF page'.link \in Links THEN [attempts EXCEPT ![page'.link] = @ + 1] ELSE attempts

(* handleSubmit: all fields are required, and a reset needs its token.     *)
Submit ==
  /\ page.at \in Public
  /\ page.at # "reset" => page.name # ""
  /\ page.at # "forgot" => page.password # ""
  /\ page.at = "reset" => page.link # NoLink
  /\ page' = IF page.at = "reset" THEN page ELSE [page EXCEPT !.error = FALSE]
  /\ Send(page.at, call)
  /\ UNCHANGED <<password, link, signed, moves, languages, faults>>

(* Mutant: the effect runs once more when the page is rendered again.      *)
OpenRunsTwice(l) ==
  /\ moves < MaxMoves
  /\ moves' = moves + 1
  /\ link[l].state # "unsent"
  /\ page' = IF l \in ResetLinks THEN Route("reset", l, signed)
             ELSE Verifying(l)
  /\ IF l \in VerifyLinks
     THEN Send("verify", Unheard) /\ link' = [link EXCEPT ![l].state = "used"]
     ELSE call' = Unheard /\ UNCHANGED <<attempts, sent, link>>
  /\ UNCHANGED <<password, signed, languages, faults>>

(* A link from the mail is opened: the page of a verification asks at once.*)
Open(l) ==
  /\ moves < MaxMoves
  /\ moves' = moves + 1
  /\ link[l].state # "unsent"
  /\ page' = IF l \in ResetLinks THEN Route("reset", l, signed)
             ELSE Verifying(l)
  /\ IF l \in VerifyLinks THEN Send("verify", Unheard) ELSE call' = Unheard /\ UNCHANGED <<attempts, sent>>
  /\ UNCHANGED <<password, link, signed, languages, faults>>

(* Another language is another t: the effect runs again.                   *)
Language ==
  /\ languages < MaxLanguages
  /\ languages' = languages + 1
  /\ page.at = "verify" /\ page.link # NoLink
  /\ page' = [page EXCEPT !.message = "loading", !.error = FALSE]
  /\ Send("verify", call)
  /\ UNCHANGED <<password, link, signed, moves, faults>>

-----------------------------------------------------------------------------
(* The server.                                                             *)

Live(l) == link[l].state = "sent"

(* Mutant: a name that is taken is registered again.                       *)
ServeRegisterUnchecked(c) ==
  /\ call[c].kind = "register"
  /\ password' = [password EXCEPT ![call[c].name] = call[c].password]
  /\ call' = [call EXCEPT ![c].at = "done"]
  /\ UNCHANGED link

ServeRegister(c) ==
  /\ call[c].kind = "register"
  /\ IF password[call[c].name] = NotSet
     THEN /\ password' = [password EXCEPT ![call[c].name] = call[c].password]
          /\ call' = [call EXCEPT ![c].at = "done"]
     ELSE call' = [call EXCEPT ![c].at = "refused"] /\ UNCHANGED password
  /\ UNCHANGED link

ServeLogin(c) ==
  /\ call[c].kind = "login"
  /\ call' = [call EXCEPT ![c].at = IF password[call[c].name] = call[c].password THEN "done" ELSE "refused"]
  /\ UNCHANGED <<password, link>>

(* Mutant: a name without an e-mail is refused.                            *)
ServeForgotUnbound(c) ==
  /\ call[c].kind = "forgot"
  /\ call' = [call EXCEPT ![c].at = IF call[c].name \in Bound THEN "done" ELSE "refused"]
  /\ UNCHANGED <<password, link>>

(* A link goes out if there is an e-mail to send it to.                    *)
ServeForgot(c) ==
  /\ call[c].kind = "forgot"
  /\ LET n == call[c].name IN
     IF n \in Bound /\ password[n] # NotSet
     THEN \E l \in ResetLinks : link[l].state = "unsent" /\ link' = [link EXCEPT ![l] = [for |-> n, state |-> "sent"]]
     ELSE UNCHANGED link
  /\ call' = [call EXCEPT ![c].at = "done"]
  /\ UNCHANGED password

(* Mutant: a used link is good again.                                      *)
ServeLinkUnspent(c) ==
  LET l == call[c].link IN
  /\ call[c].kind \in {"reset", "verify"}
  /\ link[l].state # "expired"
  /\ link' = [link EXCEPT ![l].state = "used"]
  /\ password' = IF call[c].kind = "reset" THEN [password EXCEPT ![link[l].for] = call[c].password] ELSE password
  /\ call' = [call EXCEPT ![c].at = "done"]

ServeLink(c) ==
  LET l == call[c].link IN
  /\ call[c].kind \in {"reset", "verify"}
  /\ IF Live(l)
     THEN /\ link' = [link EXCEPT ![l].state = "used"]
          /\ password' = IF call[c].kind = "reset" THEN [password EXCEPT ![link[l].for] = call[c].password] ELSE password
          /\ call' = [call EXCEPT ![c].at = "done"]
     ELSE call' = [call EXCEPT ![c].at = "refused"] /\ UNCHANGED <<link, password>>

Serve(c) ==
  /\ call[c].at = "asked"
  /\ ServeRegister(c) \/ ServeLogin(c) \/ ServeForgot(c) \/ ServeLink(c)
  /\ UNCHANGED <<signed, page, attempts, counters>>

Lose(c) ==
  /\ call[c].at \in {"asked", "done"}
  /\ faults < MaxFaults
  /\ faults' = faults + 1
  /\ call' = [call EXCEPT ![c].at = "refused"]
  /\ UNCHANGED <<password, link, signed, page, attempts, sent, moves, languages>>

Expire(l) ==
  /\ Live(l)
  /\ link' = [link EXCEPT ![l].state = "expired"]
  /\ UNCHANGED <<password, signed, page, call, attempts, counters>>

-----------------------------------------------------------------------------
(* The answers.                                                            *)

(* A login or a registration or a reset that has succeeded navigates, from *)
(* whatever page the reader is on by now; the others tell it where they    *)
(* were sent from, if that page is still there.                            *)
Succeed(c) ==
  LET k == call[c].kind IN
  /\ call[c].at = "done"
  /\ IF call[c].ear = "none" \/ (k \in {"forgot", "verify"} /\ call[c].ear = "tab")
     THEN call' = [call EXCEPT ![c] = Free] /\ UNCHANGED <<signed, page>>
     ELSE \/ /\ k = "login"
             /\ signed' = call[c].name
             /\ page' = Blank("app", NoLink)
             /\ call' = [Left EXCEPT ![c] = Free]
          \/ /\ k \in {"register", "reset"}
             /\ page' = Route("login", NoLink, signed)
             /\ call' = [Left EXCEPT ![c] = Free]
             /\ UNCHANGED signed
          \/ /\ k \in {"forgot", "verify"}
             /\ page' = IF k = "forgot" THEN [page EXCEPT !.message = "sent"]
                        ELSE [page EXCEPT !.message = "verified", !.error = FALSE]
             /\ call' = [call EXCEPT ![c] = Free]
             /\ UNCHANGED signed
  /\ UNCHANGED <<password, link, attempts, counters>>

(* Mutant: the verification has no catch.                                  *)
FailUncaught(c) ==
  /\ call[c].at = "refused"
  /\ page' = IF call[c].ear = "page" /\ call[c].kind # "verify" THEN [page EXCEPT !.error = TRUE] ELSE page
  /\ call' = [call EXCEPT ![c] = Free]
  /\ UNCHANGED <<password, link, signed, attempts, counters>>

Fail(c) ==
  /\ call[c].at = "refused"
  /\ page' = IF call[c].ear # "page" THEN page
             ELSE [page EXCEPT !.error = TRUE,
                               !.message = IF call[c].kind \in {"forgot", "verify"} THEN "" ELSE @]
  /\ call' = [call EXCEPT ![c] = Free]
  /\ UNCHANGED <<password, link, signed, attempts, counters>>

Next ==
  \/ \E p \in Pages : Follow(p)
  \/ \E n \in Names \cup {""}, p \in Passwords \cup {""} : Type(n, p)
  \/ SignOut \/ Submit \/ Language
  \/ \E l \in Links : Open(l) \/ Expire(l)
  \/ \E c \in Calls : Serve(c) \/ Lose(c) \/ Succeed(c) \/ Fail(c)

Spec == Init /\ [][Next]_vars

-----------------------------------------------------------------------------
(* Who is taken to the login by his registration can sign in with what he  *)
(* had typed, however often he has sent it, unless the password has been   *)
(* reset since (register and its navigation).                              *)
RegisteredCanSignIn ==
  \A c \in Calls :
    (call[c].kind = "register" /\ call[c].at = "done" /\ call'[c] = Free /\ call[c].ear # "none")
      => \/ password[call[c].name] = call[c].password
         \/ \E l \in ResetLinks : link[l] = [for |-> call[c].name, state |-> "used"]

(* The password of an account changes only by a link sent for it, at most  *)
(* once by each, and never by one that has expired (handleSubmit of the    *)
(* reset may run twice).                                                   *)
ResetNeedsALiveLink ==
  \A n \in Names : (password[n] # NotSet /\ password'[n] # password[n])
    => \E l \in ResetLinks : link[l] = [for |-> n, state |-> "sent"] /\ link'[l].state = "used"

(* Asked about any name at all, the page says the same, unless a request   *)
(* is lost (handleForgotPassword).                                         *)
ForgotTellsNothing == (faults = 0 /\ page.at = "forgot") => ~page.error

(* A verification is refused only for a link that has been tried before,   *)
(* or has expired, or by a lost request: one opening is one attempt.       *)
FreshLinkVerifies ==
  (page.at = "verify" /\ page.error /\ faults = 0) => attempts[page.link] > 1 \/ link[page.link].state = "expired"
=============================================================================
