------------------------------- MODULE Router -------------------------------
(***************************************************************************)
(* Which page the web client shows: the routes and their guards            *)
(* (RootRedirect, ProtectedShell, PublicOnly), the links of the pages and  *)
(* of the shell, and what the pages of the account do to the location when *)
(* their requests are answered.  Who is signed in is decided by module     *)
(* WebClient; here it may change in any way that module allows.            *)
(***************************************************************************)
EXTENDS Naturals

CONSTANTS
  Users,    \* the accounts
  Admins,   \* those with the role super_admin
  Nobody    \* no user

RouterAssumption == Admins \subseteq Users /\ Nobody \notin Users

VARIABLES
  path,       \* the location
  user,       \* the user the provider shows
  loading,    \* the provider waits for its first answer
  underway,   \* a form of a public page waits for its answer: "login", "account" or "none"
  hops,       \* history: redirections in a row
  asked       \* history: the page the tab was loaded with, "" once its reader has moved

vars == <<path, user, loading, underway, hops, asked>>

PublicOnlyPages == {"/login", "/register", "/forgot-password", "/reset-password"}
OpenPages       == {"/status", "/verify-email"}
WorkspacePages  == {"/app", "/app/notifications", "/app/settings"}
AdminPages      == {"/admin"}
Paths           == PublicOnlyPages \cup OpenPages \cup WorkspacePages \cup AdminPages \cup {"/"}

TypeOK ==
  /\ path \in Paths
  /\ user \in Users \cup {Nobody}
  /\ loading \in BOOLEAN
  /\ underway \in {"none", "login", "account"}
  /\ hops \in Nat
  /\ asked \in Paths \cup {""}

Init ==
  /\ path \in Paths
  /\ user = Nobody
  /\ loading = TRUE
  /\ underway = "none"
  /\ hops = 0
  /\ asked = path

Home(u) == IF u \in Admins THEN "/admin" ELSE "/app"

(* Mutant: who may not administer goes to the root, which sends them home. *)
GuardedByRoot(p, u) ==
  IF p = "/" THEN IF u = Nobody THEN "/login" ELSE Home(u)
  ELSE IF p \in PublicOnlyPages /\ u # Nobody THEN Home(u)
  ELSE IF p \in WorkspacePages \cup AdminPages /\ u = Nobody THEN "/login"
  ELSE IF p \in AdminPages /\ u \notin Admins THEN "/"
  ELSE p

(* Where the guard of a route sends its visitor once the session is known; *)
(* the route itself when it lets the visitor in.                           *)
Guarded(p, u) ==
  IF p = "/" THEN IF u = Nobody THEN "/login" ELSE Home(u)
  ELSE IF p \in PublicOnlyPages /\ u # Nobody THEN Home(u)
  ELSE IF p \in WorkspacePages \cup AdminPages /\ u = Nobody THEN "/login"
  ELSE IF p \in AdminPages /\ u \notin Admins THEN "/app"
  ELSE p

Waits == loading /\ path \notin OpenPages
Rendered == ~Waits /\ Guarded(path, user) = path

(* Mutant: the guards do not wait for the session.                         *)
RedirectAtOnce ==
  /\ path \notin OpenPages
  /\ Guarded(path, user) # path
  /\ path' = Guarded(path, user)
  /\ hops' = hops + 1
  /\ UNCHANGED <<user, loading, underway, asked>>

Redirect ==
  /\ ~loading
  /\ Guarded(path, user) # path
  /\ path' = Guarded(path, user)
  /\ hops' = hops + 1
  /\ UNCHANGED <<user, loading, underway, asked>>

-----------------------------------------------------------------------------
(* The reader moves.                                                       *)

(* The links of the page shown: those of the shell with the page's own, or *)
(* those of the card of a public page.                                     *)
Links ==
  IF path \in WorkspacePages
  THEN WorkspacePages \cup (IF user \in Admins THEN {"/admin"} ELSE {})
  ELSE IF path \in AdminPages THEN {"/admin", "/app"}
  ELSE CASE path = "/login" -> {"/register", "/forgot-password"}
         [] path = "/verify-email" -> {"/register"}
         [] path \in PublicOnlyPages \ {"/login"} -> {"/login"}
         [] OTHER -> {}

Follow(p) ==
  /\ Rendered
  /\ p \in Links
  /\ path' = p
  /\ hops' = 0
  /\ asked' = ""
  /\ UNCHANGED <<user, loading, underway>>

(* An address is typed, the tab is reloaded, or a button that assigns the  *)
(* location ("/login" on the status and verification pages) is pressed.    *)
Load(p) ==
  /\ path' = p
  /\ user' = Nobody
  /\ loading' = TRUE
  /\ underway' = "none"
  /\ hops' = 0
  /\ asked' = p

(* The forms of the public pages; a second submission changes nothing here *)
Submit ==
  /\ Rendered
  /\ path \in PublicOnlyPages
  /\ underway = "none"
  /\ underway' = (IF path = "/login" THEN "login" ELSE "account")
  /\ UNCHANGED <<path, user, loading, hops, asked>>

-----------------------------------------------------------------------------
(* The session changes.                                                    *)

(* The first refresh is answered: loading ends, with a user or without.    *)
SessionKnown(u) ==
  /\ loading
  /\ loading' = FALSE
  /\ user' = u
  /\ UNCHANGED <<path, underway, hops, asked>>

(* A login is answered: the user is shown and the page, wherever its       *)
(* reader is by now, goes to the user's home; or an error is shown.        *)
LoginAnswered(u) ==
  /\ underway = "login"
  /\ underway' = "none"
  /\ \/ user' = u /\ path' = Home(u) /\ asked' = "" /\ hops' = 0
     \/ UNCHANGED <<path, user, asked, hops>>
  /\ UNCHANGED loading

(* A registration or a reset goes to the login page; an error, and the     *)
(* answer to a forgotten password, stay where they are.                    *)
AccountAnswered ==
  /\ underway = "account"
  /\ underway' = "none"
  /\ \/ path' = "/login" /\ asked' = "" /\ hops' = 0
     \/ UNCHANGED <<path, asked, hops>>
  /\ UNCHANGED <<user, loading>>

(* The user signs out, loses the session, or turns into another one (a     *)
(* refresh with the cookie of another account).                            *)
UserChanges(u) ==
  /\ ~loading
  /\ user # Nobody
  /\ user' = u
  /\ hops' = 0
  /\ asked' = ""
  /\ UNCHANGED <<path, loading, underway>>

Next ==
  \/ Redirect
  \/ \E p \in Paths : Follow(p) \/ Load(p)
  \/ Submit
  \/ \E u \in Users \cup {Nobody} : SessionKnown(u) \/ UserChanges(u)
  \/ \E u \in Users : LoginAnswered(u)
  \/ AccountAnswered

Spec == Init /\ [][Next]_vars

-----------------------------------------------------------------------------
(* No two guards send a visitor to and fro: from wherever, whoever it is,  *)
(* a page is reached after at most one redirection (the guards' Navigate). *)
RedirectsSettle == hops <= 1

(* A user who loads a page that is open to them stays there while the      *)
(* session is looked up and after (the guards wait for loading to end).    *)
LoadedPageKept ==
  user # Nobody /\ asked # "" /\ Guarded(asked, user) = asked => path = asked
=============================================================================
