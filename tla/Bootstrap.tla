----------------------------- MODULE Bootstrap -----------------------------
(***************************************************************************)
(* The start of the process: the migration that gives names to accounts    *)
(* which had none, then the settings and the administrator of the          *)
(* configuration, statement by statement and without a transaction, so     *)
(* that a crash leaves what was done.  While the process is up, accounts   *)
(* register and change their names and e-mails; at the next start the      *)
(* configuration is applied once more.                                     *)
(***************************************************************************)
EXTENDS Naturals, Sequences, FiniteSets

CONSTANTS
  Config,      \* name, email, allow: one configuration, with a password; see README
  Names,       \* names accounts take while the process is up: sequences, see Numbered
  Capital,     \* capital letters among them, with the small ones
  Legacy,      \* the first accounts by id: their e-mails, and the names these give
  LegacyAdmin, \* the ids of super admins among them
  Emails,
  MaxUsers,    \* bound: accounts
  MaxStarts,   \* bound: starts of the process
  MaxEdits     \* bound: changes while the process is up

Unnamed == <<>>

(* A name is never empty: a request's is validated, the configuration's    *)
(* and that of an e-mail have a default; and numbers have no capitals.     *)
BootstrapAssumption ==
  /\ Config \in [name : Seq(Nat) \ {Unnamed}, email : Emails \cup {""}, allow : BOOLEAN]
  /\ Names \subseteq Seq(Nat) \ {Unnamed}
  /\ Legacy \in Seq([name : Seq(Nat) \ {Unnamed}, email : Emails])
  /\ Len(Legacy) <= MaxUsers /\ LegacyAdmin \subseteq 1 .. Len(Legacy)
  /\ MaxUsers \in Nat /\ MaxStarts \in Nat /\ MaxEdits \in Nat
  /\ \A k \in 2 .. MaxUsers + 1 : k \notin DOMAIN Capital

VARIABLES
  users,     \* accounts, by id; of owners also their tenant
  platform,  \* the tenant of the administrator: [tenant, policy : BOOLEAN]
  allowed,   \* the setting of registrations
  at,        \* the statement of the start, or "up", or "down"
  failed,    \* the last start ended with an error
  starts, edits,
  renamed,   \* history: a super admin has changed his name
  cut        \* history: the process died before the policy was made

vars == <<users, platform, allowed, at, failed, starts, edits, renamed, cut>>

Account == [name : Seq(Nat), email : Emails \cup {""}, contact : Emails \cup {""}, admin : BOOLEAN,
            made : {"legacy", "bootstrap", "register"}]
Steps   == {"down", "names", "setting", "look", "contact", "tenant", "admin", "policy", "up"}

TypeOK ==
  /\ users \in Seq(Account) /\ Len(users) <= MaxUsers
  /\ platform \in [tenant : BOOLEAN, policy : BOOLEAN]
  /\ allowed \in BOOLEAN /\ at \in Steps /\ failed \in BOOLEAN
  /\ starts \in 0 .. MaxStarts /\ edits \in 0 .. MaxEdits
  /\ renamed \in BOOLEAN /\ cut \in BOOLEAN
  /\ failed => at = "down"
  /\ at \notin {"down", "names"} => \A i \in DOMAIN users : users[i].name # Unnamed
  /\ at \in {"admin", "policy"} => platform.tenant

Init ==
  /\ users = [i \in DOMAIN Legacy |->
                [name |-> Unnamed, email |-> Legacy[i].email, contact |-> "", admin |-> i \in LegacyAdmin,
                 made |-> "legacy"]]
  /\ platform = [tenant |-> FALSE, policy |-> FALSE]
  /\ allowed = FALSE /\ at = "down" /\ failed = FALSE
  /\ starts = 0 /\ edits = 0 /\ renamed = FALSE /\ cut = FALSE

-----------------------------------------------------------------------------
normalizeUsername(n) == [i \in DOMAIN n |-> IF n[i] \in DOMAIN Capital THEN Capital[n[i]] ELSE n[i]]

Called(n) == {i \in DOMAIN users : normalizeUsername(users[i].name) = normalizeUsername(n)}

(* The name of the e-mail, or with the least number that nobody has.       *)
Numbered(base, k) == IF k = 1 THEN base ELSE Append(base, k)
FirstFree(i, base) ==
  LET free == {k \in 1 .. MaxUsers + 1 : Called(Numbered(base, k)) \ {i} = {}}
  IN  Numbered(base, CHOOSE k \in free : \A m \in free : k <= m)

Start ==
  /\ at = "down" /\ starts < MaxStarts
  /\ at' = "names" /\ failed' = FALSE /\ starts' = starts + 1
  /\ UNCHANGED <<users, platform, allowed, edits, renamed, cut>>

Ready == at' = "up" /\ UNCHANGED failed
Fail  == at' = "down" /\ failed' = TRUE

(* Mutant: names are compared as they are written.                         *)
BackfillAsWritten ==
  /\ at = "names"
  /\ LET nameless == {i \in DOMAIN users : users[i].name = Unnamed} IN
     IF nameless = {} THEN at' = "setting" /\ UNCHANGED users
     ELSE LET i == CHOOSE i \in nameless : \A j \in nameless : i <= j
              free == {k \in 1 .. MaxUsers + 1 : \A j \in DOMAIN users : users[j].name # Numbered(Legacy[i].name, k)}
              k == CHOOSE k \in free : \A m \in free : k <= m
          IN  /\ users' = [users EXCEPT ![i].name = Numbered(Legacy[i].name, k), ![i].contact = users[i].email]
              /\ UNCHANGED at
  /\ UNCHANGED <<platform, allowed, failed, starts, edits, renamed, cut>>

(* backfillUserAccountFields: an account a step, by id; what a crash has   *)
(* left without a name gets it at the next start.                          *)
Backfill ==
  /\ at = "names"
  /\ LET nameless == {i \in DOMAIN users : users[i].name = Unnamed} IN
     IF nameless = {} THEN at' = "setting" /\ UNCHANGED users
     ELSE LET i == CHOOSE i \in nameless : \A j \in nameless : i <= j
          IN  /\ users' = [users EXCEPT ![i].name = FirstFree(i, Legacy[i].name), ![i].contact = users[i].email]
              /\ UNCHANGED at
  /\ UNCHANGED <<platform, allowed, failed, starts, edits, renamed, cut>>

SaveSetting ==
  /\ at = "setting"
  /\ allowed' = Config.allow /\ at' = "look"
  /\ UNCHANGED <<users, platform, failed, starts, edits, renamed, cut>>

(* Mutant: the name is looked up as it is written.                         *)
LookAsWritten ==
  /\ at = "look"
  /\ LET found == {i \in DOMAIN users : users[i].name = Config.name} IN
     IF found = {} THEN at' = "tenant" /\ UNCHANGED failed
     ELSE IF \E i \in found : ~users[i].admin THEN Fail
     ELSE IF Config.email # "" THEN at' = "contact" /\ UNCHANGED failed ELSE Ready
  /\ UNCHANGED <<users, platform, allowed, starts, edits, renamed, cut>>

(* Mutant: the tenant is taken for granted.                                *)
LookAdmitsAll ==
  /\ at = "look"
  /\ LET found == Called(Config.name) IN
     IF found = {} THEN at' = "admin" /\ UNCHANGED failed
     ELSE IF \E i \in found : ~users[i].admin THEN Fail
     ELSE IF Config.email # "" THEN at' = "contact" /\ UNCHANGED failed ELSE Ready
  /\ UNCHANGED <<users, platform, allowed, starts, edits, renamed, cut>>

(* Mutant: the administrator is only made along with the tenant.           *)
LookForTenant ==
  /\ at = "look"
  /\ IF ~platform.tenant THEN at' = "tenant" /\ UNCHANGED failed
     ELSE IF \E i \in Called(Config.name) : ~users[i].admin THEN Fail
     ELSE IF Config.email # "" /\ Called(Config.name) # {} THEN at' = "contact" /\ UNCHANGED failed ELSE Ready
  /\ UNCHANGED <<users, platform, allowed, starts, edits, renamed, cut>>

Look ==
  /\ at = "look"
  /\ LET found == Called(Config.name) IN
     IF found = {} THEN at' = "tenant" /\ UNCHANGED failed
     ELSE IF \E i \in found : ~users[i].admin THEN Fail
     ELSE IF Config.email # "" THEN at' = "contact" /\ UNCHANGED failed ELSE Ready
  /\ UNCHANGED <<users, platform, allowed, starts, edits, renamed, cut>>

(* The contact e-mail of the configuration is put, and counts as verified. *)
SetContact ==
  /\ at = "contact"
  /\ users' = [i \in DOMAIN users |->
                 IF i \in Called(Config.name) THEN [users[i] EXCEPT !.contact = Config.email]
                 ELSE users[i]]
  /\ Ready
  /\ UNCHANGED <<platform, allowed, starts, edits, renamed, cut>>

MakeTenant ==
  /\ at = "tenant"
  /\ platform' = [platform EXCEPT !.tenant = TRUE]
  /\ at' = "admin"
  /\ UNCHANGED <<users, allowed, failed, starts, edits, renamed, cut>>

(* Mutant: the policy is forgotten.                                        *)
MakeAdminAlone ==
  /\ at = "admin"
  /\ IF Config.email # "" /\ \E i \in DOMAIN users : users[i].email = Config.email
     THEN Fail /\ UNCHANGED users
     ELSE /\ Len(users) < MaxUsers
          /\ users' = Append(users, [name |-> Config.name, email |-> Config.email, contact |-> Config.email,
                                     admin |-> TRUE, made |-> "bootstrap"])
          /\ Ready
  /\ UNCHANGED <<platform, allowed, starts, edits, renamed, cut>>

(* users.email is unique: the configured e-mail, else one made at random.  *)
MakeAdmin ==
  /\ at = "admin"
  /\ IF Config.email # "" /\ \E i \in DOMAIN users : users[i].email = Config.email
     THEN Fail /\ UNCHANGED users
     ELSE /\ Len(users) < MaxUsers
          /\ users' = Append(users, [name |-> Config.name, email |-> Config.email, contact |-> Config.email,
                                     admin |-> TRUE, made |-> "bootstrap"])
          /\ at' = "policy" /\ UNCHANGED failed
  /\ UNCHANGED <<platform, allowed, starts, edits, renamed, cut>>

MakePolicy ==
  /\ at = "policy"
  /\ platform' = [platform EXCEPT !.policy = TRUE]
  /\ Ready
  /\ UNCHANGED <<users, allowed, starts, edits, renamed, cut>>

(* The process dies, or is stopped.                                        *)
Crash ==
  /\ at # "down"
  /\ at' = "down"
  /\ cut' = (cut \/ at = "policy")
  /\ UNCHANGED <<users, platform, allowed, failed, starts, edits, renamed>>

-----------------------------------------------------------------------------
(* While the process is up.                                                *)

Edit == at = "up" /\ edits < MaxEdits /\ edits' = edits + 1
        /\ UNCHANGED <<platform, allowed, at, failed, starts, cut>>

Register(n) ==
  /\ Edit
  /\ allowed /\ Called(n) = {} /\ Len(users) < MaxUsers
  /\ users' = Append(users, [name |-> n, email |-> "", contact |-> "", admin |-> FALSE, made |-> "register"])
  /\ UNCHANGED renamed

UpdateProfile(i, n, e) ==
  /\ Edit
  /\ Called(n) \ {i} = {}
  /\ e # "" => \A j \in DOMAIN users \ {i} : users[j].contact # e
  /\ users' = [users EXCEPT ![i].name = n, ![i].contact = e]
  /\ renamed' = (renamed \/ (users[i].admin /\ normalizeUsername(n) # normalizeUsername(users[i].name)))

Next ==
  \/ Start \/ Backfill \/ SaveSetting \/ Look \/ SetContact \/ MakeTenant \/ MakeAdmin \/ MakePolicy
  \/ Crash
  \/ \E n \in Names : Register(n)
  \/ \E i \in DOMAIN users : \E n \in Names : \E e \in Emails \cup {""} : UpdateProfile(i, n, e)

Spec == Init /\ [][Next]_vars

-----------------------------------------------------------------------------
Initial == {i \in DOMAIN users : users[i].made = "bootstrap"}

(* No two accounts have one name, in whatever letters: those of before the *)
(* migration, the administrator, and those that register between starts,   *)
(* wherever a start was cut (migrations.go: nextAvailableLegacyUsername;   *)
(* database.go: EnsureBootstrap).                                          *)
NamesAreUnique ==
  \A i, j \in DOMAIN users :
    i # j /\ users[i].name # Unnamed => normalizeUsername(users[i].name) # normalizeUsername(users[j].name)

(* A process that is up has the configured administrator, unless he took   *)
(* another name, whatever an earlier start that was cut has left           *)
(* (database.go: EnsureBootstrap).                                         *)
UpHasItsAdmin ==
  at = "up" /\ ~renamed => \E i \in Called(Config.name) : users[i].admin

(* A second administrator is made only after the first one took another    *)
(* name, never because a start was cut (database.go: EnsureBootstrap).     *)
SecondOnlyAfterARename == Cardinality(Initial) > 1 => renamed

(* The administrator's tenant is without a policy only if the process died *)
(* between the two; no later start makes it (database.go: EnsureBootstrap).*)
PolicyMissingOnlyByCrash ==
  at = "up" /\ Initial # {} /\ ~platform.policy => cut

(* With one configuration from the beginning, a start fails only after the *)
(* administrator took another name (database.go: EnsureBootstrap).         *)
FailsOnlyAfterARename == failed => renamed
=============================================================================
