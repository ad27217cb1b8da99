---------------------------- MODULE MCServerData ----------------------------
(***************************************************************************)
(* What the server keeps, in six parts of which a behaviour is one: the    *)
(* accounts on MySQL or PostgreSQL and on SQLite, the data of tenants, and *)
(* the process started in three ways. Of the accounts there are two        *)
(* spellings of a name, and two tenant names of which one is the other     *)
(* one's second candidate. For the start, names 1 and 11 are one in small  *)
(* and in capital letters; 1 followed by 2 is a name and also what the     *)
(* second account of name 1 is given.                                      *)
(***************************************************************************)
EXTENDS Accounts, TenantData, FiniteSets, TLC

VARIABLES
  part,   \* the part whose behaviour this is
  users, platform, allowed, at, failed, starts, edits, renamed, cut

bootVars == <<users, platform, allowed, at, failed, starts, edits, renamed, cut>>
allVars == <<part, bootVars, vars, dataVars>>

MCCapital   == [Ann |-> "ann"]
MCBases     == {<<1>>, <<1, 2>>}
BootCapital == [n \in {11} |-> 1]
BootNames   == {<<1>>, <<11>>, <<3>>}
Old         == << [name |-> <<11>>, email |-> "a"], [name |-> <<1>>, email |-> "b"],
                  [name |-> <<1, 2>>, email |-> "c"], [name |-> <<1>>, email |-> "d"] >>
Symmetry    == Permutations(Requests)

SQLiteAccounts == INSTANCE Accounts WITH SQLite <- TRUE, MaxSent <- 3

Boot(b) == INSTANCE Bootstrap WITH
  Config <- b.config, Names <- b.names, Capital <- b.capital,
  Legacy <- b.legacy, LegacyAdmin <- b.legacyAdmin, Emails <- b.emails,
  MaxUsers <- b.maxUsers, MaxStarts <- b.maxStarts, MaxEdits <- b.maxEdits

(* The three ways of starting.                                             *)
Mailed ==
  [config |-> [name |-> <<11>>, email |-> "a", allow |-> TRUE],
   names |-> BootNames, capital |-> BootCapital, legacy |-> <<>>,
   legacyAdmin |-> {}, emails |-> {"a", "b"}, maxUsers |-> 4, maxStarts |-> 4,
   maxEdits |-> 4]
Migrated ==
  [config |-> [name |-> <<5>>, email |-> "", allow |-> TRUE],
   names |-> BootNames, capital |-> BootCapital, legacy |-> Old,
   legacyAdmin |-> {1}, emails |-> {"a", "b", "c", "d"}, maxUsers |-> 6,
   maxStarts |-> 3, maxEdits |-> 3]
Unmailed ==
  [config |-> [name |-> <<11>>, email |-> "", allow |-> TRUE],
   names |-> BootNames, capital |-> BootCapital, legacy |-> <<>>,
   legacyAdmin |-> {}, emails |-> {"a"}, maxUsers |-> 4, maxStarts |-> 4,
   maxEdits |-> 4]

(* The values suit every part.                                             *)
ASSUME MCServerDataValues ==
  /\ Boot(Mailed)!BootstrapAssumption
  /\ Boot(Migrated)!BootstrapAssumption
  /\ Boot(Unmailed)!BootstrapAssumption

(* The variables of a part that does not move.                             *)
Unused == 0
NoBoot ==
  /\ users = Unused /\ platform = Unused /\ allowed = Unused /\ at = Unused
  /\ failed = Unused /\ starts = Unused /\ edits = Unused /\ renamed = Unused
  /\ cut = Unused

Parts == {"accounts", "sqlite", "tenants", "bootstrap", "migration", "unmailed"}

SumInit ==
  /\ part \in Parts
  /\ Init
  /\ DataInit
  /\ CASE part = "bootstrap" -> Boot(Mailed)!Init
       [] part = "migration" -> Boot(Migrated)!Init
       [] part = "unmailed" -> Boot(Unmailed)!Init
       [] OTHER -> NoBoot

(* One part moves, the others are not there.                               *)
SumNext ==
  \/ part = "accounts" /\ Next /\ UNCHANGED <<part, bootVars, dataVars>>
  \/ part = "sqlite" /\ SQLiteAccounts!Next /\ UNCHANGED <<part, bootVars, dataVars>>
  \/ part = "tenants" /\ DataNext /\ UNCHANGED <<part, bootVars, vars>>
  \/ part = "bootstrap" /\ Boot(Mailed)!Next /\ UNCHANGED <<part, vars, dataVars>>
  \/ part = "migration" /\ Boot(Migrated)!Next /\ UNCHANGED <<part, vars, dataVars>>
  \/ part = "unmailed" /\ Boot(Unmailed)!Next /\ UNCHANGED <<part, vars, dataVars>>

SumSpec == SumInit /\ [][SumNext]_allVars

-----------------------------------------------------------------------------

(* A name, in whatever letters, and an e-mail are one account's on SQLite, *)
(* whose transactions do not overlap: Login and ForgotPassword take the    *)
(* first account they find, and another one would have no way in. And who  *)
(* keeps the name and the e-mail he has is told that they are taken only   *)
(* if another account has got one of them too (service.go: Register,       *)
(* UpdateProfile, Login).                                                  *)
NamesHaveOneOwner ==
  /\ part = "sqlite" => NamesAreUnique
  /\ KeepingIsNoConflict

(* A start picks up what an earlier one has left, at whatever statement    *)
(* that one was cut: what it leaves has its types; a process that is up    *)
(* has the configured administrator, whose policy is missing only if the   *)
(* process died between the two; only a renaming by the administrator      *)
(* himself makes a start fail or make a second administrator; and no two   *)
(* accounts have one name, in whatever letters, also of those that had     *)
(* none before the migration (database.go: EnsureBootstrap; migrations.go: *)
(* nextAvailableLegacyUsername).                                           *)
StartsRepair ==
  /\ part = "bootstrap" => /\ Boot(Mailed)!TypeOK
                           /\ Boot(Mailed)!UpHasItsAdmin
                           /\ Boot(Mailed)!PolicyMissingOnlyByCrash
                           /\ Boot(Mailed)!FailsOnlyAfterARename
                           /\ Boot(Mailed)!SecondOnlyAfterARename
  /\ part = "unmailed" => /\ Boot(Unmailed)!TypeOK
                         /\ Boot(Unmailed)!UpHasItsAdmin
                         /\ Boot(Unmailed)!SecondOnlyAfterARename
  /\ part = "migration" => Boot(Migrated)!TypeOK /\ Boot(Migrated)!NamesAreUnique
=============================================================================
