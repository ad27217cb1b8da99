----------------------------- MODULE QueryCache -----------------------------
(***************************************************************************)
(* The cache of server data that the pages share: one QueryClient for the  *)
(* life of the tab, whoever signs in and out.  A page reads its queries    *)
(* from the cache as soon as it is shown and has them fetched again.  The  *)
(* rules of the cache itself are those of the react-query library, as far  *)
(* as the pages depend on them: an entry is kept some time after its last  *)
(* page has gone, a page shows what is cached while a fetch is under way,  *)
(* a second fetch of a key joins the one in flight, and one that fails     *)
(* leaves the data alone.                                                  *)
(***************************************************************************)
EXTENDS Naturals, Sequences

CONSTANTS
  Users,    \* the accounts that sign in, one after another, in one tab; a tenant each
  Nobody,
  Pages     \* the pages of the workspace that are opened

QueryCacheAssumption ==
  /\ Nobody \notin Users
  /\ Pages \subseteq {"dashboard", "notifications", "settings"}

(* Mutant: the overview is kept under one key for everybody.               *)
KeysForAll(p, u) ==
  CASE p = "dashboard"     -> {<<"domains">>, <<"workspace-public-status", CHOOSE v \in Users : TRUE>>}
    [] p = "notifications" -> {<<"notification-endpoints">>, <<"domains">>, <<"notification-policies">>}
    [] p = "settings"      -> {<<"workspace-public-status-settings", u>>}
    [] OTHER               -> {}

(* The query keys of a page.  Two of them name the user's tenant; the rest *)
(* are the same for everybody.                                             *)
Keys(page, u) ==
  CASE page = "dashboard"     -> {<<"domains">>, <<"workspace-public-status", u>>}
    [] page = "notifications" -> {<<"notification-endpoints">>, <<"domains">>, <<"notification-policies">>}
    [] page = "settings"      -> {<<"workspace-public-status-settings", u>>}
    [] OTHER                  -> {}

AllKeys    == UNION {Keys(p, u) : p \in Pages, u \in Users}
TenantKeys == {k \in AllKeys : Len(k) = 2}

VARIABLES
  user,     \* who is signed in
  page,     \* the page shown, or "none"
  cached,   \* [AllKeys -> whose data the entry holds], Nobody if it holds none
  fetching, \* [AllKeys -> whose token the fetch in flight carries], Nobody if none
  failed,   \* keys whose last fetch gave up
  joined    \* history: keys whose page has taken another's fetch for its own

vars == <<user, page, cached, fetching, failed, joined>>

TypeOK ==
  /\ user \in Users \cup {Nobody}
  /\ page \in Pages \cup {"none"}
  /\ cached \in [AllKeys -> Users \cup {Nobody}]
  /\ fetching \in [AllKeys -> Users \cup {Nobody}]
  /\ failed \subseteq AllKeys
  /\ joined \subseteq AllKeys

Init ==
  /\ user = Nobody
  /\ page = "none"
  /\ cached = [k \in AllKeys |-> Nobody]
  /\ fetching = [k \in AllKeys |-> Nobody]
  /\ failed = {}
  /\ joined = {}

Mounted == Keys(page, user)

(* Nothing of the cache is dropped when the user changes.                  *)
SignIn(u) ==
  /\ user = Nobody
  /\ user' = u
  /\ UNCHANGED <<page, cached, fetching, failed, joined>>

SignOut ==
  /\ user # Nobody
  /\ user' = Nobody
  /\ page' = "none"
  /\ UNCHANGED <<cached, fetching, failed, joined>>

(* Each query of the page is fetched, unless a fetch of its key is in      *)
(* flight already.                                                         *)
Fetch(keys) ==
  /\ fetching' = [k \in AllKeys |-> IF k \in keys /\ fetching[k] = Nobody THEN user ELSE fetching[k]]
  /\ failed' = failed \ keys
  /\ joined' = (joined \ keys) \cup {k \in keys : fetching[k] \notin {Nobody, user}}

(* Mutant: what is cached counts as fresh.                                 *)
OpenFresh(p) ==
  /\ user # Nobody
  /\ page' = p
  /\ Fetch({k \in Keys(p, user) : cached[k] = Nobody})
  /\ UNCHANGED <<user, cached>>

Open(p) ==
  /\ user # Nobody
  /\ page' = p
  /\ Fetch(Keys(p, user))
  /\ UNCHANGED <<user, cached>>

(* A mutation has succeeded: a fetch in flight is given up for a new one,  *)
(* unless it is the first of its key, which is joined.                     *)
Invalidate(k) ==
  /\ k \in Mounted
  /\ cached[k] # Nobody \/ fetching[k] = Nobody
  /\ fetching' = [fetching EXCEPT ![k] = user]
  /\ failed' = failed \ {k}
  /\ joined' = joined \ {k}
  /\ UNCHANGED <<user, page, cached>>

(* An answer is stored under the key, whoever reads it by now.             *)
Arrive(k) ==
  /\ fetching[k] # Nobody
  /\ cached' = [cached EXCEPT ![k] = fetching[k]]
  /\ fetching' = [fetching EXCEPT ![k] = Nobody]
  /\ UNCHANGED <<user, page, failed, joined>>

GiveUp(k) ==
  /\ fetching[k] # Nobody
  /\ fetching' = [fetching EXCEPT ![k] = Nobody]
  /\ failed' = failed \cup {k}
  /\ UNCHANGED <<user, page, cached, joined>>

(* Five minutes after its last page has gone an entry is dropped.          *)
Collect(k) ==
  /\ k \notin Mounted
  /\ cached[k] # Nobody
  /\ cached' = [cached EXCEPT ![k] = Nobody]
  /\ UNCHANGED <<user, page, fetching, failed, joined>>

Next ==
  \/ \E u \in Users : SignIn(u)
  \/ SignOut
  \/ \E p \in Pages : Open(p)
  \/ \E k \in AllKeys : Invalidate(k) \/ Arrive(k) \/ GiveUp(k) \/ Collect(k)

Spec == Init /\ [][Next]_vars

-----------------------------------------------------------------------------
(* What a page shows under a key that names the tenant is the tenant's     *)
(* own (queryKey: [..., user?.tenant_id]).                                 *)
KeyedDataIsOwn == \A k \in Mounted \cap TenantKeys : cached[k] \in {user, Nobody}

(* What a page shows of another user, under a key they share, is about to  *)
(* be replaced, unless the fetch has failed or was begun by that other     *)
(* user and joined (useQuery without the user in its key).                 *)
ForeignDataIsRefetched ==
  \A k \in Mounted :
    cached[k] \notin {user, Nobody} => fetching[k] # Nobody \/ k \in failed \cup joined
=============================================================================
