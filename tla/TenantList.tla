----------------------------- MODULE TenantList -----------------------------
(***************************************************************************)
(* The list of tenants of the administration page, a page at a time: the   *)
(* filter, the order and the page are parts of the query's key, every key  *)
(* has its own answer in the cache, and a page beyond the last one that is *)
(* known is given up by an effect.  The server counts and reads in two     *)
(* statements.  Tenants stand for their names, in alphabetical order.      *)
(***************************************************************************)
EXTENDS Paging, Sequences, FiniteSets

CONSTANTS
  Tenants,     \* natural numbers: the tenants there may be
  Disabled,    \* those that are disabled at first
  Filters,     \* filters the reader uses
  SortKeys,    \* orders the reader uses
  PageSize,    \* DEFAULT_PAGE_SIZE
  MaxMoves,    \* bound: what the reader does
  MaxChanges,  \* bound: tenants changed by anybody
  MaxFails     \* bound: requests that fail

StatusFilters == {"all", "active", "disabled"}
Headers       == {"name", "status", "expiry"}   \* user name, domains and errors are alike

TenantListAssumption ==
  /\ Disabled \subseteq Tenants /\ Tenants \subseteq Nat /\ IsFiniteSet(Tenants)
  /\ Filters \subseteq StatusFilters /\ "all" \in Filters
  /\ SortKeys \subseteq Headers /\ "expiry" \in SortKeys
  /\ PageSize \in Nat \ {0} /\ MaxMoves \in Nat /\ MaxChanges \in Nat /\ MaxFails \in Nat

VARIABLES
  exists,    \* server: the tenants there are
  off,       \* server: those that are disabled
  query,     \* statusFilter, sortKey and sortDirection
  page,      \* currentPage
  cache,     \* [Keys -> the answer the page has for it]
  fetch,     \* [Keys -> the request under way]
  fresh,     \* history: keys whose answer nothing has changed since
  moves, changes, fails

bounds == <<moves, changes, fails>>
vars   == <<exists, off, query, page, cache, fetch, fresh, bounds>>

Pages   == 1 .. PagesOf(Cardinality(Tenants), PageSize)
Queries == [filter : Filters, sort : SortKeys, dir : {"asc", "desc"}]
Keys    == Queries \X Pages

NoAnswer == [loaded |-> FALSE, total |-> 0, rows |-> <<>>]
Idle     == [at |-> "idle", total |-> 0]
Asked    == [at |-> "asked", total |-> 0]

TypeOK ==
  /\ exists \subseteq Tenants
  /\ off \subseteq Tenants
  /\ query \in Queries
  /\ page \in Pages
  /\ \A k \in Keys : /\ cache[k].total \in 0 .. Cardinality(Tenants)
                     /\ cache[k].rows \in Seq(Tenants) /\ Len(cache[k].rows) <= PageSize
                     /\ ~cache[k].loaded => cache[k] = NoAnswer
                     /\ fetch[k].at \in {"idle", "asked", "counted"}
                     /\ fetch[k].total \in 0 .. Cardinality(Tenants)
  /\ fresh \subseteq Keys
  /\ moves \in 0 .. MaxMoves
  /\ changes \in 0 .. MaxChanges
  /\ fails \in 0 .. MaxFails

-----------------------------------------------------------------------------
(* What the page shows.                                                    *)

(* Mutant: the direction is left out of the key.                           *)
KeyUndirected(q, p) == <<[q EXCEPT !.dir = "asc"], p>>

Key(q, p) == <<q, p>>

Shown            == cache[Key(query, page)]
totalPages(c, k) == Largest(1, PagesOf(c[k].total, PageSize))
currentPageSafe  == Least(page, totalPages(cache, Key(query, page)))
pageStart        == IF Shown.total = 0 THEN 0 ELSE (currentPageSafe - 1) * PageSize + 1
pageEnd          == IF Shown.total = 0 THEN 0 ELSE Least(currentPageSafe * PageSize, Shown.total)
pageNumbers      == getVisiblePages(currentPageSafe, totalPages(cache, Key(query, page)))
Listed           == Shown.loaded /\ Shown.rows # <<>>

(* Mutant: a page beyond the last one is kept.                             *)
VisitsAll(c, q, p) == {p}

(* The pages the effect comes by, beginning with the one that is set: it   *)
(* stays on a page that is not beyond the last one of its own answer, and  *)
(* a page without an answer has only one.                                  *)
Visits(c, q, p) ==
  LET closed == {S \in SUBSET (1 .. p) :
                   p \in S /\ \A n \in S : Least(n, totalPages(c, Key(q, n))) \in S}
  IN  {n \in 1 .. p : \A S \in closed : n \in S}

Lowest(S) == CHOOSE n \in S : \A m \in S : n <= m

Init ==
  /\ exists = Tenants
  /\ off = Disabled
  /\ query = [filter |-> "all", sort |-> "expiry", dir |-> "asc"]
  /\ page = 1
  /\ cache = [k \in Keys |-> NoAnswer]
  /\ fetch = [k \in Keys |-> IF k = Key(query, 1) THEN Asked ELSE Idle]
  /\ fresh = {}
  /\ moves = 0
  /\ changes = 0
  /\ fails = 0

(* The page is rendered for a query and a page: every key it comes to is   *)
(* fetched, unless it is being fetched already.                            *)
Show(c, f, q, p) ==
  LET there == IF q = query /\ p = page THEN {p} ELSE {}
      come  == {Key(q, n) : n \in Visits(c, q, p) \ there}
  IN
  /\ query' = q
  /\ page' = Lowest(Visits(c, q, p))
  /\ cache' = c
  /\ fetch' = [k \in Keys |-> IF k \in come /\ f[k] = Idle THEN Asked ELSE f[k]]

-----------------------------------------------------------------------------
(* The reader.                                                             *)

Move(q, p) ==
  /\ moves < MaxMoves
  /\ moves' = moves + 1
  /\ <<q, p>> # <<query, page>>
  /\ Show(cache, fetch, q, p)
  /\ UNCHANGED <<exists, off, fresh, changes, fails>>

(* The field, the select and the quick filters are alike.                  *)
SetFilter(f) == Move([query EXCEPT !.filter = f], 1)

handleSort(key) ==
  Move([query EXCEPT !.sort = key,
                     !.dir = IF query.sort = key /\ query.dir = "asc" THEN "desc" ELSE "asc"], 1)

PreviousPage == Listed /\ currentPageSafe > 1 /\ Move(query, Largest(1, page - 1))
GoToPage(n)  == Listed /\ n \in pageNumbers /\ Move(query, n)
NextPage     == /\ Listed
                /\ currentPageSafe < totalPages(cache, Key(query, page))
                /\ Move(query, Least(totalPages(cache, Key(query, page)), page + 1))

(* The query of the page is invalidated after an action of its own: begun  *)
(* anew if there is an answer, joined if there is none.                    *)
Invalidate ==
  LET k == Key(query, page) IN
  /\ moves < MaxMoves
  /\ moves' = moves + 1
  /\ fetch' = [fetch EXCEPT ![k] = IF cache[k].loaded \/ fetch[k] = Idle THEN Asked ELSE fetch[k]]
  /\ UNCHANGED <<exists, off, query, page, cache, fresh, changes, fails>>

-----------------------------------------------------------------------------
(* The server.                                                             *)

Matching(f) == CASE f = "all"      -> exists
                 [] f = "active"   -> exists \ off
                 [] f = "disabled" -> exists \cap off

(* Alphabetically, if the order the reader chose leaves a tie; the tenants *)
(* here have no certificate yet and tie by their expiry.                   *)
Before(q, a, b) ==
  CASE q.sort = "expiry" -> a < b
    [] q.sort = "name"   -> IF q.dir = "asc" THEN a < b ELSE b < a
    [] q.sort = "status" -> \/ (a \in off) = (b \in off) /\ a < b
                            \/ (a \in off) # (b \in off) /\ ((b \in off) <=> q.dir = "asc")

Ordered(q) ==
  LET S == Matching(q.filter) IN
  [n \in 1 .. Cardinality(S) |-> CHOOSE t \in S : Cardinality({s \in S : Before(q, s, t)}) = n - 1]

ServeRows(q, pages, p) ==
  LET n == ServedPage(p, pages)
  IN  SubSeq(Ordered(q), (n - 1) * PageSize + 1, Least(n * PageSize, Len(Ordered(q))))

Count(k) ==
  /\ fetch[k].at = "asked"
  /\ fetch' = [fetch EXCEPT ![k] = [at |-> "counted", total |-> Cardinality(Matching(k[1].filter))]]
  /\ fresh' = fresh \cup {k}
  /\ UNCHANGED <<exists, off, query, page, cache, bounds>>

Answer(k) ==
  LET total == fetch[k].total IN
  /\ fetch[k].at = "counted"
  /\ Show([cache EXCEPT ![k] = [loaded |-> TRUE, total |-> total,
                                rows |-> ServeRows(k[1], PagesOf(total, PageSize), k[2])]],
          [fetch EXCEPT ![k] = Idle], query, page)
  /\ UNCHANGED <<exists, off, fresh, bounds>>

(* The answer is lost, or an error; what is known stays.                   *)
Fail(k) ==
  /\ fails < MaxFails
  /\ fails' = fails + 1
  /\ fetch[k].at # "idle"
  /\ fetch' = [fetch EXCEPT ![k] = Idle]
  /\ fresh' = fresh \ {k}
  /\ UNCHANGED <<exists, off, query, page, cache, moves, changes>>

Change(t) ==
  /\ changes < MaxChanges
  /\ changes' = changes + 1
  /\ t \in exists
  /\ \/ exists' = exists \ {t} /\ off' = off \ {t}
     \/ off' = (IF t \in off THEN off \ {t} ELSE off \cup {t}) /\ UNCHANGED exists
  /\ fresh' = {}
  /\ UNCHANGED <<query, page, cache, fetch, moves, fails>>

Next ==
  \/ \E f \in Filters : SetFilter(f)
  \/ \E key \in SortKeys : handleSort(key)
  \/ \E n \in Pages : GoToPage(n)
  \/ PreviousPage \/ NextPage \/ Invalidate
  \/ \E k \in Keys : Count(k) \/ Answer(k) \/ Fail(k)
  \/ \E t \in Tenants : Change(t)

Spec == Init /\ [][Next]_vars

-----------------------------------------------------------------------------
(* A list nothing has changed since it was counted, and that is not being  *)
(* read, has the number and the first rows of the filter and the order the *)
(* page shows (the query's key names all that the request depends on).     *)
QuietListFitsItsQuery ==
  LET k == Key(query, page) IN
  (Shown.loaded /\ k \in fresh /\ fetch[k] = Idle) =>
     /\ Shown.total = Cardinality(Matching(query.filter))
     /\ Shown.rows = SubSeq(Ordered(query), 1, Least(PageSize, Shown.total))

(* The reader is never on a later page that is still loading or that is    *)
(* beyond the last (the effect on currentPage and totalPages).             *)
LaterPagesAreLoaded ==
  page > 1 => Shown.loaded /\ page <= PagesOf(Shown.total, PageSize)

(* The buttons are those of the pages nearest to the one that is marked as *)
(* the current one (getVisiblePages).                                      *)
NearestPagesOffered == Nearest(pageNumbers, currentPageSafe, totalPages(cache, Key(query, page)))

(* "Showing from-to of total tenants": as many rows as that.               *)
SummaryCountsTheRows == Listed => Len(Shown.rows) = pageEnd - pageStart + 1
=============================================================================
