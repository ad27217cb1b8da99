------------------------------- MODULE Paging -------------------------------
(***************************************************************************)
(* The arithmetic of the pages of the tenant list: the page numbers the    *)
(* administration page offers (admin-page.tsx), and the page the server    *)
(* makes of the one it is asked for (handlers_admin.go).                   *)
(***************************************************************************)
EXTENDS Integers, FiniteSets

Least(a, b)   == IF a <= b THEN a ELSE b
Largest(a, b) == IF a <= b THEN b ELSE a

(* Mutant: the window stops moving a page too early.                       *)
getVisiblePagesLate(currentPage, totalPages) ==
  LET first == IF totalPages <= 5 \/ currentPage <= 3 THEN 1
               ELSE IF currentPage >= totalPages - 3 THEN totalPages - 4
               ELSE currentPage - 2
  IN  first .. Least(totalPages, first + 4)

(* The numbers of the buttons, in ascending order: all pages, the first    *)
(* five, the last five, or two on either side of the current one.          *)
getVisiblePages(currentPage, totalPages) ==
  LET first == IF totalPages <= 5 \/ currentPage <= 3 THEN 1
               ELSE IF currentPage >= totalPages - 2 THEN totalPages - 4
               ELSE currentPage - 2
  IN  first .. Least(totalPages, first + 4)

(* A number of the query string: the default unless it is positive, and no *)
(* more than the maximum, if there is one.                                 *)
parsePositiveIntQuery(value, defaultValue, maxValue) ==
  IF value <= 0 THEN defaultValue
  ELSE IF maxValue > 0 /\ value > maxValue THEN maxValue
  ELSE value

PagesOf(total, pageSize) == IF total > 0 THEN (total + pageSize - 1) \div pageSize ELSE 1

(* parseAdminTenantListParams reads "page" with the default 1 and the      *)
(* maximum 1; handleAdminListTenants goes no further than the last page.   *)
ServedPage(page, totalPages) == Least(parsePositiveIntQuery(page, 1, 1), totalPages)

-----------------------------------------------------------------------------
(* What the buttons are to be: the current page, its neighbours, at most   *)
(* five, all pages when there are no more than five, and none left out     *)
(* that is nearer than one that is offered.                                *)
Nearest(offered, currentPage, totalPages) ==
  /\ {currentPage - 1, currentPage, currentPage + 1} \cap (1 .. totalPages) \subseteq offered
  /\ offered \subseteq 1 .. totalPages
  /\ Cardinality(offered) = Least(5, totalPages)
  /\ \A n \in offered, m \in (1 .. totalPages) \ offered :
       Largest(n - currentPage, currentPage - n) <= Largest(m - currentPage, currentPage - m)
=============================================================================
