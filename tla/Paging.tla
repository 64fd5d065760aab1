------------------------------- MODULE Paging -------------------------------
(***************************************************************************)
(* Pages of a list, as the task and comment lists cut them: the service    *)
(* normalises the page number and size, the repository asks for the rows   *)
(* with ORDER BY, LIMIT and OFFSET.                                        *)
(***************************************************************************)
EXTENDS Naturals, FiniteSets, FiniteSetsExt

CONSTANTS DefaultPer, MaxPer   \* page sizes: when none is asked for, at most

ASSUME PagingAssumption == DefaultPer \in Nat \ {0} /\ MaxPer \in Nat \ {0}

\* normalizePagination; 0 is a parameter the request does not have.
NormalPage(page) == IF page = 0 THEN 1 ELSE page
NormalPer(per)   == IF per = 0 THEN DefaultPer ELSE Min({per, MaxPer})

Offset(page, per) == (NormalPage(page) - 1) * NormalPer(per)

\* Every answer the database may give: `earlier' is the strict order of the
\* sort key, rows with equal keys come in any order.
PagesOf(rows, earlier, page, per) ==
    LET skipped == Min({Offset(page, per), Cardinality(rows)})
        size    == Min({NormalPer(per), Cardinality(rows) - skipped})
    IN  {p \in SUBSET rows :
           /\ Cardinality(p) = size
           /\ \E b \in SUBSET (rows \ p) :
                /\ Cardinality(b) = skipped
                /\ \A x \in b, y \in rows \ b : <<y, x>> \notin earlier
                /\ \A x \in p, y \in rows \ (b \cup p) : <<y, x>> \notin earlier}
=============================================================================
