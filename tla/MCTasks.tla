------------------------------ MODULE MCTasks ------------------------------
(***************************************************************************)
(* Instances of Tasks for TLC.                                             *)
(***************************************************************************)
EXTENDS Tasks, TLC

CONSTANTS ann, bob   \* two users
CONSTANTS titleA, titleB   \* two titles

Users == {ann, bob}

\* A request body: the fields it names; the others are absent.
Body(named) == [f \in Field |-> IF f \in DOMAIN named THEN named[f] ELSE None]

\* A draft for nobody, and one for bob that is created done.
Drafts == { Body([title |-> titleA]),
            Body([title |-> titleA, status |-> "done", assignee_id |-> bob]) }

\* Edits that overlap in one field and differ in another, that close, reopen,
\* assign and, made twice, change nothing.
Patches == { Body([title |-> titleB, assignee_id |-> bob]),
             Body([title |-> titleA, status |-> "done"]),
             Body([status |-> "todo"]) }

\* Fewer of both, for the runs about waiting and about time.
PlainDraft   == { Body([title |-> titleA]) }
AssignPatch  == { Body([title |-> titleB, assignee_id |-> ann]) }
ClosePatches == { Body([status |-> "done"]), Body([title |-> titleB]) }

Symmetry == Permutations(Slot)
=============================================================================
