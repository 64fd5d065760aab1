---------------------------- MODULE MCTaskLists -----------------------------
(***************************************************************************)
(* Instances of TaskLists for TLC.                                         *)
(***************************************************************************)
EXTENDS TaskLists, TLC

CONSTANTS ann, eve, team

Users == {ann, eve}

\* The first two pages of the whole list, and the first of one assignee's tasks.
Lists == { [team |-> team, status |-> None, assignee |-> None, page |-> 0, per |-> 0],
           [team |-> team, status |-> None, assignee |-> None, page |-> 2, per |-> 1],
           [team |-> team, status |-> None, assignee |-> ann, page |-> 1, per |-> 1] }

\* One list, for the run about time.
OneList == { [team |-> team, status |-> "todo", assignee |-> None, page |-> 0, per |-> 0] }

Symmetry == Permutations(Slot) \cup Permutations(Task)
=============================================================================
