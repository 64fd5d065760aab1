----------------------------- MODULE MCReports -----------------------------
(***************************************************************************)
(* The instance of Reports for TLC.                                        *)
(***************************************************************************)
EXTENDS Reports

Symmetry == Permutations(User) \cup Permutations(Team) \cup Permutations(Task)
=============================================================================
