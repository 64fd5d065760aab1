----------------------------- MODULE MCComments -----------------------------
(***************************************************************************)
(* Instances of Comments for TLC.                                          *)
(***************************************************************************)
EXTENDS Comments, TLC

\* The second page of size one.
OnePage == {[page |-> 2, per |-> 1]}

Symmetry == Permutations(Slot) \cup Permutations(Comment) \cup Permutations(Task) \cup Permutations(Body) \cup Permutations(User)
=============================================================================
