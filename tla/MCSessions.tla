----------------------------- MODULE MCSessions -----------------------------
(***************************************************************************)
(* Instances of Sessions for TLC.                                          *)
(***************************************************************************)
EXTENDS Sessions, TLC

Symmetry == Permutations(Slot) \cup Permutations(User) \cup Permutations(Email)
            \cup Permutations(Password) \cup Permutations(Team)
=============================================================================
