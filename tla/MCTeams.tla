------------------------------ MODULE MCTeams ------------------------------
(***************************************************************************)
(* The instance of Teams for TLC.                                          *)
(***************************************************************************)
EXTENDS TeamsInvariant
=============================================================================
