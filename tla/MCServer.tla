------------------------------ MODULE MCServer ------------------------------
(***************************************************************************)
(* The instance of Server, with its rate limiter, for TLC.                 *)
(***************************************************************************)
EXTENDS Server
=============================================================================
