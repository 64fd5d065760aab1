------------------------------- MODULE MCMail -------------------------------
(***************************************************************************)
(* The instance of Mail for TLC.                                           *)
(***************************************************************************)
EXTENDS Mail
=============================================================================
