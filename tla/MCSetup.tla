------------------------------- MODULE MCSetup -------------------------------
(***************************************************************************)
(* Two configured labels, two workers of the other command, two troubles.  *)
(***************************************************************************)
EXTENDS Setup
=============================================================================
