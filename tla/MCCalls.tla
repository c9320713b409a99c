------------------------------- MODULE MCCalls -------------------------------
(***************************************************************************)
(* Calls for TLC.                                                          *)
(***************************************************************************)
EXTENDS Calls, TLC
=============================================================================
