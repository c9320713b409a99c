---------------------------- MODULE MCTableOrder ----------------------------
(***************************************************************************)
(* TableOrder for TLC.                                                     *)
(***************************************************************************)
EXTENDS TableOrder, TLC
=============================================================================
