---------------------------- MODULE MCTableParts ----------------------------
(***************************************************************************)
(* TableParts for TLC.  Values are interchangeable.                        *)
(***************************************************************************)
EXTENDS TableParts, TLC

ValueSymmetry == Permutations(Values)
=============================================================================
