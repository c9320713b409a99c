------------------------------ MODULE MCAlloc ------------------------------
(***************************************************************************)
(* Alloc for TLC: requests of the least block, of one just above and of a    *)
(* large one, so that a remainder may or may not become a block, and one so  *)
(* close to the address space that malloc refuses it.                       *)
(***************************************************************************)
EXTENDS Alloc

(* The hypothesis of the theorems holds of this instance. *)
ASSUME RequestsFit == NoWrap
=============================================================================
