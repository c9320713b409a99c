------------------------------ MODULE HashOps -------------------------------
(***************************************************************************)
(* What the models of the hash part share: the size of its index           *)
(* (runtime/prelude/tables.wat).                                           *)
(***************************************************************************)
EXTENDS Integers, Sequences

CONSTANTS ShareMax,  \* $shape_share_max: keys a shared shape may have (32)
          MinIndex   \* slots of the smallest index (8)

ASSUME ShareMaxAssumption == ShareMax \in Nat
ASSUME MinIndexAssumption == MinIndex \in Nat \ {0}

(* The index for n keys has s slots: MinIndex doubled until it is at least  *)
(* 2 * (n + 1) ($shape_index, $tab_index_rebuild).                          *)
IndexSizes(n) == 1..(MinIndex + 4 * (n + 1))
IsIndexSize(n, s) ==
  /\ s >= 2 * (n + 1)
  /\ \E j \in 0..(n + 1) : /\ s = MinIndex * 2^j
                           /\ j > 0 => MinIndex * 2^(j - 1) < 2 * (n + 1)
IndexSize(n) == CHOOSE s \in IndexSizes(n) : IsIndexSize(n, s)

(* $tab_insert_owned compacts and re-indexes before an insert that would    *)
(* leave more than half of the index occupied.                              *)
HalfFull(n, slots) == 2 * (n + 1) >= slots
=============================================================================
