---------------------------- MODULE MCHashIndex -----------------------------
(***************************************************************************)
(* HashIndex for TLC: hashes that collide, that wrap past the last slot,   *)
(* and that fall apart or together as the index changes size.              *)
(***************************************************************************)
EXTENDS HashIndex, TLC

CONSTANTS a, b, c, d, e

MCKeys == {a, b, c, d, e}
MCHash == (a :> 6) @@ (b :> 7) @@ (c :> 14) @@ (d :> 0) @@ (e :> 7)
=============================================================================
