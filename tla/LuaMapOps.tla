----------------------------- MODULE LuaMapOps ------------------------------
(***************************************************************************)
(* The keys and values of the table models, and a table's content as a     *)
(* map: what the table library's operations do to it.  Keys are the        *)
(* integers 0..MaxInt (0 stands for every integer that can never be an     *)
(* array key) and OtherKeys (strings, tables, ...).                        *)
(***************************************************************************)
EXTENDS Integers, Sequences

CONSTANTS MaxInt, OtherKeys, Values, Nil, MaxList

ASSUME MaxIntAssumption == MaxInt \in Nat \ {0}
ASSUME MaxListAssumption == MaxList \in 0..MaxInt
ASSUME NilAssumption == Nil \notin Values
ASSUME OtherKeysAssumption == OtherKeys \cap Int = {}

IntKeys == 0..MaxInt
Keys == IntKeys \cup OtherKeys
ValOrNil == Values \cup {Nil}

(* The positional lists `{v1, ..., vn}` a constructor may be given. *)
Lists == UNION {[1..n -> ValOrNil] : n \in 0..MaxList}

MapOfList(vs) == [k \in Keys |-> IF k \in DOMAIN vs THEN vs[k] ELSE Nil]

GetIn(m, k) == IF k \in Keys THEN m[k] ELSE Nil

(* n is a border of m: m[n] is present (or n = 0) and m[n+1] is absent. *)
IsBorderOf(m, n) ==
  /\ n \in IntKeys
  /\ n > 0 => m[n] # Nil
  /\ GetIn(m, n + 1) = Nil

(* The map after `v` is put at `pos` and pos..n are shifted up by one. *)
Inserted(m, n, pos, v) ==
  [k \in Keys |-> IF k = pos THEN v
                  ELSE IF k \in (pos + 1)..(n + 1) THEN m[k - 1]
                  ELSE m[k]]

(* The map after pos+1..n are shifted down by one and the vacated key (n, or *)
(* pos itself when it lies past n) is cleared.                              *)
Removed(m, n, pos) ==
  [k \in Keys |-> IF k \in pos..(n - 1) THEN m[k + 1]
                  ELSE IF k = (IF pos > n THEN pos ELSE n) THEN Nil
                  ELSE m[k]]

(* The map after f..f+cnt-1 are copied to t..t+cnt-1. *)
Moved(m, f, cnt, t) ==
  [k \in Keys |-> IF k \in t..(t + cnt - 1) THEN m[f + (k - t)] ELSE m[k]]
=============================================================================
