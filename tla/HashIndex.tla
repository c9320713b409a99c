----------------------------- MODULE HashIndex ------------------------------
(***************************************************************************)
(* The open-addressing index of a table's hash part                        *)
(* (runtime/prelude/tables.wat): a power-of-two array of key positions,    *)
(* probed linearly from the slot a key's hash selects.  Deletion leaves a  *)
(* key in place (dead), so slots are never emptied; the index is rebuilt   *)
(* when an insert finds it half full.                                      *)
(*                                                                         *)
(* Keys are compared by value; how (identity, cached hash, bytes) is left  *)
(* out, and so are values.  The loops that fill a new index are taken one  *)
(* key at a time (PlaceNext); nothing else happens to the table meanwhile. *)
(* The tombstone (-1) of the probing code is left out: nothing writes one. *)
(*                                                                         *)
(* A definition named X_y is a faulty variant of X, as in TableParts.      *)
(***************************************************************************)
EXTENDS HashOps, FiniteSets

CONSTANTS Keys,     \* hash-part keys
          Strings,  \* those that are strings
          Hash      \* $lua_hash; equal keys have equal hashes

ASSUME StringsAssumption == Strings \subseteq Keys
ASSUME HashAssumption == Hash \in [Keys -> Nat]

VARIABLES keys,    \* $keys[0..n)
          live,    \* the positions whose value is not nil
          own,     \* the shape is private
          size,    \* $mask + 1
          idx,     \* slot -> position, 0 when empty
          placed   \* the first placed positions are in the index

vars == <<keys, live, own, size, idx, placed>>

SlotsOf(n) == 0..(n - 1)
Home(k) == Hash[k] % size

(* x is probed before s by a probe that starts at h. *)
Before(h, s, x) == IF h <= s THEN h <= x /\ x < s ELSE h <= x \/ x < s

(* A probe for k stops at s ($tab_find_str, $tab_index_lookup_h and their   *)
(* _probe loops): empty, or the key is there; and no slot before it is.     *)
StopsAt(k, s) == idx[s] # 0 => keys[idx[s]] = k
Probe(k, s) == /\ StopsAt(k, s)
               /\ \A x \in SlotsOf(size) : Before(Home(k), s, x) => ~StopsAt(k, x)

(* The slot a new key takes: the first empty one from its home slot. *)
FreeFrom(h, s) == /\ idx[s] = 0
                  /\ \A x \in SlotsOf(size) : Before(h, s, x) => idx[x] # 0

Idle == placed = Len(keys)
-----------------------------------------------------------------------------
Init == /\ keys = <<>> /\ live = {} /\ own = FALSE
        /\ size = MinIndex /\ idx = [s \in SlotsOf(size) |-> 0] /\ placed = 0

(* A store to a key the probe finds, and a deletion. *)
Update(k, nil) ==
  /\ Idle
  /\ \E s \in SlotsOf(size) : /\ Probe(k, s) /\ idx[s] # 0
                              /\ live' = IF nil THEN live \ {idx[s]} ELSE live \cup {idx[s]}
  /\ UNCHANGED <<keys, own, size, idx, placed>>

Absent(k) == Idle /\ \E s \in SlotsOf(size) : Probe(k, s) /\ idx[s] = 0

(* A fresh index sized for n keys, all of ks still to be placed in it. *)
FreshIndex(ks, n) ==
  \E m \in IndexSizes(n) : /\ IsIndexSize(n, m)
                           /\ size' = m
                           /\ idx' = [s \in SlotsOf(m) |-> 0]
                           /\ keys' = ks
                           /\ placed' = 0

(* $tab_insert_new, $shape_child, $shape_index: a shared shape's child gets *)
(* an index of its own.                                                     *)
Shareable(k) == ~own /\ k \in Strings /\ Len(keys) < ShareMax
InsertShared(k) ==
  /\ Absent(k) /\ Shareable(k)
  /\ FreshIndex(Append(keys, k), Len(keys) + 1)
  /\ live' = live \cup {Len(keys) + 1}
  /\ UNCHANGED own

(* $tab_insert_owned with room: the key goes into the index as it is. *)
InsertOwned(k) ==
  /\ Absent(k) /\ ~Shareable(k) /\ ~HalfFull(Len(keys), size)
  /\ keys' = Append(keys, k)
  /\ live' = live \cup {Len(keys) + 1}
  /\ own' = TRUE
  /\ UNCHANGED <<size, idx, placed>>

(* The live positions in order (one such function), and their keys and then *)
(* k.                                                                       *)
Live == Cardinality(live)
LiveOrder == {at \in [1..Live -> live] :
                \A i, j \in 1..Live : i < j => at[i] < at[j]}
Compacted(at, k) == Append([j \in 1..Live |-> keys[at[j]]], k)

Rebuild_small(k) ==
  /\ Absent(k) /\ ~Shareable(k) /\ HalfFull(Len(keys), size)
  /\ \E at \in LiveOrder : keys' = Compacted(at, k)
  /\ size' = Live + 1
  /\ idx' = [s \in SlotsOf(size') |-> 0] /\ placed' = 0
  /\ live' = 1..(Live + 1)
  /\ own' = TRUE

(* $tab_insert_owned on a half-full index: $tab_index_rebuild drops the     *)
(* dead keys and sizes the index by the live ones; then the key is added.   *)
Rebuild(k) ==
  /\ Absent(k) /\ ~Shareable(k) /\ HalfFull(Len(keys), size)
  /\ \E at \in LiveOrder : FreshIndex(Compacted(at, k), Live)
  /\ live' = 1..(Live + 1)
  /\ own' = TRUE

PlaceNext_fromZero ==
  /\ ~Idle
  /\ \E s \in SlotsOf(size) :
       /\ FreeFrom(0, s)
       /\ idx' = [idx EXCEPT ![s] = placed + 1]
  /\ placed' = placed + 1
  /\ UNCHANGED <<keys, live, own, size>>

(* The next key goes into the first empty slot of its probe path. *)
PlaceNext ==
  /\ ~Idle
  /\ \E s \in SlotsOf(size) :
       /\ FreeFrom(Home(keys[placed + 1]), s)
       /\ idx' = [idx EXCEPT ![s] = placed + 1]
  /\ placed' = placed + 1
  /\ UNCHANGED <<keys, live, own, size>>

Next ==
  \/ \E k \in Keys, nil \in BOOLEAN : Update(k, nil)
  \/ \E k \in Keys : InsertShared(k) \/ InsertOwned(k) \/ Rebuild(k)
  \/ PlaceNext

Spec == Init /\ [][Next]_vars
-----------------------------------------------------------------------------
(* Types; live positions are positions; the index refers to placed keys. *)
TypeOK ==
  /\ keys \in Seq(Keys)
  /\ live \subseteq 1..Len(keys)
  /\ own \in BOOLEAN
  /\ size \in Nat \ {0}
  /\ placed \in 0..Len(keys)
  /\ idx \in [SlotsOf(size) -> 0..placed]

(* Every probe ends: whatever the hashes, whatever was inserted and        *)
(* deleted, some slot is empty.  (The probe loops have no other bound.)     *)
EmptySlot == \E s \in SlotsOf(size) : idx[s] = 0

(* Between two operations, a probe for any key ends at one slot, and finds  *)
(* the key's position exactly when the key was inserted: no collision, wrap *)
(* or rebuild hides a key or confuses it with another.                      *)
PositionOf(k) == {p \in 1..Len(keys) : keys[p] = k}
LookupExact ==
  Idle => \A k \in Keys :
     \E s \in SlotsOf(size) : /\ Probe(k, s)
                              /\ PositionOf(k) = {idx[s]} \ {0}
=============================================================================
