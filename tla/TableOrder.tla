----------------------------- MODULE TableOrder -----------------------------
(***************************************************************************)
(* A table with its hash part laid out as the runtime does (tables.wat):   *)
(* keys in insertion order, values beside them, deletion by clearing the   *)
(* value only, and compaction when the index fills up; and the two ways to *)
(* traverse it (baselib.wat): next(t, k), which finds its place by key,    *)
(* and $next_step, which the generic `for` uses and which carries a        *)
(* position.  During a traversal the program may do what Lua allows:       *)
(* assign to fields that are present, or clear them.                       *)
(*                                                                         *)
(* The index itself is the subject of HashIndex: here a key is found       *)
(* where it stands in the key sequence.                                    *)
(*                                                                         *)
(* A definition named X_y is a faulty variant of X, as in TableParts.      *)
(***************************************************************************)
EXTENDS LuaMapOps, HashOps, FiniteSets, SequencesExt

CONSTANTS ArrMax, InitCap   \* as in TableParts

ASSUME TableOrderAssumption == ArrMax \in Nat \ {0} /\ InitCap \in Nat \ {0}

VARIABLES arr, cap,   \* the array part, as in TableParts
          keys,       \* the shape's $keys[0..n), dead ones included
          vals,       \* the table's $vals at the same positions
          own,        \* the shape is private ($own)
          slots,      \* the index's size, $mask + 1
          mode,       \* "build"; "next" or "pairs" while traversing, then
                      \* "next ended" or "pairs ended"
          last,       \* the key a traversal returned last, Nil before the first
          pos,        \* the position a generic for carries
          seen,       \* history: the keys the traversal has returned, in order
          owed        \* history: keys present since it began, not yet returned

hashPart == <<keys, vals, own, slots>>
table == <<arr, cap, keys, vals, own, slots>>
walk == <<mode, last, pos, seen, owed>>
vars == <<arr, cap, keys, vals, own, slots, mode, last, pos, seen, owed>>

alen == Len(arr)

(* $tab_find: a key's position, 0 when it was never inserted. *)
FindIn(ks, k) == IF \E i \in 1..Len(ks) : ks[i] = k
                 THEN CHOOSE i \in 1..Len(ks) : ks[i] = k ELSE 0

HashGetIn(h, k) == LET i == FindIn(h.keys, k) IN IF i = 0 THEN Nil ELSE h.vals[i]

HashRec == [keys |-> keys, vals |-> vals, own |-> own, slots |-> slots]
HashMap == [k \in Keys |-> HashGetIn(HashRec, k)]

(* The table of TableParts that this one lays out. *)
P == INSTANCE TableParts WITH hash <- HashMap, keyed <- keys # <<>>,
                              todo <- <<>>, goal <- <<>>

Present == {k \in Keys : P!TabGet(k) # Nil}
-----------------------------------------------------------------------------
(* The hash part's operations, on [keys, vals, own, slots] records.         *)

Rebuild_valuesStay(h) ==
  LET live == SelectSeq([i \in 1..Len(h.keys) |-> i], LAMBDA i : h.vals[i] # Nil)
  IN  [h EXCEPT !.keys = [j \in 1..Len(live) |-> h.keys[live[j]]],
                !.vals = SubSeq(@, 1, Len(live)),
                !.slots = IndexSize(Len(live))]

(* $tab_index_rebuild: drop the dead entries, keeping the order. *)
Rebuild(h) ==
  LET live == SelectSeq([i \in 1..Len(h.keys) |-> i], LAMBDA i : h.vals[i] # Nil)
  IN  [h EXCEPT !.keys = [j \in 1..Len(live) |-> h.keys[live[j]]],
                !.vals = [j \in 1..Len(live) |-> h.vals[live[j]]],
                !.slots = IndexSize(Len(live))]

(* $tab_insert_owned: rebuild a half-full index, then append. *)
InsertOwned(h, k, v) ==
  LET g == IF HalfFull(Len(h.keys), h.slots) THEN Rebuild(h) ELSE h
  IN  [g EXCEPT !.keys = Append(@, k), !.vals = Append(@, v)]

(* $tab_insert_new: a shared shape moves to the child shape that adds a     *)
(* string key; any other key, or too many keys, makes the shape private.    *)
InsertNew(h, k, v) ==
  IF ~h.own /\ k \in OtherKeys /\ Len(h.keys) < ShareMax
  THEN [h EXCEPT !.keys = Append(@, k), !.vals = Append(@, v),
                 !.slots = IndexSize(Len(h.keys) + 1)]
  ELSE InsertOwned([h EXCEPT !.own = TRUE], k, v)

(* $tab_set_hash: update in place, delete by clearing the value, or insert. *)
SetHash(h, k, v) ==
  LET i == FindIn(h.keys, k)
  IN  IF i # 0 THEN [h EXCEPT !.vals[i] = v]
      ELSE IF v = Nil THEN h ELSE InsertNew(h, k, v)

HashBecomes(h) == /\ keys' = h.keys /\ vals' = h.vals
                  /\ own' = h.own /\ slots' = h.slots
-----------------------------------------------------------------------------
(* The array part's operations, on the array part of TableParts.            *)
SetSlot(k, v) ==
  LET s == [arr EXCEPT ![k] = v]
  IN  /\ IF v = Nil /\ k = alen
         THEN \E m \in 0..alen : P!TrimsTo(s, m) /\ arr' = SubSeq(s, 1, m)
         ELSE arr' = s
      /\ UNCHANGED <<cap, hashPart>>

(* $arr_append: an absorbed key stays in the key sequence, its value nil. *)
ArrAppend(v) ==
  \E n \in (alen + 1)..ArrMax, c \in P!Caps :
     /\ P!AbsorbsTo(n)
     /\ P!GrowsTo(n, c)
     /\ cap' = c
     /\ arr' = [i \in 1..n |-> IF i <= alen THEN arr[i]
                               ELSE IF i = alen + 1 THEN v ELSE HashMap[i]]
     /\ HashBecomes(FoldLeft(LAMBDA h, i : SetHash(h, alen + 1 + i, Nil), HashRec,
                             [i \in 1..(n - alen - 1) |-> i]))

(* $tab_demote: the live slots go to the hash part in key order, then the   *)
(* store that caused it.                                                    *)
Demote(k, v) ==
  LET live == SelectSeq([i \in 1..alen |-> i], LAMBDA i : arr[i] # Nil)
      spilled == FoldLeft(LAMBDA h, i : SetHash(h, i, arr[i]), HashRec, live)
  IN  /\ HashBecomes(SetHash(spilled, k, v))
      /\ arr' = <<>> /\ cap' = 0

TabSet(k, v) ==
  \/ k \in 1..alen /\ SetSlot(k, v)
  \/ /\ k = alen + 1 /\ v # Nil /\ alen < ArrMax
     /\ IF P!MostlyHoles THEN Demote(k, v) ELSE ArrAppend(v)
  \/ /\ k \notin 1..alen
     /\ k = alen + 1 => v = Nil \/ alen >= ArrMax
     /\ HashBecomes(SetHash(HashRec, k, v))
     /\ UNCHANGED <<arr, cap>>
-----------------------------------------------------------------------------
(* The positions of $next_step: the next array slot or the next hash         *)
(* position to look at (encoded there in one integer).                      *)
AtSlot(i) == [part |-> "arr", at |-> i]
AtHash(j) == [part |-> "hash", at |-> j]

FirstFrom(i, n, s) == CHOOSE j \in i..n : s[j] # Nil /\ \A l \in i..(j - 1) : s[l] = Nil
AnyFrom(i, n, s) == \E j \in i..n : s[j] # Nil

(* The entry a scan finds: array slots from i on, then hash positions from  *)
(* j on.  [found, key, after]; after is the position behind the entry.      *)
ScanHash(j) ==
  IF AnyFrom(j, Len(keys), vals)
  THEN LET p == FirstFrom(j, Len(keys), vals)
       IN  [found |-> TRUE, key |-> keys[p], after |-> AtHash(p + 1)]
  ELSE [found |-> FALSE]
ScanArray(i) ==
  IF AnyFrom(i, alen, arr)
  THEN LET p == FirstFrom(i, alen, arr)
       IN  [found |-> TRUE, key |-> p, after |-> AtSlot(p + 1)]
  ELSE ScanHash(1)

(* $next_step *)
NextStep(p) == IF p.part = "arr" THEN ScanArray(p.at) ELSE ScanHash(p.at)

(* $builtin_next: an array key resumes in the array part; a key trimmed off *)
(* its end (within the array's capacity, never inserted in the hash) goes   *)
(* on with the hash part; any other key resumes at its hash position.       *)
Trimmed(k) == k \in 1..cap /\ FindIn(keys, k) = 0
InvalidKey(k) == k # Nil /\ k \notin 1..alen /\ ~Trimmed(k) /\ FindIn(keys, k) = 0
BuiltinNext_again(k) ==
  CASE k = Nil -> ScanArray(1)
    [] k # Nil /\ k \in 1..alen -> ScanArray(k + 1)
    [] k # Nil /\ k \notin 1..alen /\ Trimmed(k) -> ScanHash(1)
    [] OTHER -> ScanHash(FindIn(keys, k))
BuiltinNext(k) ==
  CASE k = Nil -> ScanArray(1)
    [] k # Nil /\ k \in 1..alen -> ScanArray(k + 1)
    [] k # Nil /\ k \notin 1..alen /\ Trimmed(k) -> ScanHash(1)
    [] OTHER -> ScanHash(FindIn(keys, k) + 1)
-----------------------------------------------------------------------------
Init ==
  /\ \E vs \in Lists :
       LET m == CHOOSE m \in 0..Len(vs) : /\ \A i \in 1..m : vs[i] # Nil
                                          /\ m < Len(vs) => vs[m + 1] = Nil
           empty == [keys |-> <<>>, vals |-> <<>>, own |-> FALSE, slots |-> MinIndex]
           rest == SelectSeq([i \in 1..Len(vs) |-> i], LAMBDA i : i > m /\ vs[i] # Nil)
           h == FoldLeft(LAMBDA g, i : SetHash(g, i, vs[i]), empty, rest)
       IN  /\ arr = SubSeq(vs, 1, m) /\ cap = Len(vs)
           /\ keys = h.keys /\ vals = h.vals /\ own = h.own /\ slots = h.slots
  /\ mode = "build" /\ last = Nil /\ pos = AtSlot(1) /\ seen = <<>> /\ owed = {}

(* The program fills the table. *)
Store(k, v) == mode = "build" /\ TabSet(k, v) /\ UNCHANGED walk

(* while loop over next, or a generic for over pairs ($for_gen_mode 2). *)
Begin(m) == /\ mode = "build"
            /\ mode' = m
            /\ owed' = Present
            /\ UNCHANGED <<last, pos, seen, table>>

Return(r) == /\ r.found
             /\ last' = r.key
             /\ seen' = Append(seen, r.key)
             /\ owed' = owed \ {r.key}
             /\ UNCHANGED <<mode, table>>

StepByKey ==
  /\ mode = "next" /\ ~InvalidKey(last)
  /\ Return(BuiltinNext(last))
  /\ UNCHANGED pos

StepByPosition ==
  /\ mode = "pairs"
  /\ Return(NextStep(pos))
  /\ pos' = NextStep(pos).after

End ==
  /\ \/ /\ mode = "next" /\ ~InvalidKey(last) /\ ~BuiltinNext(last).found
        /\ mode' = "next ended"
     \/ /\ mode = "pairs" /\ ~NextStep(pos).found
        /\ mode' = "pairs ended"
  /\ UNCHANGED <<last, pos, seen, owed, table>>

(* "invalid key to 'next'" *)
Fails == mode = "next" /\ InvalidKey(last)

(* The loop body assigns to a present field, or clears it. *)
Touch(k, v) ==
  /\ mode \in {"next", "pairs"} /\ k \in Present
  /\ TabSet(k, v)
  /\ owed' = IF v = Nil THEN owed \ {k} ELSE owed
  /\ UNCHANGED <<mode, last, pos, seen>>

Next ==
  \/ \E k \in Keys, v \in ValOrNil : Store(k, v)
  \/ \E m \in {"next", "pairs"} : Begin(m)
  \/ StepByKey
  \/ StepByPosition
  \/ End
  \/ \E k \in Keys, v \in ValOrNil : Touch(k, v)

Spec == Init /\ [][Next]_vars

(* The table alone, without traversals. *)
SpecStores == Init /\ [][\E k \in Keys, v \in ValOrNil : Store(k, v)]_vars

(* As in TableParts: behaviours in which the array part's continuation is   *)
(* never left in the hash part.                                             *)
SpecAttached == Init /\ [][Next /\ P!Attached']_vars
-----------------------------------------------------------------------------
(* Types; values stand beside their keys; the index is at most half full,   *)
(* so a probe always meets an empty slot; a shared shape has only a few     *)
(* keys, all strings.                                                       *)
TypeOK ==
  /\ arr \in Seq(ValOrNil) /\ cap \in Nat /\ alen <= cap
  /\ keys \in Seq(Keys) /\ vals \in Seq(ValOrNil) /\ Len(keys) = Len(vals)
  /\ own \in BOOLEAN
  /\ slots \in Nat /\ 2 * Len(keys) <= slots
  /\ ~own => Len(keys) <= ShareMax /\ \A i \in 1..Len(keys) : keys[i] \in OtherKeys
  /\ mode \in {"build", "next", "pairs", "next ended", "pairs ended"}
  /\ last \in Keys \cup {Nil}
  /\ pos \in [part : {"arr", "hash"}, at : Nat \ {0}]
  /\ seen \in Seq(Keys) /\ owed \subseteq Keys

(* A key stands at one position of the hash part, dead entries included:    *)
(* a deletion, a compaction, an absorption or a demotion never makes a      *)
(* second entry for a key that still has a dead one.                        *)
KeysDistinct == \A i, j \in 1..Len(keys) : keys[i] = keys[j] => i = j

(* The laid-out table behaves as the table of TableParts: lazy deletion,    *)
(* compaction and the move from a shared to a private shape never show.     *)
ImplementsParts == P!Spec

(* A generic for over pairs that has ended has visited every field that was *)
(* present throughout, whatever fields the body assigned to or cleared      *)
(* ("stable within one traversal as long as the table is not mutated        *)
(* structurally").                                                          *)
PairsVisitsAll == mode = "pairs ended" => owed = {}

(* No traversal, by key or by position, visits a field twice. *)
VisitsOnce == \A i, j \in 1..Len(seen) : seen[i] = seen[j] => i = j

(* A while loop over next never fails on the key it was last given, even    *)
(* when that field has been cleared (the reason deletion is lazy).          *)
NextResumes == ~Fails

(* Whatever a loop body does that Lua allows, the layout stays what          *)
(* traversals rely on and both kinds of traversal are exact.                *)
TraversalsExact ==
  /\ TypeOK /\ KeysDistinct
  /\ PairsVisitsAll /\ VisitsOnce /\ NextResumes
=============================================================================
