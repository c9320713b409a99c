----------------------------- MODULE TableParts -----------------------------
(***************************************************************************)
(* The two-part storage of a $LuaTable (runtime/prelude/tables.wat): an    *)
(* array part holding the keys 1..alen, holes allowed, and a hash part for *)
(* every other key; and the table library operations that work on the      *)
(* array part directly (runtime/prelude/tablib.wat).                       *)
(*                                                                         *)
(* Abstractions.  The hash part is the map it implements (its ordered      *)
(* keys, lazy deletion and index are the subject of TableOrder and         *)
(* HashIndex).  $arr is the sequence of its first $alen slots; the slots   *)
(* from $alen to the capacity are never read.  No metatable: every access  *)
(* is raw.                                                                 *)
(*                                                                         *)
(* A definition named X_y is a faulty variant of X: with it in X's place,  *)
(* a property of this module fails (README, "Mutants").                    *)
(***************************************************************************)
EXTENDS LuaMapOps, FiniteSets

CONSTANTS ArrMax,   \* $arr_max: appends past this length go to the hash part
          InitCap   \* the capacity $arr_ensure gives a first array

ASSUME ArrMaxAssumption == ArrMax \in Nat \ {0}
ASSUME InitCapAssumption == InitCap \in Nat \ {0}

VARIABLES arr,    \* $arr[0..alen): the array part
          cap,    \* array.len of $arr, 0 when $arr is null
          hash,   \* the hash part as a map
          keyed,  \* the shape has keys ($n > 0), dead ones included
          todo,   \* element stores left in a running table-library loop
          goal    \* history: the content the running loop has to end with, or NoGoal

parts == <<arr, cap, hash, keyed>>
vars == <<arr, cap, hash, keyed, todo, goal>>

alen == Len(arr)
HashGet(k) == GetIn(hash, k)

(* $tab_get_raw: the array part in range, else the hash part. *)
TabGet(k) == IF k \in 1..alen THEN arr[k] ELSE HashGet(k)

(* The table as a map: what raw reads return. *)
Content == [k \in Keys |-> TabGet(k)]

NoGoal == <<>>

TabLen_past(n) ==
  IF \A k \in Keys : hash[k] = Nil THEN n = alen
  ELSE /\ n \in (alen + 1)..MaxInt
       /\ \A i \in (alen + 1)..(n - 1) : HashGet(i) # Nil
       /\ HashGet(n) = Nil

(* $tab_len returns n: alen unless the hash part continues the sequence,    *)
(* else the end of the run of hash keys after it.                           *)
TabLen(n) ==
  /\ n \in alen..MaxInt
  /\ \A i \in (alen + 1)..n : HashGet(i) # Nil
  /\ HashGet(n + 1) = Nil
-----------------------------------------------------------------------------
(* $arr_ensure, called for need = alen+1, ..., n: the first array gets      *)
(* InitCap slots, a full one is doubled until it holds n.                   *)
GrowsTo(n, c) ==
  LET base == IF cap = 0 THEN InitCap ELSE cap
  IN  /\ c >= n
      /\ \E j \in 0..n : /\ c = base * 2^j
                         /\ j > 0 => base * 2^(j - 1) < n

(* The capacities $arr_ensure may reach within the model's bounds. *)
Caps == 1..(cap + InitCap + 2 * MaxInt + 2)

(* $arr_trim: s without its trailing holes is its prefix of length m. *)
TrimsTo(s, m) ==
  /\ m > 0 => s[m] # Nil
  /\ \A i \in (m + 1)..Len(s) : s[i] = Nil

(* $arr_holes, and the test that makes $arr_append give the array part up. *)
Holes == {i \in 1..alen : arr[i] = Nil}
MostlyHoles == cap > 0 /\ alen >= cap /\ 2 * Cardinality(Holes) > alen

(* The absorb loop $mig of $arr_append stops at n: every hash key from the  *)
(* one after the appended key up to n is present, and n + 1 is not (or the  *)
(* array part is at its limit).                                             *)
AbsorbsTo(n) ==
  /\ \A i \in (alen + 2)..n : HashGet(i) # Nil
  /\ n < ArrMax => HashGet(n + 1) = Nil
-----------------------------------------------------------------------------
(* Initial states: the constructors.  `{}` ($tab_new), `{v1, ..., vn}`      *)
(* ($tab_new_arr: the values before the first nil are the array part, which *)
(* keeps the constructor's array; $tab_new_arr_rest puts the others in the  *)
(* hash part), and table.create, which only reserves capacity.              *)
NewList(vs) ==
  \E m \in 0..Len(vs) :
     /\ \A i \in 1..m : vs[i] # Nil
     /\ m < Len(vs) => vs[m + 1] = Nil
     /\ arr = SubSeq(vs, 1, m)
     /\ hash = [k \in Keys |-> IF k \in (m + 2)..Len(vs) THEN vs[k] ELSE Nil]
     /\ keyed = (\E k \in (m + 2)..Len(vs) : vs[k] # Nil)

Reserved(nseq) ==
  IF nseq = 0 THEN 0 ELSE IF nseq > InitCap THEN nseq ELSE InitCap

Init ==
  /\ \E vs \in Lists :
       /\ NewList(vs)
       /\ IF vs = <<>> THEN cap \in {Reserved(nseq) : nseq \in 0..MaxList}
                       ELSE cap = Len(vs)
  /\ todo = <<>>
  /\ goal = NoGoal
-----------------------------------------------------------------------------
(* $tab_set_hash *)
SetHash(k, v) == /\ hash' = [hash EXCEPT ![k] = v]
                 /\ keyed' = (keyed \/ v # Nil)
                 /\ UNCHANGED <<arr, cap>>

(* $tab_set_arr, key in range: store into the slot; a nil in the last one   *)
(* also trims.                                                              *)
SetSlot(k, v) ==
  LET s == [arr EXCEPT ![k] = v]
  IN  /\ IF v = Nil /\ k = alen
         THEN \E m \in 0..alen : TrimsTo(s, m) /\ arr' = SubSeq(s, 1, m)
         ELSE arr' = s
      /\ UNCHANGED <<cap, hash, keyed>>

ArrAppend_keepsHash(v) ==
  \E n \in (alen + 1)..ArrMax, c \in Caps :
     /\ AbsorbsTo(n) /\ GrowsTo(n, c) /\ cap' = c
     /\ arr' = [i \in 1..n |-> IF i <= alen THEN arr[i]
                               ELSE IF i = alen + 1 THEN v ELSE hash[i]]
     /\ UNCHANGED <<hash, keyed>>

(* $arr_append when it succeeds: v becomes slot alen+1, then the hash keys  *)
(* that continue the sequence move over.                                    *)
ArrAppend(v) ==
  \E n \in (alen + 1)..ArrMax, c \in Caps :
     /\ AbsorbsTo(n)
     /\ GrowsTo(n, c)
     /\ cap' = c
     /\ arr' = [i \in 1..n |-> IF i <= alen THEN arr[i]
                               ELSE IF i = alen + 1 THEN v ELSE hash[i]]
     /\ hash' = [k \in Keys |-> IF k \in (alen + 2)..n THEN Nil ELSE hash[k]]
     /\ UNCHANGED keyed

Demote_dropsStore(k, v) ==
  /\ hash' = [x \in Keys |-> IF x \in 1..alen /\ arr[x] # Nil THEN arr[x] ELSE hash[x]]
  /\ arr' = <<>> /\ cap' = 0 /\ keyed' = TRUE

(* $tab_demote, then the store that caused it: $arr_append returned 0, so   *)
(* $tab_set goes on to $tab_set_hash.                                       *)
Demote(k, v) ==
  /\ hash' = [x \in Keys |-> IF x = k THEN v
                             ELSE IF x \in 1..alen /\ arr[x] # Nil THEN arr[x]
                             ELSE hash[x]]
  /\ arr' = <<>>
  /\ cap' = 0
  /\ keyed' = TRUE

(* $tab_set and $tab_set_ik: t[k] = v. *)
TabSet(k, v) ==
  \/ k \in 1..alen /\ SetSlot(k, v)
  \/ /\ k = alen + 1 /\ v # Nil /\ alen < ArrMax
     /\ IF MostlyHoles THEN Demote(k, v) ELSE ArrAppend(v)
  \/ /\ k \notin 1..alen
     /\ k = alen + 1 => v = Nil \/ alen >= ArrMax
     /\ SetHash(k, v)
-----------------------------------------------------------------------------
Idle == todo = <<>>

(* A program's store t[k] = v (rawset, or `=` without a metatable). *)
Store(k, v) == Idle /\ TabSet(k, v) /\ UNCHANGED <<todo, goal>>

InlineAppend_fallsThrough(v) ==
  /\ Idle
  /\ v # Nil /\ ~keyed /\ alen + 1 < cap /\ alen + 1 < MaxInt
  /\ arr' = arr \o <<v, v>>
  /\ UNCHANGED <<cap, hash, keyed, todo, goal>>

(* The append codegen emits inline (emit_ix_set, $lua_tabset_ik_miss): taken *)
(* when $arr_append_blocked finds no hash keys and room in the array.        *)
InlineAppend(v) ==
  /\ Idle
  /\ v # Nil /\ ~keyed /\ alen < cap /\ alen < MaxInt
  /\ arr' = Append(arr, v)
  /\ UNCHANGED <<cap, hash, keyed, todo, goal>>

(* One element store of a table-library loop: t[to] = t[from], or a given   *)
(* value when from is NoKey.                                                *)
NoKey == -1
ElemOp == [to : IntKeys, from : IntKeys \cup {NoKey}, val : ValOrNil]
Copy(to, from) == [to |-> to, from |-> from, val |-> Nil]
Put(to, v) == [to |-> to, from |-> NoKey, val |-> v]

StartLoop(ops, content) == /\ todo' = ops
                           /\ goal' = content
                           /\ UNCHANGED parts

LoopStep ==
  /\ todo # <<>>
  /\ LET op == Head(todo)
     IN  TabSet(op.to, IF op.from = NoKey THEN op.val ELSE TabGet(op.from))
  /\ todo' = Tail(todo)
  /\ goal' = IF Tail(todo) = <<>> THEN NoGoal ELSE goal

(* table.insert(t, pos, v) ($builtin_table_insert).  Fast path, when the    *)
(* sequence is exactly the array part: one memmove, and nothing is absorbed. *)
TableInsertFast(n, pos, v) ==
  /\ n = alen /\ v # Nil
  /\ \E c \in Caps : GrowsTo(alen + 1, c) /\ cap' = c
  /\ arr' = [i \in 1..(n + 1) |-> IF i < pos THEN arr[i]
                                  ELSE IF i = pos THEN v ELSE arr[i - 1]]
  /\ UNCHANGED <<hash, keyed, todo, goal>>

(* Otherwise the element-wise loop, from the top down. *)
TableInsertLoop(n, pos, v) ==
  /\ n # alen \/ v = Nil
  /\ StartLoop([i \in 1..(n - pos + 1) |-> Copy(n - i + 2, n - i + 1)]
                 \o <<Put(pos, v)>>,
               Inserted(Content, n, pos, v))

TableInsert(pos, v) ==
  \E n \in 0..(MaxInt - 1) :
     /\ Idle
     /\ TabLen(n)
     /\ pos \in 1..(n + 1)
     /\ TableInsertFast(n, pos, v) \/ TableInsertLoop(n, pos, v)

(* table.insert(t, v) ($table_append): t[#t + 1] = v. *)
TableAppend(v) ==
  \E n \in 0..(MaxInt - 1) : TabLen(n) /\ Store(n + 1, v)

(* table.remove(t, pos) ($builtin_table_remove).  Fast path: one memmove,   *)
(* then the part shrinks and is trimmed.                                    *)
TableRemoveFast(n, pos) ==
  /\ n = alen /\ pos \in 1..n
  /\ LET s == [i \in 1..(n - 1) |-> IF i < pos THEN arr[i] ELSE arr[i + 1]]
     IN  \E m \in 0..(n - 1) : TrimsTo(s, m) /\ arr' = SubSeq(s, 1, m)
  /\ UNCHANGED <<cap, hash, keyed, todo, goal>>

TableRemoveLoop(n, pos) ==
  /\ n # alen \/ pos \notin 1..n
  /\ StartLoop([i \in 1..(n - pos) |-> Copy(pos + i - 1, pos + i)]
                 \o <<Put(IF pos > n THEN pos ELSE n, Nil)>>,
               Removed(Content, n, pos))

TableRemove(pos) ==
  \E n \in 0..MaxInt :
     /\ Idle
     /\ TabLen(n)
     /\ pos = n \/ pos \in 1..(n + 1)
     /\ TableRemoveFast(n, pos) \/ TableRemoveLoop(n, pos)

(* table.move(t, f, f+cnt-1, t) within one table ($builtin_table_move): one *)
(* memmove when both ranges lie in the array part, else a loop whose        *)
(* direction keeps an overlap intact.                                       *)
TableMoveFast(f, cnt, t) ==
  /\ f + cnt - 1 <= alen /\ t + cnt - 1 <= alen /\ t # f
  /\ LET s == [i \in 1..alen |-> IF i \in t..(t + cnt - 1)
                                 THEN arr[f + (i - t)] ELSE arr[i]]
     IN  \E m \in 0..alen : TrimsTo(s, m) /\ arr' = SubSeq(s, 1, m)
  /\ UNCHANGED <<cap, hash, keyed, todo, goal>>

TableMoveLoop_upward(f, cnt, t) ==
  /\ f + cnt - 1 > alen \/ t + cnt - 1 > alen \/ t = f
  /\ StartLoop([i \in 1..cnt |-> Copy(t + i - 1, f + i - 1)],
               Moved(Content, f, cnt, t))

TableMoveLoop(f, cnt, t) ==
  /\ f + cnt - 1 > alen \/ t + cnt - 1 > alen \/ t = f
  /\ StartLoop([i \in 1..cnt |->
                  LET j == IF t > f THEN cnt - i ELSE i - 1
                  IN  Copy(t + j, f + j)],
               Moved(Content, f, cnt, t))

TableMove(f, cnt, t) ==
  /\ Idle
  /\ f + cnt - 1 <= MaxInt /\ t + cnt - 1 <= MaxInt
  /\ TableMoveFast(f, cnt, t) \/ TableMoveLoop(f, cnt, t)

Next ==
  \/ \E k \in Keys, v \in ValOrNil : Store(k, v)
  \/ \E v \in ValOrNil : InlineAppend(v)
  \/ \E v \in ValOrNil : TableAppend(v)
  \/ \E pos \in 1..MaxInt, v \in ValOrNil : TableInsert(pos, v)
  \/ \E pos \in IntKeys : TableRemove(pos)
  \/ \E f, cnt, t \in 1..MaxInt : TableMove(f, cnt, t)
  \/ LoopStep

Spec == Init /\ [][Next]_vars

(* Programs that use no table-library operation. *)
SpecStores ==
  Init /\ [][\E k \in Keys, v \in ValOrNil : Store(k, v)]_vars
-----------------------------------------------------------------------------
(* The array part's continuation is never left in the hash part: below the  *)
(* limit, key alen+1 is absent from it.  $tab_demote (when t[1] is present) *)
(* and table.insert's memmove break this; SpecAttached are the behaviours   *)
(* in which no call has.                                                    *)
Attached == alen < ArrMax => HashGet(alen + 1) = Nil

SpecAttached == Init /\ [][Next /\ Attached']_vars

PartsOK ==
  /\ arr \in Seq(ValOrNil)
  /\ cap \in Nat
  /\ alen <= cap /\ alen <= MaxInt
  /\ hash \in [Keys -> ValOrNil]
  /\ keyed \in BOOLEAN
  /\ ~keyed => \A k \in Keys : hash[k] = Nil

(* Types; the array part fits its array; a shape without keys holds nothing. *)
TypeOK ==
  /\ PartsOK
  /\ todo \in Seq(ElemOp)
  /\ goal = NoGoal \/ goal \in [Keys -> ValOrNil]

(* The last slot of the array part is never nil ($arr_trim's comment), which *)
(* is what lets #t be read off without a scan.  Every path that stores nil,  *)
(* shifts or copies slots has to restore it.                                *)
LastSlotLive == alen > 0 => arr[alen] # Nil

(* $tab_len always has an answer, and the answer is a border of the table.  *)
LenIsBorder ==
  /\ \E n \in IntKeys : TabLen(n)
  /\ \A n \in IntKeys : TabLen(n) => IsBorderOf(Content, n)

(* No key is present in both parts: "integer keys 1..$alen in the array     *)
(* part, everything else in the hash".  A hash entry under an array key is  *)
(* invisible until the array slot is trimmed, and then comes back.          *)
PartsDisjoint == \A k \in 1..alen : HashGet(k) = Nil

(* The table is a map: every store, insert, remove and move changes the     *)
(* content as LuaMap says and nothing else does.                            *)
M == INSTANCE LuaMap WITH map <- Content
ImplementsMap == M!Spec

(* What a call stands for is what reads see after it: a store is not lost,  *)
(* and each memmove shifts or copies exactly its range, although the call   *)
(* may trim, absorb, grow or demote on the way.                             *)
CallsTakeEffect ==
  [][/\ \A k \in Keys, v \in ValOrNil :
          Store(k, v) => Content' = [Content EXCEPT ![k] = v]
     /\ \A n \in 0..(MaxInt - 1), v \in ValOrNil : \A pos \in 1..(n + 1) :
          TabLen(n) /\ TableInsertFast(n, pos, v) => Content' = Inserted(Content, n, pos, v)
     /\ \A n \in 0..MaxInt, pos \in IntKeys :
          TableRemoveFast(n, pos) => Content' = Removed(Content, n, pos)
     /\ \A f, cnt, t \in 1..MaxInt :
          TableMoveFast(f, cnt, t) => Content' = Moved(Content, f, cnt, t)]_vars

(* An element-wise library loop ends with the content the call stands for,  *)
(* although the stores in it trim, absorb and demote as they go.            *)
LoopMeetsGoal == [][LoopStep /\ todo' = <<>> => Content' = goal]_vars
=============================================================================
