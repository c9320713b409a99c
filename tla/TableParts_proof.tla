-------------------------- MODULE TableParts_proof --------------------------
(***************************************************************************)
(* Theorems about TableParts, for every number of keys, every value set,   *)
(* every array limit and initial capacity.                                 *)
(***************************************************************************)
EXTENDS TableParts, WellFoundedInduction, TLAPS

USE MaxIntAssumption, MaxListAssumption, NilAssumption, OtherKeysAssumption,
    ArrMaxAssumption, InitCapAssumption

(* Integer keys are keys, and the only integers among the keys. *)
LEMMA IntKeysAreKeys ==
  /\ \A k \in IntKeys : k \in Keys
  /\ \A k \in Int : k \in Keys <=> k \in 0..MaxInt
BY DEF IntKeys, Keys

(* A prefix of a sequence of values is one, slot by slot. *)
LEMMA PrefixType ==
  ASSUME NEW s \in Seq(ValOrNil), NEW m \in 0..Len(s)
  PROVE  /\ SubSeq(s, 1, m) \in Seq(ValOrNil)
         /\ Len(SubSeq(s, 1, m)) = m
         /\ \A i \in 1..m : SubSeq(s, 1, m)[i] = s[i]
OBVIOUS

(* A function on 1..n with values in S is a sequence over S. *)
LEMMA FcnIsSeq ==
  ASSUME NEW S, NEW n \in Nat, NEW f \in [1..n -> S]
  PROVE  f \in Seq(S) /\ Len(f) = n
OBVIOUS

(* Reads return values. *)
LEMMA TabGetType ==
  ASSUME PartsOK, NEW k
  PROVE  TabGet(k) \in ValOrNil
BY DEF PartsOK, TabGet, HashGet, GetIn, ValOrNil, alen

(* $arr_ensure makes the room asked for. *)
LEMMA GrownCapacity ==
  ASSUME PartsOK, NEW n, NEW c \in Caps, GrowsTo(n, c)
  PROVE  c \in Nat /\ c >= n
<1>1. c >= n
  BY Zenon DEF GrowsTo
<1>2. c \in Nat
  BY DEF Caps, PartsOK
<1>. QED
  BY <1>1, <1>2

(* $tab_set keeps the parts well formed. *)
LEMMA SetSlotType ==
  ASSUME PartsOK, NEW k \in 1..alen, NEW v \in ValOrNil, SetSlot(k, v)
  PROVE  PartsOK' /\ (LastSlotLive => LastSlotLive')
<1> DEFINE s == [arr EXCEPT ![k] = v]
<1>1. s \in Seq(ValOrNil) /\ Len(s) = alen /\ \A i \in 1..alen : s[i] = IF i = k THEN v ELSE arr[i]
  BY DEF PartsOK, alen
<1>. HIDE DEF s
<1>2. CASE v = Nil /\ k = alen
  <2>1. PICK m \in 0..alen : TrimsTo(s, m) /\ arr' = SubSeq(s, 1, m)
    BY <1>2 DEF SetSlot, s
  <2>2. arr' \in Seq(ValOrNil) /\ Len(arr') = m /\ \A i \in 1..m : arr'[i] = s[i]
    BY <2>1, <1>1, PrefixType
  <2>3. m \in Nat /\ m <= alen
    BY DEF PartsOK, alen
  <2>. QED
    BY <2>1, <2>2, <2>3 DEF PartsOK, LastSlotLive, TrimsTo, SetSlot, alen
<1>3. CASE v # Nil \/ k # alen
  <2>1. arr' = s /\ UNCHANGED <<cap, hash, keyed>>
    BY <1>3 DEF SetSlot, s
  <2>2. LastSlotLive => LastSlotLive'
    BY <1>1, <1>3, <2>1 DEF PartsOK, LastSlotLive, alen
  <2>. QED
    BY <1>1, <2>1, <2>2 DEF PartsOK, alen
<1>. QED
  BY <1>2, <1>3

(* An append, with what it absorbs, stays within the keys and the capacity. *)
LEMMA ArrAppendType ==
  ASSUME PartsOK, alen + 1 \in Keys, NEW v \in Values, ArrAppend(v)
  PROVE  PartsOK' /\ LastSlotLive'
<1>1. PICK n \in (alen + 1)..ArrMax, c \in Caps :
         /\ AbsorbsTo(n)
         /\ GrowsTo(n, c)
         /\ cap' = c
         /\ arr' = [i \in 1..n |-> IF i <= alen THEN arr[i]
                                   ELSE IF i = alen + 1 THEN v ELSE hash[i]]
         /\ hash' = [k \in Keys |-> IF k \in (alen + 2)..n THEN Nil ELSE hash[k]]
         /\ UNCHANGED keyed
  BY DEF ArrAppend
<1>2. alen \in Nat /\ n \in Nat /\ n >= alen + 1
  BY DEF PartsOK, alen
<1>3. \A i \in (alen + 2)..n : i \in Keys /\ i \in 0..MaxInt /\ hash[i] \in Values
  BY <1>1, <1>2, IntKeysAreKeys DEF AbsorbsTo, HashGet, GetIn, PartsOK, ValOrNil
<1>4. n <= MaxInt
  BY <1>2, <1>3, IntKeysAreKeys
<1>5. \A i \in 1..n : arr'[i] \in ValOrNil
  <2>1. \A i \in 1..alen : arr[i] \in ValOrNil
    BY DEF PartsOK, alen
  <2>2. \A i \in 1..n : arr'[i] = IF i <= alen THEN arr[i]
                                  ELSE IF i = alen + 1 THEN v ELSE hash[i]
    BY <1>1
  <2>. QED
    BY <2>1, <2>2, <1>2, <1>3 DEF ValOrNil
<1>6. arr' \in Seq(ValOrNil) /\ Len(arr') = n
  <2>1. arr' \in [1..n -> ValOrNil]
    BY <1>1, <1>5
  <2>. QED
    BY <2>1, <1>2, FcnIsSeq
<1>7. c \in Nat /\ c >= n
  BY <1>1, GrownCapacity
<1>8. hash' \in [Keys -> ValOrNil]
  BY <1>1 DEF PartsOK, ValOrNil
<1>9. arr'[n] # Nil
  BY <1>1, <1>2, <1>3
<1>10. ~keyed' => \A k \in Keys : hash'[k] = Nil
  BY <1>1 DEF PartsOK
<1>. QED
  BY <1>1, <1>4, <1>6, <1>7, <1>8, <1>9, <1>10 DEF PartsOK, LastSlotLive, alen

(* A demotion leaves an empty array part. *)
LEMMA DemoteType ==
  ASSUME PartsOK, NEW k \in Keys, NEW v \in ValOrNil, Demote(k, v)
  PROVE  PartsOK' /\ LastSlotLive'
<1>1. hash' \in [Keys -> ValOrNil]
  BY DEF Demote, PartsOK, alen
<1>2. arr' \in Seq(ValOrNil) /\ Len(arr') = 0
  BY DEF Demote
<1>. QED
  BY <1>1, <1>2 DEF Demote, PartsOK, LastSlotLive, alen

(* Every path of $tab_set keeps the parts well formed and the last slot live. *)
LEMMA TabSetType ==
  ASSUME PartsOK, NEW k \in Keys, NEW v \in ValOrNil, TabSet(k, v)
  PROVE  PartsOK' /\ (LastSlotLive => LastSlotLive')
<1>1. CASE k \in 1..alen /\ SetSlot(k, v)
  BY <1>1, SetSlotType
<1>2. CASE k = alen + 1 /\ v # Nil /\ MostlyHoles /\ Demote(k, v)
  BY <1>2, DemoteType
<1>3. CASE k = alen + 1 /\ v # Nil /\ ArrAppend(v)
  <2>1. v \in Values
    BY <1>3 DEF ValOrNil
  <2>. QED
    BY <1>3, <2>1, ArrAppendType
<1>4. CASE SetHash(k, v)
  BY <1>4 DEF SetHash, PartsOK, LastSlotLive, ValOrNil, alen
<1>. QED
  BY <1>1, <1>2, <1>3, <1>4 DEF TabSet
-----------------------------------------------------------------------------
(* The inductive invariant: types and the live last slot together.          *)
IInv == TypeOK /\ LastSlotLive

(* The constructors establish the invariant. *)
LEMMA InitIInv == Init => IInv
<1>. SUFFICES ASSUME Init PROVE IInv
  OBVIOUS
<1>1. PICK vs \in Lists :
         /\ NewList(vs)
         /\ IF vs = <<>> THEN cap \in {Reserved(nseq) : nseq \in 0..MaxList}
                         ELSE cap = Len(vs)
  BY DEF Init
<1>2. PICK l \in 0..MaxList : vs \in [1..l -> ValOrNil]
  BY DEF Lists
<1>3. vs \in Seq(ValOrNil) /\ Len(vs) = l /\ l \in Nat /\ l <= MaxInt
  BY <1>2, FcnIsSeq
<1>4. PICK m \in 0..Len(vs) :
         /\ \A i \in 1..m : vs[i] # Nil
         /\ m < Len(vs) => vs[m + 1] = Nil
         /\ arr = SubSeq(vs, 1, m)
         /\ hash = [k \in Keys |-> IF k \in (m + 2)..Len(vs) THEN vs[k] ELSE Nil]
         /\ keyed = (\E k \in (m + 2)..Len(vs) : vs[k] # Nil)
  BY <1>1 DEF NewList
<1>5. arr \in Seq(ValOrNil) /\ Len(arr) = m /\ \A i \in 1..m : arr[i] = vs[i]
  BY <1>3, <1>4, PrefixType
<1>6. hash \in [Keys -> ValOrNil]
  BY <1>3, <1>4 DEF ValOrNil
<1>7. cap \in Nat /\ m <= cap
  <2>1. CASE vs = <<>>
    BY <2>1, <1>1, <1>3 DEF Reserved
  <2>2. CASE vs # <<>>
    BY <2>2, <1>1, <1>3
  <2>. QED
    BY <2>1, <2>2
<1>8. keyed \in BOOLEAN
  BY <1>4
<1>9. ~keyed => \A k \in Keys : hash[k] = Nil
  BY <1>4
<1>10. LastSlotLive
  BY <1>3, <1>4, <1>5 DEF LastSlotLive, alen
<1>. QED
  BY <1>3, <1>5, <1>6, <1>7, <1>8, <1>9, <1>10 DEF IInv, TypeOK, PartsOK, Init, alen

(* Appending one element operation to a list of copies. *)
LEMMA OpsType ==
  ASSUME NEW n \in Nat, NEW f \in [1..n -> ElemOp], NEW op \in ElemOp
  PROVE  f \o <<op>> \in Seq(ElemOp)
<1>1. f \in Seq(ElemOp)
  BY FcnIsSeq
<1>2. <<op>> \in Seq(ElemOp)
  OBVIOUS
<1>. QED
  BY <1>1, <1>2

(* The contents the library's calls stand for are maps. *)
LEMMA ContentType ==
  ASSUME PartsOK
  PROVE  Content \in [Keys -> ValOrNil]
BY TabGetType DEF Content

(* What a library loop has to end with is a table content. *)
LEMMA GoalType ==
  ASSUME NEW c \in [Keys -> ValOrNil],
         NEW n \in Nat, NEW pos \in Nat, NEW cnt \in Nat, NEW f \in Nat,
         NEW v \in ValOrNil
  PROVE  /\ pos > 0 /\ n < MaxInt => Inserted(c, n, pos, v) \in [Keys -> ValOrNil]
         /\ n <= MaxInt => Removed(c, n, pos) \in [Keys -> ValOrNil]
         /\ f + cnt - 1 <= MaxInt => Moved(c, f, cnt, pos) \in [Keys -> ValOrNil]
<1>1. ASSUME pos > 0, n < MaxInt
      PROVE  Inserted(c, n, pos, v) \in [Keys -> ValOrNil]
  <2>1. \A k \in (pos + 1)..(n + 1) : k - 1 \in Keys
    BY <1>1, IntKeysAreKeys
  <2>. QED
    BY <2>1 DEF Inserted
<1>2. ASSUME n <= MaxInt
      PROVE  Removed(c, n, pos) \in [Keys -> ValOrNil]
  <2>1. \A k \in pos..(n - 1) : k + 1 \in Keys
    BY <1>2, IntKeysAreKeys
  <2>. QED
    BY <2>1 DEF Removed, ValOrNil
<1>3. ASSUME f + cnt - 1 <= MaxInt
      PROVE  Moved(c, f, cnt, pos) \in [Keys -> ValOrNil]
  <2>1. \A k \in pos..(pos + cnt - 1) : f + (k - pos) \in Keys
    BY <1>3, IntKeysAreKeys
  <2>. QED
    BY <2>1 DEF Moved
<1>. QED
  BY <1>1, <1>2, <1>3

(* A slot-wise rewrite of the array part followed by $arr_trim. *)
LEMMA TrimType ==
  ASSUME PartsOK, NEW n \in 0..alen, NEW s \in [1..n -> ValOrNil], NEW m \in 0..n,
         TrimsTo(s, m), arr' = SubSeq(s, 1, m), UNCHANGED <<cap, hash, keyed>>
  PROVE  PartsOK' /\ LastSlotLive'
<1>1. n \in Nat /\ n <= alen /\ alen \in Nat
  BY DEF PartsOK, alen
<1>2. s \in Seq(ValOrNil) /\ Len(s) = n
  BY <1>1, FcnIsSeq
<1>3. arr' \in Seq(ValOrNil) /\ Len(arr') = m /\ \A i \in 1..m : arr'[i] = s[i]
  BY <1>2, PrefixType
<1>4. LastSlotLive'
  BY <1>1, <1>3 DEF LastSlotLive, TrimsTo, alen
<1>. QED
  BY <1>1, <1>3, <1>4 DEF PartsOK, alen

(* table.insert keeps the invariant, by memmove or by starting its loop. *)
LEMMA TableInsertType ==
  ASSUME IInv, NEW pos \in 1..MaxInt, NEW v \in ValOrNil, TableInsert(pos, v)
  PROVE  IInv'
<1>. USE DEF IInv
<1>1. PICK n \in 0..(MaxInt - 1) :
         /\ TabLen(n)
         /\ pos \in 1..(n + 1)
         /\ TableInsertFast(n, pos, v) \/ TableInsertLoop(n, pos, v)
  BY DEF TableInsert
<1>2. PartsOK /\ alen \in Nat
  BY DEF TypeOK, PartsOK, alen
<1>3. CASE TableInsertFast(n, pos, v)
  <2>1. PICK c \in Caps : GrowsTo(alen + 1, c) /\ cap' = c
    BY <1>3 DEF TableInsertFast
  <2>2. c \in Nat /\ c >= alen + 1
    BY <2>1, <1>2, GrownCapacity
  <2>3. arr' = [i \in 1..(n + 1) |-> IF i < pos THEN arr[i]
                                  ELSE IF i = pos THEN v ELSE arr[i - 1]]
    BY <1>3 DEF TableInsertFast
  <2>4. n = alen /\ v # Nil /\ UNCHANGED <<hash, keyed, todo, goal>>
    BY <1>3 DEF TableInsertFast
  <2>5. \A i \in 1..alen : arr[i] \in ValOrNil
    BY <1>2 DEF PartsOK, alen
  <2>6. arr' \in [1..(n + 1) -> ValOrNil]
    BY <1>1, <1>2, <2>3, <2>4, <2>5
  <2>7. arr' \in Seq(ValOrNil) /\ Len(arr') = n + 1
    BY <2>6, FcnIsSeq
  <2>8. LastSlotLive'
    BY <1>1, <1>2, <2>3, <2>4, <2>7 DEF LastSlotLive, alen
  <2>9. PartsOK'
    BY <1>1, <1>2, <2>1, <2>2, <2>4, <2>7 DEF PartsOK, alen
  <2>. QED
    BY <2>4, <2>8, <2>9 DEF TypeOK
<1>4. CASE TableInsertLoop(n, pos, v)
  <2>1. UNCHANGED <<arr, cap, hash, keyed>>
    BY <1>4 DEF TableInsertLoop, StartLoop, parts
  <2>2. todo' = [i \in 1..(n - pos + 1) |-> Copy(n - i + 2, n - i + 1)] \o <<Put(pos, v)>>
    BY <1>4 DEF TableInsertLoop, StartLoop
  <2>3. goal' \in [Keys -> ValOrNil]
    BY <1>1, <1>2, <1>4, ContentType, GoalType DEF TableInsertLoop, StartLoop
  <2>4. [i \in 1..(n - pos + 1) |-> Copy(n - i + 2, n - i + 1)]
           \in [1..(n - pos + 1) -> ElemOp]
    BY <1>1 DEF Copy, ElemOp, IntKeys, ValOrNil
  <2>5. Put(pos, v) \in ElemOp
    BY <1>1 DEF Put, ElemOp, IntKeys
  <2>6. todo' \in Seq(ElemOp)
    <3>1. n - pos + 1 \in Nat
      BY <1>1
    <3>. QED
      BY <3>1, <2>2, <2>4, <2>5, OpsType
  <2>. QED
    BY <2>1, <2>3, <2>6 DEF TypeOK, PartsOK, LastSlotLive, alen
<1>. QED
  BY <1>1, <1>3, <1>4

(* table.remove keeps the invariant: the memmove path trims. *)
LEMMA TableRemoveType ==
  ASSUME IInv, NEW pos \in IntKeys, TableRemove(pos)
  PROVE  IInv'
<1>. USE DEF IInv
<1>1. PICK n \in 0..MaxInt :
         /\ TabLen(n)
         /\ pos = n \/ pos \in 1..(n + 1)
         /\ TableRemoveFast(n, pos) \/ TableRemoveLoop(n, pos)
  BY DEF TableRemove
<1>2. PartsOK /\ alen \in Nat /\ pos \in Nat /\ pos <= MaxInt
  BY DEF TypeOK, PartsOK, alen, IntKeys
<1>3. CASE TableRemoveFast(n, pos)
  <2>. DEFINE s == [i \in 1..(n - 1) |-> IF i < pos THEN arr[i] ELSE arr[i + 1]]
  <2>1. n = alen /\ pos \in 1..n /\ UNCHANGED <<cap, hash, keyed, todo, goal>>
    BY <1>3 DEF TableRemoveFast
  <2>2. PICK m \in 0..(n - 1) : TrimsTo(s, m) /\ arr' = SubSeq(s, 1, m)
    BY <1>3 DEF TableRemoveFast
  <2>3. \A i \in 1..alen : arr[i] \in ValOrNil
    BY <1>2 DEF PartsOK, alen
  <2>4. s \in [1..(n - 1) -> ValOrNil]
    BY <1>2, <2>1, <2>3
  <2>. HIDE DEF s
  <2>5. n - 1 \in 0..alen
    BY <1>2, <2>1
  <2>6. PartsOK' /\ LastSlotLive'
    BY <1>2, <2>1, <2>2, <2>4, <2>5, TrimType
  <2>. QED
    BY <2>1, <2>6 DEF TypeOK
<1>4. CASE TableRemoveLoop(n, pos)
  <2>. DEFINE last == IF pos > n THEN pos ELSE n
              cps == [i \in 1..(n - pos) |-> Copy(pos + i - 1, pos + i)]
  <2>1. UNCHANGED <<arr, cap, hash, keyed>>
    BY <1>4 DEF TableRemoveLoop, StartLoop, parts
  <2>2. todo' = cps \o <<Put(last, Nil)>>
    BY <1>4 DEF TableRemoveLoop, StartLoop
  <2>3. goal' \in [Keys -> ValOrNil]
    <3>1. goal' = Removed(Content, n, pos)
      BY <1>4 DEF TableRemoveLoop, StartLoop
    <3>2. n \in Nat /\ n <= MaxInt /\ Nil \in ValOrNil /\ 0 \in Nat
      BY DEF ValOrNil
    <3>. QED
      BY <3>1, <3>2, <1>2, ContentType, GoalType
  <2>4. cps \in [1..(n - pos) -> ElemOp]
    BY <1>1, <1>2 DEF Copy, ElemOp, IntKeys, ValOrNil
  <2>5. Put(last, Nil) \in ElemOp
    BY <1>1, <1>2 DEF Put, ElemOp, IntKeys, ValOrNil
  <2>6. todo' \in Seq(ElemOp)
    <3>. HIDE DEF last, cps
    <3>1. CASE n - pos \in Nat
      BY <3>1, <2>2, <2>4, <2>5, OpsType
    <3>2. CASE n - pos \notin Nat
      <4>1. 1..(n - pos) = 1..0
        BY <1>2, <3>2
      <4>2. cps \in [1..0 -> ElemOp]
        BY <4>1, <2>4
      <4>. QED
        BY <4>2, <2>2, <2>5, OpsType
    <3>. QED
      BY <3>1, <3>2
  <2>. QED
    BY <2>1, <2>3, <2>6 DEF TypeOK, PartsOK, LastSlotLive, alen
<1>. QED
  BY <1>1, <1>3, <1>4

(* table.move keeps the invariant: a copied hole at the end is trimmed. *)
LEMMA TableMoveType ==
  ASSUME IInv, NEW f \in 1..MaxInt, NEW cnt \in 1..MaxInt, NEW t \in 1..MaxInt,
         TableMove(f, cnt, t)
  PROVE  IInv'
<1>. USE DEF IInv
<1>1. /\ f + cnt - 1 <= MaxInt /\ t + cnt - 1 <= MaxInt
      /\ TableMoveFast(f, cnt, t) \/ TableMoveLoop(f, cnt, t)
  BY DEF TableMove
<1>2. PartsOK /\ alen \in Nat
  BY DEF TypeOK, PartsOK, alen
<1>3. CASE TableMoveFast(f, cnt, t)
  <2>. DEFINE s == [i \in 1..alen |-> IF i \in t..(t + cnt - 1)
                                     THEN arr[f + (i - t)] ELSE arr[i]]
  <2>1. /\ f + cnt - 1 <= alen /\ t + cnt - 1 <= alen
        /\ UNCHANGED <<cap, hash, keyed, todo, goal>>
    BY <1>3 DEF TableMoveFast
  <2>2. PICK m \in 0..alen : TrimsTo(s, m) /\ arr' = SubSeq(s, 1, m)
    BY <1>3 DEF TableMoveFast
  <2>3. \A i \in 1..alen : arr[i] \in ValOrNil
    BY <1>2 DEF PartsOK, alen
  <2>4. \A i \in t..(t + cnt - 1) : f + (i - t) \in 1..alen
    BY <1>2, <2>1
  <2>5. s \in [1..alen -> ValOrNil]
    BY <2>3, <2>4
  <2>. HIDE DEF s
  <2>6. PartsOK' /\ LastSlotLive'
    BY <1>2, <2>1, <2>2, <2>5, TrimType
  <2>. QED
    BY <2>1, <2>6 DEF TypeOK
<1>4. CASE TableMoveLoop(f, cnt, t)
  <2>1. UNCHANGED <<arr, cap, hash, keyed>>
    BY <1>4 DEF TableMoveLoop, StartLoop, parts
  <2>2. todo' = [i \in 1..cnt |-> LET j == IF t > f THEN cnt - i ELSE i - 1
                                  IN  Copy(t + j, f + j)]
    BY <1>4 DEF TableMoveLoop, StartLoop
  <2>3. goal' \in [Keys -> ValOrNil]
    <3>1. goal' = Moved(Content, f, cnt, t)
      BY <1>4 DEF TableMoveLoop, StartLoop
    <3>2. Nil \in ValOrNil /\ 0 \in Nat
      BY DEF ValOrNil
    <3>. QED
      BY <3>1, <3>2, <1>1, <1>2, ContentType, GoalType
  <2>4. todo' \in [1..cnt -> ElemOp]
    BY <1>1, <2>2 DEF Copy, ElemOp, IntKeys, ValOrNil
  <2>5. todo' \in Seq(ElemOp)
    BY <2>4, FcnIsSeq
  <2>. QED
    BY <2>1, <2>3, <2>5 DEF TypeOK, PartsOK, LastSlotLive, alen
<1>. QED
  BY <1>1, <1>3, <1>4

(* An element store of a library loop keeps the invariant. *)
LEMMA LoopStepType ==
  ASSUME IInv, LoopStep
  PROVE  IInv'
<1>. USE DEF IInv
<1>. DEFINE op == Head(todo)
            w == IF op.from = NoKey THEN op.val ELSE TabGet(op.from)
<1>1. PartsOK /\ todo \in Seq(ElemOp) /\ todo # <<>>
  BY DEF TypeOK, LoopStep
<1>2. op \in ElemOp /\ Tail(todo) \in Seq(ElemOp)
  BY <1>1
<1>3. op.to \in Keys /\ w \in ValOrNil
  BY <1>1, <1>2, TabGetType, IntKeysAreKeys DEF ElemOp
<1>4. TabSet(op.to, w)
  BY DEF LoopStep
<1>. HIDE DEF op, w
<1>5. PartsOK' /\ LastSlotLive'
  BY <1>1, <1>3, <1>4, TabSetType
<1>6. todo' = Tail(todo) /\ (goal' = NoGoal \/ goal' = goal)
  BY DEF LoopStep
<1>. QED
  BY <1>2, <1>5, <1>6 DEF TypeOK

(* A store keeps the invariant. *)
LEMMA StoreType ==
  ASSUME IInv, NEW k \in Keys, NEW v \in ValOrNil, Store(k, v)
  PROVE  IInv'
BY TabSetType DEF IInv, Store, TypeOK

(* The inline append keeps the invariant: it takes no nil. *)
LEMMA InlineAppendType ==
  ASSUME IInv, NEW v \in ValOrNil, InlineAppend(v)
  PROVE  IInv'
BY DEF IInv, InlineAppend, TypeOK, PartsOK, LastSlotLive, alen

(* Every step keeps the invariant. *)
LEMMA NextIInv == IInv /\ [Next]_vars => IInv'
<1>. SUFFICES ASSUME IInv, [Next]_vars PROVE IInv'
  OBVIOUS
<1>1. ASSUME NEW k \in Keys, NEW v \in ValOrNil, Store(k, v) PROVE IInv'
  BY <1>1, StoreType
<1>2. ASSUME NEW v \in ValOrNil, InlineAppend(v) PROVE IInv'
  BY <1>2, InlineAppendType
<1>3. ASSUME NEW v \in ValOrNil, TableAppend(v) PROVE IInv'
  <2>1. PICK n \in 0..(MaxInt - 1) : Store(n + 1, v)
    BY <1>3 DEF TableAppend
  <2>2. n + 1 \in Keys
    BY IntKeysAreKeys
  <2>. QED
    BY <2>1, <2>2, StoreType
<1>4. ASSUME NEW pos \in 1..MaxInt, NEW v \in ValOrNil, TableInsert(pos, v)
      PROVE  IInv'
  BY <1>4, TableInsertType
<1>5. ASSUME NEW pos \in IntKeys, TableRemove(pos) PROVE IInv'
  BY <1>5, TableRemoveType
<1>6. ASSUME NEW f \in 1..MaxInt, NEW cnt \in 1..MaxInt, NEW t \in 1..MaxInt,
             TableMove(f, cnt, t)
      PROVE  IInv'
  BY <1>6, TableMoveType
<1>7. CASE LoopStep
  BY <1>7, LoopStepType
<1>8. CASE UNCHANGED vars
  BY <1>8 DEF vars, IInv, TypeOK, PartsOK, LastSlotLive, alen
<1>. QED
  BY <1>1, <1>2, <1>3, <1>4, <1>5, <1>6, <1>7, <1>8 DEF Next

(* Types hold, and the array part fits its array, whatever the program does  *)
(* with a table.                                                            *)
THEOREM TypeCorrect == Spec => []TypeOK
<1>1. IInv => TypeOK
  BY DEF IInv
<1>. QED
  BY InitIInv, NextIInv, <1>1, PTL DEF Spec

(* The last array slot is never nil, for every program: no store, shift,     *)
(* copy, absorption or demotion leaves a trailing hole.                     *)
THEOREM LastSlotAlwaysLive == Spec => []LastSlotLive
<1>1. IInv => LastSlotLive
  BY DEF IInv
<1>. QED
  BY InitIInv, NextIInv, <1>1, PTL DEF Spec
-----------------------------------------------------------------------------
(* A nonempty set of naturals has a least element. *)
LEMMA LeastNat ==
  ASSUME NEW T, T \subseteq Nat, T # {}
  PROVE  \E x \in T : \A y \in T : x <= y
<1>. DEFINE R == OpToRel(<, Nat)
<1>1. IsWellFoundedOn(R, Nat)
  BY NatLessThanWellFounded, Zenon
<1>2. \A a, b \in Nat : a < b => <<a, b>> \in R
  BY Zenon DEF OpToRel
<1>. HIDE DEF R
<1>3. \E x \in T : \A y \in T : ~(<<y, x>> \in R)
  BY <1>1, WFMin, Zenon
<1>4. PICK x \in T : \A y \in T : ~(<<y, x>> \in R)
  BY <1>3
<1>5. \A y \in T : ~(y < x)
  BY <1>2, <1>4
<1>. QED
  BY <1>5

(* The run of hash keys after the array part ends, and its end is a border. *)
LEMMA IInvLen == IInv => LenIsBorder
<1>. SUFFICES ASSUME IInv PROVE LenIsBorder
  OBVIOUS
<1>1. PartsOK /\ alen \in Nat /\ alen <= MaxInt
  BY DEF IInv, TypeOK, PartsOK, alen
<1>2. \E n \in IntKeys : TabLen(n)
  <2>. DEFINE T == {n \in alen..MaxInt : HashGet(n + 1) = Nil}
  <2>1. MaxInt \in T
    <3>1. MaxInt + 1 \notin Keys
      BY IntKeysAreKeys
    <3>. QED
      BY <1>1, <3>1 DEF HashGet, GetIn
  <2>2. T \subseteq Nat /\ T # {}
    <3>1. alen..MaxInt \subseteq Nat
      BY <1>1
    <3>2. T \subseteq alen..MaxInt
      OBVIOUS
    <3>. HIDE DEF T
    <3>. QED
      BY <2>1, <3>1, <3>2
  <2>3. PICK n \in T : \A y \in T : n <= y
    <3>. HIDE DEF T
    <3>. QED
      BY <2>2, LeastNat
  <2>4. \A i \in (alen + 1)..n : HashGet(i) # Nil
    <3>. SUFFICES ASSUME NEW i \in (alen + 1)..n, HashGet(i) = Nil PROVE FALSE
      OBVIOUS
    <3>1. i - 1 \in T
      BY <1>1
    <3>. QED
      BY <1>1, <2>3, <3>1
  <2>. QED
    BY <1>1, <2>3, <2>4 DEF TabLen, IntKeys
<1>3. ASSUME NEW n \in IntKeys, TabLen(n) PROVE IsBorderOf(Content, n)
  <2>1. n \in Nat /\ n >= alen /\ n \in Keys
    BY <1>1, <1>3, IntKeysAreKeys DEF TabLen, IntKeys
  <2>2. HashGet(n + 1) = Nil /\ \A i \in (alen + 1)..n : HashGet(i) # Nil
    BY <1>3 DEF TabLen
  <2>3. GetIn(Content, n + 1) = Nil
    BY <1>1, <2>1, <2>2 DEF GetIn, Content, TabGet
  <2>4. n > 0 => Content[n] # Nil
    <3>1. CASE n = alen
      BY <3>1, <1>1, <2>1 DEF Content, TabGet, IInv, LastSlotLive
    <3>2. CASE n # alen
      BY <3>2, <1>1, <2>1, <2>2 DEF Content, TabGet
    <3>. QED
      BY <3>1, <3>2
  <2>. QED
    BY <2>3, <2>4 DEF IsBorderOf
<1>. QED
  BY <1>2, <1>3 DEF LenIsBorder

(* #t is always defined and always a border of the table's content, also     *)
(* when the sequence runs on into the hash part.                            *)
THEOREM LenAlwaysBorder == Spec => []LenIsBorder
BY InitIInv, NextIInv, IInvLen, PTL DEF Spec
-----------------------------------------------------------------------------
(* While no call has left the array part's continuation in the hash part,   *)
(* the two parts stay disjoint.                                             *)
DInv == IInv /\ PartsDisjoint /\ Attached

(* What the invariant says about the parts, in the form the steps use. *)
LEMMA DInvFacts ==
  ASSUME DInv
  PROVE  /\ PartsOK /\ alen \in Nat /\ alen <= MaxInt
         /\ \A k \in 1..alen : k \in Keys /\ k \in Nat /\ hash[k] = Nil
         /\ alen < ArrMax => HashGet(alen + 1) = Nil
         /\ \A i \in 1..alen : arr[i] \in ValOrNil
<1>1. PartsOK /\ alen \in Nat /\ alen <= MaxInt
  BY DEF DInv, IInv, TypeOK, PartsOK, alen
<1>2. \A k \in 1..alen : k \in Keys /\ k \in Nat
  BY <1>1, IntKeysAreKeys
<1>3. \A k \in 1..alen : hash[k] = Nil
  BY <1>2 DEF DInv, PartsDisjoint, HashGet, GetIn
<1>4. \A i \in 1..alen : arr[i] \in ValOrNil
  BY <1>1 DEF PartsOK, alen
<1>. QED
  BY <1>1, <1>2, <1>3, <1>4 DEF DInv, Attached

(* A rewrite s of the array part, then $arr_trim: the content is s over the *)
(* old array keys and the hash part elsewhere, and the parts stay disjoint. *)
LEMMA TrimContent ==
  ASSUME DInv, NEW n \in 0..alen, NEW s \in [1..n -> ValOrNil], NEW m \in 0..n,
         TrimsTo(s, m), arr' = SubSeq(s, 1, m), hash' = hash
  PROVE  /\ PartsDisjoint'
         /\ Content' = [k \in Keys |-> IF k \in 1..n THEN s[k] ELSE hash[k]]
<1>1. n \in Nat /\ m \in Nat /\ m <= n /\ n <= alen /\ alen \in Nat
  BY DInvFacts
<1>2. s \in Seq(ValOrNil) /\ Len(s) = n
  BY <1>1, FcnIsSeq
<1>3. Len(arr') = m /\ \A i \in 1..m : arr'[i] = s[i]
  BY <1>2, PrefixType
<1>4. \A k \in 1..n : k \in Keys /\ hash[k] = Nil
  BY <1>1, DInvFacts
<1>5. \A i \in (m + 1)..n : s[i] = Nil
  BY <1>2 DEF TrimsTo
<1>6. \A k \in Keys : k \in 1..n => k \in 1..m \/ k \in (m + 1)..n
  BY <1>1
<1>7. \A k \in 1..m : k \in 1..n
  BY <1>1
<1>8. PartsDisjoint'
  BY <1>3, <1>4, <1>7 DEF PartsDisjoint, HashGet, GetIn, alen
<1>9. ASSUME NEW k \in Keys
      PROVE  Content'[k] = IF k \in 1..n THEN s[k] ELSE hash[k]
  <2>1. Content'[k] = IF k \in 1..m THEN arr'[k] ELSE hash[k]
    BY <1>3 DEF Content, TabGet, HashGet, GetIn, alen
  <2>. QED
    BY <2>1, <1>3, <1>4, <1>5, <1>6, <1>7
<1>. QED
  BY <1>8, <1>9 DEF Content

(* t[k] = v changes the content at k only. *)
LEMMA SetSlotContent ==
  ASSUME DInv, NEW k \in 1..alen, NEW v \in ValOrNil, SetSlot(k, v)
  PROVE  PartsDisjoint' /\ Content' = [Content EXCEPT ![k] = v]
<1>. DEFINE s == [arr EXCEPT ![k] = v]
<1>1. /\ s \in [1..alen -> ValOrNil] /\ Len(s) = alen
      /\ \A i \in 1..alen : s[i] = IF i = k THEN v ELSE arr[i]
  BY DInvFacts DEF PartsOK, alen
<1>2. hash' = hash /\ k \in Keys
  BY DInvFacts DEF SetSlot
<1>3. SUFFICES PartsDisjoint' /\ Content' = [x \in Keys |-> IF x \in 1..alen THEN s[x] ELSE hash[x]]
  <2>1. ASSUME NEW x \in Keys
        PROVE  (IF x \in 1..alen THEN s[x] ELSE hash[x]) = [Content EXCEPT ![k] = v][x]
    BY <1>1, <1>2 DEF Content, TabGet, HashGet, GetIn
  <2>. QED
    BY <1>3, <2>1 DEF Content
<1>4. CASE v = Nil /\ k = alen
  <2>1. PICK m \in 0..alen : TrimsTo(s, m) /\ arr' = SubSeq(s, 1, m)
    BY <1>4 DEF SetSlot
  <2>. HIDE DEF s
  <2>2. alen \in 0..alen
    BY DInvFacts
  <2>. QED
    BY <1>1, <1>2, <2>1, <2>2, TrimContent
<1>5. CASE v # Nil \/ k # alen
  <2>1. arr' = s
    BY <1>5 DEF SetSlot
  <2>. HIDE DEF s
  <2>2. alen' = alen
    BY <1>1, <2>1 DEF alen
  <2>. QED
    BY <1>2, <2>1, <2>2 DEF DInv, PartsDisjoint, Content, TabGet, HashGet, GetIn
<1>. QED
  BY <1>4, <1>5

(* An append stores the value; absorbing moves keys without changing reads. *)
LEMMA ArrAppendContent ==
  ASSUME DInv, NEW v \in Values, alen + 1 \in Keys, alen < ArrMax, ArrAppend(v)
  PROVE  PartsDisjoint' /\ Content' = [Content EXCEPT ![alen + 1] = v]
<1>1. PICK n \in (alen + 1)..ArrMax :
         /\ AbsorbsTo(n)
         /\ arr' = [i \in 1..n |-> IF i <= alen THEN arr[i]
                                   ELSE IF i = alen + 1 THEN v ELSE hash[i]]
         /\ hash' = [k \in Keys |-> IF k \in (alen + 2)..n THEN Nil ELSE hash[k]]
  BY DEF ArrAppend
<1>2. /\ alen \in Nat /\ n \in Nat /\ n >= alen + 1
      /\ HashGet(alen + 1) = Nil /\ hash[alen + 1] = Nil
  BY DInvFacts DEF HashGet, GetIn
<1>3. alen' = n
  BY <1>1, <1>2 DEF alen
<1>4. PartsDisjoint'
  BY <1>1, <1>2, <1>3, DInvFacts DEF PartsDisjoint, HashGet, GetIn
<1>5. ASSUME NEW k \in Keys PROVE Content'[k] = [Content EXCEPT ![alen + 1] = v][k]
  <2>1. Content'[k] = IF k \in 1..n THEN arr'[k] ELSE hash'[k]
    BY <1>3 DEF Content, TabGet, HashGet, GetIn
  <2>. QED
    BY <1>1, <1>2, <2>1 DEF Content, TabGet, HashGet, GetIn
<1>. QED
  BY <1>4, <1>5 DEF Content

(* A demotion changes no read but that of the key stored. *)
LEMMA DemoteContent ==
  ASSUME DInv, NEW k \in Keys, k \notin 1..alen, NEW v \in ValOrNil, Demote(k, v)
  PROVE  PartsDisjoint' /\ Content' = [Content EXCEPT ![k] = v]
<1>1. alen' = 0 /\ alen \in Nat
  BY DInvFacts DEF Demote, alen
<1>2. PartsDisjoint'
  BY <1>1 DEF PartsDisjoint
<1>3. ASSUME NEW x \in Keys PROVE Content'[x] = [Content EXCEPT ![k] = v][x]
  <2>1. Content'[x] = hash'[x]
    BY <1>1 DEF Content, TabGet, HashGet, GetIn
  <2>. QED
    BY <2>1, DInvFacts DEF Demote, Content, TabGet, HashGet, GetIn
<1>. QED
  BY <1>2, <1>3 DEF Content

(* A store to the hash part changes the read of its key only. *)
LEMMA SetHashContent ==
  ASSUME DInv, NEW k \in Keys, k \notin 1..alen, NEW v \in ValOrNil, SetHash(k, v)
  PROVE  PartsDisjoint' /\ Content' = [Content EXCEPT ![k] = v]
<1>1. alen' = alen /\ arr' = arr /\ hash' = [hash EXCEPT ![k] = v] /\ hash \in [Keys -> ValOrNil]
  BY DInvFacts DEF SetHash, alen, PartsOK
<1>2. PartsDisjoint'
  BY <1>1, DInvFacts DEF PartsDisjoint, HashGet, GetIn
<1>3. ASSUME NEW x \in Keys PROVE Content'[x] = [Content EXCEPT ![k] = v][x]
  BY <1>1 DEF Content, TabGet, HashGet, GetIn
<1>. QED
  BY <1>2, <1>3 DEF Content

(* Every path of $tab_set changes the read of the key stored and no other. *)
LEMMA TabSetContent ==
  ASSUME DInv, NEW k \in Keys, NEW v \in ValOrNil, TabSet(k, v)
  PROVE  PartsDisjoint' /\ Content' = [Content EXCEPT ![k] = v]
<1>1. CASE k \in 1..alen /\ SetSlot(k, v)
  BY <1>1, SetSlotContent
<1>2. CASE k = alen + 1 /\ alen < ArrMax /\ v # Nil /\ Demote(k, v)
  <2>1. k \notin 1..alen
    BY <1>2, DInvFacts
  <2>. QED
    BY <1>2, <2>1, DemoteContent
<1>3. CASE k = alen + 1 /\ alen < ArrMax /\ v # Nil /\ ArrAppend(v)
  <2>1. v \in Values
    BY <1>3 DEF ValOrNil
  <2>. QED
    BY <1>3, <2>1, ArrAppendContent
<1>4. CASE k \notin 1..alen /\ SetHash(k, v)
  BY <1>4, SetHashContent
<1>. QED
  BY <1>1, <1>2, <1>3, <1>4 DEF TabSet

(* The memmoves of the table library do to the content what LuaMap's        *)
(* Insert, Remove and Move do.                                              *)
LEMMA InsertFastContent ==
  ASSUME DInv, NEW n \in 0..(MaxInt - 1), NEW pos \in 1..(n + 1), NEW v \in ValOrNil,
         TabLen(n), TableInsertFast(n, pos, v)
  PROVE  PartsDisjoint' /\ Content' = Inserted(Content, n, pos, v)
<1>1. /\ n = alen /\ hash' = hash
      /\ arr' = [i \in 1..(n + 1) |-> IF i < pos THEN arr[i]
                                  ELSE IF i = pos THEN v ELSE arr[i - 1]]
  BY DEF TableInsertFast
<1>2. alen' = n + 1 /\ n \in Nat /\ n + 1 \in Keys /\ hash[n + 1] = Nil
  <2>1. n + 1 \in Keys
    BY IntKeysAreKeys
  <2>. QED
    BY <1>1, <2>1 DEF alen, TabLen, HashGet, GetIn
<1>3. PartsDisjoint'
  BY <1>1, <1>2, DInvFacts DEF PartsDisjoint, HashGet, GetIn
<1>4. ASSUME NEW k \in Keys PROVE Content'[k] = Inserted(Content, n, pos, v)[k]
  <2>1. Content'[k] = IF k \in 1..(n + 1) THEN arr'[k] ELSE hash[k]
    BY <1>1, <1>2 DEF Content, TabGet, HashGet, GetIn
  <2>2. \A x \in 1..n : x \in Keys /\ Content[x] = arr[x]
    BY <1>1, DInvFacts DEF Content, TabGet
  <2>3. k \notin 1..n => Content[k] = hash[k]
    BY <1>1 DEF Content, TabGet, HashGet, GetIn
  <2>4. Inserted(Content, n, pos, v)[k] =
          IF k = pos THEN v ELSE IF k \in (pos + 1)..(n + 1) THEN Content[k - 1] ELSE Content[k]
    BY DEF Inserted
  <2>5. CASE k \in 1..(n + 1)
    BY <1>1, <1>2, <2>1, <2>2, <2>4, <2>5
  <2>6. CASE k \notin 1..(n + 1)
    BY <1>2, <2>1, <2>3, <2>4, <2>6
  <2>. QED
    BY <2>5, <2>6
<1>. QED
  BY <1>3, <1>4 DEF Content, Inserted

(* The memmove of table.remove shifts the sequence down. *)
LEMMA RemoveFastContent ==
  ASSUME DInv, NEW n \in 0..MaxInt, NEW pos \in IntKeys, TableRemoveFast(n, pos)
  PROVE  PartsDisjoint' /\ Content' = Removed(Content, n, pos) /\ pos \in 1..n
<1>. DEFINE s == [i \in 1..(n - 1) |-> IF i < pos THEN arr[i] ELSE arr[i + 1]]
<1>1. n = alen /\ pos \in 1..n /\ n \in Nat /\ hash' = hash
  BY DEF TableRemoveFast
<1>2. PICK m \in 0..(n - 1) : TrimsTo(s, m) /\ arr' = SubSeq(s, 1, m)
  BY DEF TableRemoveFast
<1>3. s \in [1..(n - 1) -> ValOrNil] /\ n - 1 \in 0..alen
  BY <1>1, DInvFacts
<1>4. \A i \in 1..(n - 1) : s[i] = IF i < pos THEN arr[i] ELSE arr[i + 1]
  OBVIOUS
<1>. HIDE DEF s
<1>5. /\ PartsDisjoint'
      /\ Content' = [k \in Keys |-> IF k \in 1..(n - 1) THEN s[k] ELSE hash[k]]
  BY <1>1, <1>2, <1>3, TrimContent
<1>6. ASSUME NEW k \in Keys PROVE Content'[k] = Removed(Content, n, pos)[k]
  <2>1. \A x \in 1..n : x \in Keys /\ Content[x] = arr[x] /\ hash[x] = Nil
    BY <1>1, DInvFacts DEF Content, TabGet
  <2>2. k \notin 1..n => Content[k] = hash[k]
    BY <1>1 DEF Content, TabGet, HashGet, GetIn
  <2>3. Removed(Content, n, pos)[k] = IF k \in pos..(n - 1) THEN Content[k + 1]
                                      ELSE IF k = n THEN Nil ELSE Content[k]
    BY <1>1 DEF Removed
  <2>4. CASE k \in 1..n
    BY <1>1, <1>4, <1>5, <2>1, <2>3, <2>4
  <2>5. CASE k \notin 1..n
    BY <1>1, <1>5, <2>2, <2>3, <2>5
  <2>. QED
    BY <2>4, <2>5
<1>. QED
  BY <1>1, <1>5, <1>6 DEF Content, Removed

(* The memmove of table.move copies the range, overlaps included. *)
LEMMA MoveFastContent ==
  ASSUME DInv, NEW f \in 1..MaxInt, NEW cnt \in 1..MaxInt, NEW t \in 1..MaxInt,
         TableMoveFast(f, cnt, t)
  PROVE  PartsDisjoint' /\ Content' = Moved(Content, f, cnt, t)
<1>. DEFINE s == [i \in 1..alen |-> IF i \in t..(t + cnt - 1)
                                   THEN arr[f + (i - t)] ELSE arr[i]]
<1>1. f + cnt - 1 <= alen /\ t + cnt - 1 <= alen /\ hash' = hash
  BY DEF TableMoveFast
<1>2. PICK m \in 0..alen : TrimsTo(s, m) /\ arr' = SubSeq(s, 1, m)
  BY DEF TableMoveFast
<1>3. \A i \in t..(t + cnt - 1) : f + (i - t) \in 1..alen /\ i \in 1..alen
  BY <1>1, DInvFacts
<1>4. s \in [1..alen -> ValOrNil] /\ alen \in 0..alen
  BY <1>3, DInvFacts
<1>5. \A i \in 1..alen : s[i] = IF i \in t..(t + cnt - 1) THEN arr[f + (i - t)] ELSE arr[i]
  OBVIOUS
<1>. HIDE DEF s
<1>6. /\ PartsDisjoint'
      /\ Content' = [k \in Keys |-> IF k \in 1..alen THEN s[k] ELSE hash[k]]
  BY <1>1, <1>2, <1>4, TrimContent
<1>7. ASSUME NEW k \in Keys PROVE Content'[k] = Moved(Content, f, cnt, t)[k]
  <2>1. \A x \in 1..alen : x \in Keys /\ Content[x] = arr[x]
    BY DInvFacts DEF Content, TabGet
  <2>2. k \notin 1..alen => Content[k] = hash[k]
    BY DEF Content, TabGet, HashGet, GetIn
  <2>3. Moved(Content, f, cnt, t)[k] =
          IF k \in t..(t + cnt - 1) THEN Content[f + (k - t)] ELSE Content[k]
    BY DEF Moved
  <2>. QED
    BY <1>3, <1>5, <1>6, <2>1, <2>2, <2>3
<1>. QED
  BY <1>6, <1>7 DEF Content, Moved

(* Reads depend on the two parts only. *)
LEMMA SameContent ==
  ASSUME DInv, arr' = arr, hash' = hash
  PROVE  PartsDisjoint' /\ Content' = Content
BY DEF DInv, PartsDisjoint, Content, TabGet, HashGet, alen

(* LuaMap's steps, in this module's terms. *)
MapStep ==
  \/ Content' = Content
  \/ \E k \in Keys, v \in ValOrNil : Content' = [Content EXCEPT ![k] = v]
  \/ \E n \in 0..(MaxInt - 1), v \in ValOrNil : \E pos \in 1..(n + 1) :
       IsBorderOf(Content, n) /\ Content' = Inserted(Content, n, pos, v)
  \/ \E n \in 1..MaxInt : \E pos \in 1..n :
       IsBorderOf(Content, n) /\ Content' = Removed(Content, n, pos)
  \/ \E f, t \in 1..MaxInt, cnt \in 1..MaxInt :
       /\ f + cnt - 1 <= MaxInt
       /\ t + cnt - 1 <= MaxInt
       /\ Content' = Moved(Content, f, cnt, t)

(* The steps found below are the steps of LuaMap. *)
LEMMA MapStepRefines == MapStep => [M!Next]_Content
BY DEF MapStep, M!Next, M!Set, M!Insert, M!Remove, M!Move, M!Keys, M!IntKeys,
       M!ValOrNil, M!IsBorderOf, M!GetIn, M!Inserted, M!Removed, M!Moved,
       Keys, IntKeys, ValOrNil, IsBorderOf, GetIn, Inserted, Removed, Moved

(* $tab_set is a Set of the map. *)
LEMMA StoreStep ==
  ASSUME DInv, NEW k \in Keys, NEW v \in ValOrNil, TabSet(k, v)
  PROVE  PartsDisjoint' /\ MapStep
BY TabSetContent DEF MapStep

(* The inline append is a Set of the map. *)
LEMMA InlineAppendStep ==
  ASSUME DInv, NEW v \in ValOrNil, InlineAppend(v)
  PROVE  PartsDisjoint' /\ MapStep
<1>1. /\ arr' = Append(arr, v) /\ hash' = hash /\ ~keyed
      /\ alen \in Nat /\ alen < MaxInt /\ arr \in Seq(ValOrNil)
  BY DInvFacts DEF InlineAppend, PartsOK
<1>2. /\ alen' = alen + 1 /\ arr'[alen + 1] = v
      /\ \A i \in 1..alen : arr'[i] = arr[i]
  BY <1>1 DEF alen
<1>3. \A k \in Keys : hash[k] = Nil
  BY <1>1, DInvFacts DEF PartsOK
<1>4. PartsDisjoint'
  BY <1>1, <1>3 DEF PartsDisjoint, HashGet, GetIn
<1>5. alen + 1 \in Keys
  BY <1>1, IntKeysAreKeys
<1>6. ASSUME NEW k \in Keys PROVE Content'[k] = [Content EXCEPT ![alen + 1] = v][k]
  <2>1. Content'[k] = IF k \in 1..(alen + 1) THEN arr'[k] ELSE hash[k]
    BY <1>1, <1>2 DEF Content, TabGet, HashGet, GetIn
  <2>2. Content[k] = IF k \in 1..alen THEN arr[k] ELSE hash[k]
    BY DEF Content, TabGet, HashGet, GetIn
  <2>3. [Content EXCEPT ![alen + 1] = v][k] = IF k = alen + 1 THEN v ELSE Content[k]
    BY DEF Content
  <2>4. k \in 1..(alen + 1) <=> k \in 1..alen \/ k = alen + 1
    BY <1>1
  <2>. QED
    BY <1>2, <2>1, <2>2, <2>3, <2>4
<1>7. Content' = [Content EXCEPT ![alen + 1] = v]
  BY <1>6 DEF Content
<1>. QED
  BY <1>4, <1>5, <1>7 DEF MapStep

(* The library calls are an Insert, Remove or Move of the map, or start a loop. *)
LEMMA LibraryStep ==
  ASSUME DInv
  PROVE  /\ \A pos \in 1..MaxInt, v \in ValOrNil :
              TableInsert(pos, v) => PartsDisjoint' /\ MapStep
         /\ \A pos \in IntKeys : TableRemove(pos) => PartsDisjoint' /\ MapStep
         /\ \A f, cnt, t \in 1..MaxInt :
              TableMove(f, cnt, t) => PartsDisjoint' /\ MapStep
<1>0. \A n \in IntKeys : TabLen(n) => IsBorderOf(Content, n)
  BY IInvLen DEF DInv, LenIsBorder
<1>1. ASSUME NEW pos \in 1..MaxInt, NEW v \in ValOrNil, TableInsert(pos, v)
      PROVE  PartsDisjoint' /\ MapStep
  <2>1. PICK n \in 0..(MaxInt - 1) :
           /\ TabLen(n) /\ pos \in 1..(n + 1)
           /\ TableInsertFast(n, pos, v) \/ TableInsertLoop(n, pos, v)
    BY <1>1 DEF TableInsert
  <2>2. IsBorderOf(Content, n)
    BY <1>0, <2>1 DEF IntKeys
  <2>3. CASE TableInsertFast(n, pos, v)
    BY <2>1, <2>2, <2>3, InsertFastContent DEF MapStep
  <2>4. CASE TableInsertLoop(n, pos, v)
    BY <2>4, SameContent DEF TableInsertLoop, StartLoop, parts, MapStep
  <2>. QED
    BY <2>1, <2>3, <2>4
<1>2. ASSUME NEW pos \in IntKeys, TableRemove(pos)
      PROVE  PartsDisjoint' /\ MapStep
  <2>1. PICK n \in 0..MaxInt :
           TabLen(n) /\ (TableRemoveFast(n, pos) \/ TableRemoveLoop(n, pos))
    BY <1>2 DEF TableRemove
  <2>2. IsBorderOf(Content, n)
    BY <1>0, <2>1 DEF IntKeys
  <2>3. CASE TableRemoveFast(n, pos)
    <3>1. PartsDisjoint' /\ Content' = Removed(Content, n, pos) /\ pos \in 1..n
      BY <2>3, RemoveFastContent
    <3>2. n \in 1..MaxInt
      BY <3>1
    <3>. QED
      BY <2>2, <3>1, <3>2 DEF MapStep
  <2>4. CASE TableRemoveLoop(n, pos)
    BY <2>4, SameContent DEF TableRemoveLoop, StartLoop, parts, MapStep
  <2>. QED
    BY <2>1, <2>3, <2>4
<1>3. ASSUME NEW f \in 1..MaxInt, NEW cnt \in 1..MaxInt, NEW t \in 1..MaxInt,
             TableMove(f, cnt, t)
      PROVE  PartsDisjoint' /\ MapStep
  <2>1. CASE TableMoveFast(f, cnt, t)
    BY <1>3, <2>1, MoveFastContent DEF TableMove, MapStep
  <2>2. CASE TableMoveLoop(f, cnt, t)
    BY <2>2, SameContent DEF TableMoveLoop, StartLoop, parts, MapStep
  <2>. QED
    BY <1>3, <2>1, <2>2 DEF TableMove
<1>. QED
  BY <1>1, <1>2, <1>3

(* Each store of a library loop is a Set of the map. *)
LEMMA LoopStepStep ==
  ASSUME DInv, LoopStep
  PROVE  PartsDisjoint' /\ MapStep
<1>. DEFINE op == Head(todo)
            w == IF op.from = NoKey THEN op.val ELSE TabGet(op.from)
<1>1. PartsOK /\ todo \in Seq(ElemOp) /\ todo # <<>>
  BY DEF DInv, IInv, TypeOK, LoopStep
<1>2. op \in ElemOp
  BY <1>1
<1>3. op.to \in Keys /\ w \in ValOrNil
  BY <1>1, <1>2, TabGetType, IntKeysAreKeys DEF ElemOp
<1>4. TabSet(op.to, w)
  BY DEF LoopStep
<1>. HIDE DEF op, w
<1>. QED
  BY <1>3, <1>4, StoreStep

(* Every step that leaves the parts attached keeps them disjoint and is a step of the map. *)
LEMMA NextDInv ==
  ASSUME DInv, [Next /\ Attached']_vars
  PROVE  DInv' /\ MapStep
<1>1. IInv'
  BY NextIInv DEF DInv
<1>2. CASE UNCHANGED vars
  <2>1. PartsDisjoint' /\ Content' = Content
    BY <1>2, SameContent DEF vars
  <2>2. Attached'
    BY <1>2 DEF vars, DInv, Attached, HashGet, alen
  <2>. QED
    BY <1>1, <2>1, <2>2 DEF DInv, MapStep
<1>3. CASE Next /\ Attached'
  <2>1. ASSUME NEW k \in Keys, NEW v \in ValOrNil, Store(k, v)
        PROVE  PartsDisjoint' /\ MapStep
    BY <2>1, StoreStep DEF Store
  <2>2. ASSUME NEW v \in ValOrNil, InlineAppend(v) PROVE PartsDisjoint' /\ MapStep
    BY <2>2, InlineAppendStep
  <2>3. ASSUME NEW v \in ValOrNil, TableAppend(v) PROVE PartsDisjoint' /\ MapStep
    <3>1. PICK n \in 0..(MaxInt - 1) : Store(n + 1, v)
      BY <2>3 DEF TableAppend
    <3>2. n + 1 \in Keys
      BY IntKeysAreKeys
    <3>. QED
      BY <3>1, <3>2, StoreStep DEF Store
  <2>4. ASSUME LoopStep PROVE PartsDisjoint' /\ MapStep
    BY <2>4, LoopStepStep
  <2>5. PartsDisjoint' /\ MapStep
    BY <1>3, <2>1, <2>2, <2>3, <2>4, LibraryStep DEF Next
  <2>. QED
    BY <1>1, <1>3, <2>5 DEF DInv
<1>. QED
  BY <1>2, <1>3

(* The constructors build disjoint parts and an initial content of the map. *)
LEMMA InitDInv == Init => DInv /\ M!Init
<1>. SUFFICES ASSUME Init PROVE DInv /\ M!Init
  OBVIOUS
<1>1. IInv
  BY InitIInv
<1>2. PICK vs \in Lists : NewList(vs)
  BY DEF Init
<1>3. PICK l \in 0..MaxList : vs \in [1..l -> ValOrNil]
  BY DEF Lists
<1>4. vs \in Seq(ValOrNil) /\ Len(vs) = l /\ l \in Nat /\ DOMAIN vs = 1..l
  BY <1>3, FcnIsSeq
<1>5. PICK m \in 0..Len(vs) :
         /\ m < Len(vs) => vs[m + 1] = Nil
         /\ arr = SubSeq(vs, 1, m)
         /\ hash = [k \in Keys |-> IF k \in (m + 2)..Len(vs) THEN vs[k] ELSE Nil]
  BY <1>2 DEF NewList
<1>6. alen = m /\ m \in Nat /\ m <= l /\ \A i \in 1..m : arr[i] = vs[i]
  BY <1>4, <1>5, PrefixType DEF alen
<1>7. PartsDisjoint /\ Attached
  BY <1>4, <1>5, <1>6 DEF PartsDisjoint, Attached, HashGet, GetIn
<1>8. ASSUME NEW k \in Keys
      PROVE  Content[k] = IF k \in DOMAIN vs THEN vs[k] ELSE Nil
  <2>1. Content[k] = IF k \in 1..alen THEN arr[k] ELSE hash[k]
    BY DEF Content, TabGet, HashGet, GetIn
  <2>2. k \in 1..l => k \in 1..m \/ k = m + 1 \/ k \in (m + 2)..l
    BY <1>4, <1>6
  <2>. QED
    BY <1>4, <1>5, <1>6, <2>1, <2>2 DEF alen
<1>9. Content = MapOfList(vs)
  BY <1>8 DEF Content, MapOfList
<1>. QED
  BY <1>1, <1>7, <1>9 DEF DInv, M!Init, M!MapOfList, MapOfList, M!Lists, Lists,
     M!Keys, Keys, M!IntKeys, IntKeys, M!ValOrNil, ValOrNil

(* No key is present in both parts, in every program in which no call has    *)
(* left the array part's continuation in the hash part.                     *)
THEOREM PartsStayDisjoint == SpecAttached => []PartsDisjoint
<1>1. DInv => PartsDisjoint
  BY DEF DInv
<1>. QED
  BY InitDInv, NextDInv, <1>1, PTL DEF SpecAttached

(* In those programs the two-part table is a map: stores, positional inserts, *)
(* removals and moves, with all their trimming, absorbing and demoting, are   *)
(* steps of LuaMap.                                                         *)
THEOREM TableIsMap == SpecAttached => ImplementsMap
<1>1. DInv /\ [Next /\ Attached']_vars => DInv' /\ [M!Next]_Content
  BY NextDInv, MapStepRefines
<1>. QED
  BY InitDInv, <1>1, PTL DEF SpecAttached, ImplementsMap, M!Spec

(* In those programs every call does to what reads see exactly what the     *)
(* call stands for: the stores through $tab_set on each of its paths, and   *)
(* the memmoves of table.insert, table.remove and table.move.               *)
THEOREM CallsAreEffective == SpecAttached => CallsTakeEffect
<1>. DEFINE Effect ==
       /\ \A k \in Keys, v \in ValOrNil :
            Store(k, v) => Content' = [Content EXCEPT ![k] = v]
       /\ \A n \in 0..(MaxInt - 1), v \in ValOrNil : \A pos \in 1..(n + 1) :
            TabLen(n) /\ TableInsertFast(n, pos, v) => Content' = Inserted(Content, n, pos, v)
       /\ \A n \in 0..MaxInt, pos \in IntKeys :
            TableRemoveFast(n, pos) => Content' = Removed(Content, n, pos)
       /\ \A f, cnt, t \in 1..MaxInt :
            TableMoveFast(f, cnt, t) => Content' = Moved(Content, f, cnt, t)
<1>1. ASSUME DInv PROVE Effect
  <2>1. ASSUME NEW k \in Keys, NEW v \in ValOrNil, Store(k, v)
        PROVE  Content' = [Content EXCEPT ![k] = v]
    BY <1>1, <2>1, TabSetContent DEF Store
  <2>2. ASSUME NEW n \in 0..(MaxInt - 1), NEW v \in ValOrNil, NEW pos \in 1..(n + 1),
               TabLen(n), TableInsertFast(n, pos, v)
        PROVE  Content' = Inserted(Content, n, pos, v)
    BY <1>1, <2>2, InsertFastContent
  <2>3. ASSUME NEW n \in 0..MaxInt, NEW pos \in IntKeys, TableRemoveFast(n, pos)
        PROVE  Content' = Removed(Content, n, pos)
    BY <1>1, <2>3, RemoveFastContent
  <2>4. ASSUME NEW f \in 1..MaxInt, NEW cnt \in 1..MaxInt, NEW t \in 1..MaxInt,
               TableMoveFast(f, cnt, t)
        PROVE  Content' = Moved(Content, f, cnt, t)
    BY <1>1, <2>4, MoveFastContent
  <2>. QED
    BY <2>1, <2>2, <2>3, <2>4
<1>2. DInv /\ [Next /\ Attached']_vars => DInv'
  BY NextDInv
<1>3. DInv => [Effect]_vars
  BY <1>1
<1>. HIDE DEF Effect
<1>4. []DInv => [][Effect]_vars
  BY <1>3, PTL
<1>. QED
  BY InitDInv, <1>2, <1>4, PTL DEF SpecAttached, CallsTakeEffect, Effect
=============================================================================
