--------------------------- MODULE HashIndex_proof ---------------------------
(***************************************************************************)
(* Theorems about HashIndex, for every set of keys, every hash function,   *)
(* every smallest index and every sharing limit.                           *)
(***************************************************************************)
EXTENDS HashIndex, FiniteSetTheorems, TLAPS

USE ShareMaxAssumption, MinIndexAssumption, StringsAssumption, HashAssumption

(* No key is inserted twice. *)
Distinct == \A p, q \in 1..Len(keys) : keys[p] = keys[q] => p = q

(* At most half of the index is in use once every key is placed. *)
Room == 2 * Len(keys) <= size

(* No position is in two slots. *)
OneSlot == \A s, x \in SlotsOf(size) : idx[s] = idx[x] /\ idx[s] # 0 => s = x

(* Every placed key sits on its probe path, behind occupied slots only. *)
Reaches(p, s) ==
  /\ idx[s] = p
  /\ \A x \in SlotsOf(size) : Before(Home(keys[p]), s, x) => idx[x] # 0
OnPath == \A p \in 1..placed : \E s \in SlotsOf(size) : Reaches(p, s)

IInv == TypeOK /\ Distinct /\ Room /\ OneSlot /\ OnPath
-----------------------------------------------------------------------------
(* The placed positions are fewer than the slots, so some slot is empty: a  *)
(* full index would map two slots to one position.                          *)
LEMMA SomeSlotEmpty == IInv => EmptySlot
<1>. SUFFICES ASSUME IInv, ~EmptySlot PROVE FALSE
  OBVIOUS
<1>. USE DEF IInv
<1>1. size \in Nat \ {0} /\ Len(keys) \in Nat /\ placed \in 0..Len(keys) /\ 2 * Len(keys) <= size
  BY DEF TypeOK, Room
<1>2. idx \in [0..(size - 1) -> 1..placed]
  BY DEF TypeOK, EmptySlot, SlotsOf
<1>3. /\ IsFiniteSet(0..(size - 1)) /\ Cardinality(0..(size - 1)) = size
      /\ IsFiniteSet(1..placed) /\ Cardinality(1..placed) = placed
  <2>1. 0 \in Int /\ 1 \in Int /\ size - 1 \in Int /\ placed \in Int
    BY <1>1
  <2>2. /\ IsFiniteSet(0..(size - 1))
        /\ Cardinality(0..(size - 1)) = IF 0 > size - 1 THEN 0 ELSE (size - 1) - 0 + 1
    BY <2>1, FS_Interval, Zenon
  <2>3. /\ IsFiniteSet(1..placed)
        /\ Cardinality(1..placed) = IF 1 > placed THEN 0 ELSE placed - 1 + 1
    BY <2>1, FS_Interval, Zenon
  <2>. QED
    BY <1>1, <2>2, <2>3
<1>4. placed < size
  BY <1>1
<1>5. \E s, x \in 0..(size - 1) : s # x /\ idx[s] = idx[x]
  <2> DEFINE S == 0..(size - 1)
             T == 1..placed
  <2>1. IsFiniteSet(S) /\ IsFiniteSet(T) /\ Cardinality(T) < Cardinality(S) /\ idx \in [S -> T]
    BY <1>2, <1>3, <1>4
  <2>. HIDE DEF S, T
  <2>2. \E x, y \in S : x # y /\ idx[x] = idx[y]
    <3>1. \A f : f \in [S -> T] => \E x, y \in S : x # y /\ f[x] = f[y]
      <4>. SUFFICES ASSUME NEW f, f \in [S -> T]
                    PROVE  \E x, y \in S : x # y /\ f[x] = f[y]
        OBVIOUS
      <4>. QED
        BY <2>1, FS_PigeonHole
    <3>. QED
      BY <2>1, <3>1
  <2>. QED
    BY <2>2 DEF S
<1>. QED
  BY <1>2, <1>5 DEF OneSlot, SlotsOf, EmptySlot

(* A probe that finds no key stops: among the empty slots there is one      *)
(* with no empty slot before it.                                            *)
LEMMA FirstEmptySlot ==
  ASSUME TypeOK, EmptySlot, NEW h \in SlotsOf(size)
  PROVE  \E s \in SlotsOf(size) : FreeFrom(h, s)
<1> DEFINE Dist(s) == IF h <= s THEN s - h ELSE s - h + size
           E == {s \in SlotsOf(size) : idx[s] = 0}
           D == {Dist(s) : s \in E}
           R == OpToRel(<, Nat)
<1>1. size \in Nat \ {0} /\ h \in 0..(size - 1)
  BY DEF TypeOK, SlotsOf
<1>2. \A s \in SlotsOf(size) : Dist(s) \in Nat
  BY <1>1 DEF SlotsOf
<1>3. D \subseteq Nat /\ D # {}
  BY <1>2 DEF EmptySlot
<1>4. IsWellFoundedOn(R, Nat)
  BY NatLessThanWellFounded, Zenon
<1>. HIDE DEF D, R
<1>5. PICK d \in D : \A y \in D : ~(<<y, d>> \in R)
  BY <1>3, <1>4, WFMin, Zenon
<1>6. PICK s \in E : d = Dist(s)
  BY <1>5 DEF D
<1>7. \A x \in E : ~(Dist(x) < Dist(s))
  BY <1>2, <1>5, <1>6 DEF D, R, OpToRel
<1>8. \A x \in SlotsOf(size) : Before(h, s, x) => Dist(x) < Dist(s)
  BY <1>1, <1>6 DEF Before, SlotsOf
<1>. QED
  BY <1>6, <1>7, <1>8 DEF FreeFrom
-----------------------------------------------------------------------------
(* The index built for n keys has more than twice as many slots. *)
LEMMA FreshIndexFacts ==
  ASSUME NEW ks \in Seq(Keys), NEW n \in Nat, FreshIndex(ks, n)
  PROVE  /\ size' \in Nat \ {0} /\ size' >= 2 * (n + 1)
         /\ idx' = [s \in SlotsOf(size') |-> 0]
         /\ keys' = ks /\ placed' = 0
<1>1. PICK m \in IndexSizes(n) : /\ IsIndexSize(n, m)
                                 /\ size' = m
                                 /\ idx' = [s \in SlotsOf(m) |-> 0]
                                 /\ keys' = ks
                                 /\ placed' = 0
  BY Zenon DEF FreshIndex
<1>2. m >= 2 * (n + 1)
  BY <1>1, Zenon DEF IsIndexSize
<1>3. m \in Nat \ {0}
  BY DEF IndexSizes
<1>. QED
  BY <1>1, <1>2, <1>3

(* A fresh index that has room for its keys satisfies the invariant, when   *)
(* the keys are distinct.                                                   *)
LEMMA FreshIndexIInv ==
  ASSUME NEW ks \in Seq(Keys), NEW n \in Nat, FreshIndex(ks, n), Len(ks) <= n + 1,
         \A p, q \in 1..Len(ks) : ks[p] = ks[q] => p = q,
         live' \subseteq 1..Len(ks), own' \in BOOLEAN
  PROVE  IInv'
<1>1. /\ size' \in Nat \ {0} /\ size' >= 2 * (n + 1)
      /\ idx' = [s \in SlotsOf(size') |-> 0]
      /\ keys' = ks /\ placed' = 0
  BY FreshIndexFacts
<1>2. TypeOK'
  <2>1. idx' \in [SlotsOf(size') -> 0..0]
    BY <1>1
  <2>. QED
    BY <1>1, <2>1 DEF TypeOK
<1>3. Distinct'
  BY <1>1 DEF Distinct
<1>4. Room'
  BY <1>1 DEF Room
<1>5. OneSlot' /\ OnPath'
  BY <1>1 DEF OneSlot, OnPath
<1>. QED
  BY <1>2, <1>3, <1>4, <1>5 DEF IInv

(* A key the probe does not find is not in the table: had it been inserted, *)
(* the slots up to it would be occupied by other keys.                      *)
LEMMA AbsentIsNew ==
  ASSUME IInv, NEW k \in Keys, Absent(k)
  PROVE  \A p \in 1..Len(keys) : keys[p] # k
<1>. SUFFICES ASSUME NEW p \in 1..Len(keys), keys[p] = k PROVE FALSE
  OBVIOUS
<1>1. PICK s \in SlotsOf(size) : Probe(k, s) /\ idx[s] = 0
  BY DEF Absent
<1>2. placed = Len(keys)
  BY DEF Absent, Idle
<1>3. PICK t \in SlotsOf(size) : Reaches(p, t)
  BY <1>2 DEF IInv, OnPath
<1>4. s # t /\ ~Before(Home(k), t, s) /\ StopsAt(k, t)
  BY <1>1, <1>3 DEF Reaches, StopsAt
<1>5. ~Before(Home(k), s, t)
  BY <1>1, <1>4 DEF Probe
<1>6. size \in Nat \ {0} /\ Home(k) \in SlotsOf(size)
  BY DEF IInv, TypeOK, Home, SlotsOf
<1>. QED
  BY <1>4, <1>5, <1>6 DEF Before, SlotsOf

(* A table's keys followed by a new one are distinct. *)
LEMMA AppendDistinct ==
  ASSUME NEW ks \in Seq(Keys), NEW k \in Keys,
         \A p, q \in 1..Len(ks) : ks[p] = ks[q] => p = q,
         \A p \in 1..Len(ks) : ks[p] # k
  PROVE  /\ Append(ks, k) \in Seq(Keys) /\ Len(Append(ks, k)) = Len(ks) + 1
         /\ \A p, q \in 1..Len(Append(ks, k)) :
               Append(ks, k)[p] = Append(ks, k)[q] => p = q
OBVIOUS
-----------------------------------------------------------------------------
(* The initial index is empty. *)
LEMMA InitIInv == Init => IInv
<1>. SUFFICES ASSUME Init PROVE IInv
  OBVIOUS
<1>1. idx \in [SlotsOf(size) -> 0..0]
  BY DEF Init
<1>2. keys = <<>> /\ Len(keys) = 0 /\ size = MinIndex /\ placed = 0 /\ live = {} /\ own = FALSE
  BY DEF Init
<1>3. TypeOK
  <2>1. own \in BOOLEAN
    BY <1>2, Zenon
  <2>2. keys \in Seq(Keys) /\ size \in Nat \ {0} /\ placed \in 0..Len(keys) /\ 0..0 = 0..placed
    BY <1>2
  <2>3. live \subseteq 1..Len(keys) /\ idx \in [SlotsOf(size) -> 0..placed]
    BY <1>1, <1>2, <2>2
  <2>. QED
    BY <2>1, <2>2, <2>3 DEF TypeOK
<1>4. Distinct /\ Room /\ OnPath
  BY <1>2 DEF Distinct, Room, OnPath
<1>5. OneSlot
  BY DEF Init, OneSlot
<1>. QED
  BY <1>3, <1>4, <1>5 DEF IInv

(* A store or a deletion changes only which positions are live. *)
LEMMA UpdateIInv ==
  ASSUME IInv, NEW k \in Keys, NEW nil \in BOOLEAN, Update(k, nil)
  PROVE  IInv'
<1>1. PICK s \in SlotsOf(size) :
         /\ Probe(k, s) /\ idx[s] # 0
         /\ live' = IF nil THEN live \ {idx[s]} ELSE live \cup {idx[s]}
  BY DEF Update
<1>2. live' \subseteq 1..Len(keys)
  <2>1. live' \subseteq live \cup {idx[s]}
    BY <1>1
  <2>2. idx[s] \in 1..Len(keys) /\ live \subseteq 1..Len(keys)
    BY <1>1 DEF IInv, TypeOK
  <2>. QED
    BY <2>1, <2>2
<1>3. UNCHANGED <<keys, own, size, idx, placed>>
  BY DEF Update
<1>4. TypeOK'
  BY <1>2, <1>3 DEF IInv, TypeOK
<1>5. Distinct' /\ Room' /\ OneSlot'
  BY <1>3 DEF IInv, Distinct, Room, OneSlot
<1>6. OnPath'
  BY <1>3 DEF IInv, OnPath, Reaches, Home
<1>. QED
  BY <1>4, <1>5, <1>6 DEF IInv

(* A shared shape's child: the old keys, a new one and a fresh index. *)
LEMMA InsertSharedIInv ==
  ASSUME IInv, NEW k \in Keys, InsertShared(k)
  PROVE  IInv'
<1>1. \A p \in 1..Len(keys) : keys[p] # k
  BY AbsentIsNew DEF InsertShared
<1>2. keys \in Seq(Keys) /\ Len(keys) \in Nat
  BY DEF IInv, TypeOK
<1> DEFINE ks == Append(keys, k)
<1>3. /\ ks \in Seq(Keys) /\ Len(ks) = Len(keys) + 1
      /\ \A p, q \in 1..Len(ks) : ks[p] = ks[q] => p = q
  BY <1>1, <1>2, AppendDistinct DEF IInv, Distinct
<1>4. live' \subseteq 1..Len(ks) /\ own' \in BOOLEAN
  BY <1>2, <1>3 DEF InsertShared, IInv, TypeOK
<1>5. FreshIndex(ks, Len(keys) + 1)
  BY DEF InsertShared
<1>6. Len(ks) <= (Len(keys) + 1) + 1 /\ Len(keys) + 1 \in Nat
  BY <1>2, <1>3
<1>. HIDE DEF ks
<1>. QED
  BY <1>3, <1>4, <1>5, <1>6, FreshIndexIInv

(* An owned shape with room: one more key, still to be placed. *)
LEMMA InsertOwnedIInv ==
  ASSUME IInv, NEW k \in Keys, InsertOwned(k)
  PROVE  IInv'
<1>1. \A p \in 1..Len(keys) : keys[p] # k
  BY AbsentIsNew DEF InsertOwned
<1>2. keys \in Seq(Keys) /\ Len(keys) \in Nat /\ size \in Nat /\ placed \in 0..Len(keys)
  BY DEF IInv, TypeOK
<1>3. /\ keys' \in Seq(Keys) /\ Len(keys') = Len(keys) + 1
      /\ \A p, q \in 1..Len(keys') : keys'[p] = keys'[q] => p = q
  BY <1>1, <1>2, AppendDistinct DEF IInv, Distinct, InsertOwned
<1>4. UNCHANGED <<size, idx, placed>> /\ \A p \in 1..placed : keys'[p] = keys[p]
  BY <1>2 DEF InsertOwned
<1>5. TypeOK'
  <2>1. own' \in BOOLEAN
    BY Zenon DEF InsertOwned
  <2>2. live' \subseteq 1..Len(keys')
    <3>1. live' = live \cup {Len(keys) + 1} /\ live \subseteq 1..Len(keys)
      BY Zenon DEF IInv, TypeOK, InsertOwned
    <3>2. Len(keys') = Len(keys) + 1
      BY <1>3
    <3>3. \A p \in 1..Len(keys) : p \in 1..Len(keys')
      BY <1>2, <3>2
    <3>4. Len(keys) + 1 \in 1..Len(keys')
      BY <1>2, <3>2
    <3>. QED
      BY <3>1, <3>3, <3>4, Zenon
  <2>3. size' \in Nat \ {0} /\ placed' \in 0..Len(keys') /\ idx' \in [SlotsOf(size') -> 0..placed']
    BY <1>2, <1>3, <1>4 DEF IInv, TypeOK
  <2>. QED
    BY <1>3, <2>1, <2>2, <2>3 DEF TypeOK
<1>6. Room'
  BY <1>2, <1>3, <1>4 DEF InsertOwned, HalfFull, Room
<1>7. Distinct' /\ OneSlot'
  BY <1>3, <1>4 DEF IInv, Distinct, OneSlot
<1>8. OnPath'
  BY <1>2, <1>4, SMTT(30) DEF IInv, OnPath, Reaches, Home
<1>. QED
  BY <1>5, <1>6, <1>7, <1>8 DEF IInv

(* A rebuild keeps the live keys, each once, and adds the new one. *)
LEMMA RebuildIInv ==
  ASSUME IInv, NEW k \in Keys, Rebuild(k)
  PROVE  IInv'
<1>1. PICK at \in LiveOrder : FreshIndex(Compacted(at, k), Live)
  BY Zenon DEF Rebuild
<1>2. keys \in Seq(Keys) /\ Len(keys) \in Nat /\ live \subseteq 1..Len(keys)
  BY DEF IInv, TypeOK
<1>3. Live \in Nat
  <2>1. IsFiniteSet(1..Len(keys))
    BY <1>2, FS_Interval
  <2>2. IsFiniteSet(live)
    BY <1>2, <2>1, FS_Subset
  <2>. QED
    BY <2>2, FS_CardinalityType DEF Live
<1>. DEFINE ls == [j \in 1..Live |-> keys[at[j]]]
<1>4. at \in [1..Live -> live] /\ \A i, j \in 1..Live : i < j => at[i] < at[j]
  BY DEF LiveOrder
<1>5. \A j \in 1..Live : at[j] \in 1..Len(keys) /\ ls[j] = keys[at[j]]
  BY <1>2, <1>4
<1>6. ls \in Seq(Keys) /\ Len(ls) = Live
  BY <1>2, <1>3, <1>5
<1>7. \A p, q \in 1..Live : at[p] = at[q] => p = q
  BY <1>3, <1>4, <1>5
<1>8. \A p, q \in 1..Len(ls) : ls[p] = ls[q] => p = q
  BY <1>5, <1>6, <1>7 DEF IInv, Distinct
<1>9. \A p \in 1..Len(ls) : ls[p] # k
  <2>1. Absent(k)
    BY DEF Rebuild
  <2>. QED
    BY <1>5, <1>6, <2>1, AbsentIsNew
<1>10. Compacted(at, k) = Append(ls, k)
  BY DEF Compacted
<1>. HIDE DEF ls
<1>. DEFINE ks == Compacted(at, k)
<1>11. /\ ks \in Seq(Keys) /\ Len(ks) = Live + 1
       /\ \A p, q \in 1..Len(ks) : ks[p] = ks[q] => p = q
  BY <1>6, <1>8, <1>9, <1>10, AppendDistinct
<1>12. live' \subseteq 1..Len(ks) /\ own' \in BOOLEAN
  BY <1>11 DEF Rebuild
<1>13. FreshIndex(ks, Live)
  BY <1>1
<1>14. Len(ks) <= Live + 1
  BY <1>3, <1>11
<1>. HIDE DEF ks
<1>. QED
  BY <1>3, <1>11, <1>12, <1>13, <1>14, FreshIndexIInv

(* Placing a key fills the first empty slot of its path; no path loses an   *)
(* occupied slot.                                                           *)
LEMMA PlaceNextIInv ==
  ASSUME IInv, PlaceNext
  PROVE  IInv'
<1>1. PICK s \in SlotsOf(size) :
         /\ FreeFrom(Home(keys[placed + 1]), s)
         /\ idx' = [idx EXCEPT ![s] = placed + 1]
  BY DEF PlaceNext
<1>2. placed' = placed + 1 /\ UNCHANGED <<keys, live, own, size>>
  BY DEF PlaceNext
<1>3. Len(keys) \in Nat /\ placed \in 0..Len(keys) /\ placed # Len(keys)
  BY DEF IInv, TypeOK, PlaceNext, Idle
<1>4. idx \in [SlotsOf(size) -> 0..placed] /\ idx[s] = 0
  BY <1>1 DEF IInv, TypeOK, FreeFrom
<1>5. \A x \in SlotsOf(size) : idx'[x] = IF x = s THEN placed + 1 ELSE idx[x]
  BY <1>1, <1>4
<1>6. TypeOK'
  <2>1. idx' \in [SlotsOf(size) -> 0..(placed + 1)]
    BY <1>1, <1>3, <1>4
  <2>. QED
    BY <1>2, <1>3, <2>1 DEF IInv, TypeOK
<1>7. Distinct' /\ Room'
  BY <1>2 DEF IInv, Distinct, Room
<1>8. OneSlot'
  BY <1>2, <1>3, <1>4, <1>5 DEF IInv, OneSlot
<1>9. OnPath'
  <2>. SUFFICES ASSUME NEW p \in 1..(placed + 1)
                PROVE  \E t \in SlotsOf(size) : Reaches(p, t)'
    BY <1>2 DEF OnPath
  <2>1. \A x \in SlotsOf(size) : idx[x] # 0 => idx'[x] # 0
    BY <1>3, <1>5
  <2>2. Home(keys[p])' = Home(keys[p])
    BY <1>2 DEF Home
  <2>3. CASE p = placed + 1
    <3>1. Reaches(p, s)'
      BY <1>1, <1>2, <1>5, <2>1, <2>2, <2>3 DEF Reaches, FreeFrom
    <3>. QED
      BY <3>1
  <2>4. CASE p \in 1..placed
    <3>1. PICK t \in SlotsOf(size) : Reaches(p, t)
      BY <2>4 DEF IInv, OnPath
    <3>2. Reaches(p, t)'
      BY <1>2, <1>4, <1>5, <2>1, <2>2, <2>4, <3>1 DEF Reaches
    <3>. QED
      BY <3>2
  <2>. QED
    BY <1>3, <2>3, <2>4
<1>. QED
  BY <1>6, <1>7, <1>8, <1>9 DEF IInv

(* Every step preserves the invariant. *)
LEMMA NextIInv == IInv /\ [Next]_vars => IInv'
<1>. SUFFICES ASSUME IInv, [Next]_vars PROVE IInv'
  OBVIOUS
<1>1. CASE \E k \in Keys, nil \in BOOLEAN : Update(k, nil)
  BY <1>1, UpdateIInv
<1>2. CASE \E k \in Keys : InsertShared(k)
  BY <1>2, InsertSharedIInv
<1>3. CASE \E k \in Keys : InsertOwned(k)
  BY <1>3, InsertOwnedIInv
<1>4. CASE \E k \in Keys : Rebuild(k)
  BY <1>4, RebuildIInv
<1>5. CASE PlaceNext
  BY <1>5, PlaceNextIInv
<1>6. CASE UNCHANGED vars
  BY <1>6 DEF vars, IInv, TypeOK, Distinct, Room, OneSlot, OnPath, Reaches, Home
<1>. QED
  BY <1>1, <1>2, <1>3, <1>4, <1>5, <1>6 DEF Next

(* The probe of a key that is in the table ends at its slot, the probe of   *)
(* any other key at the first empty slot of its path.                       *)
LEMMA IInvLookup == IInv => LookupExact
<1>. SUFFICES ASSUME IInv, Idle, NEW k \in Keys
              PROVE  \E s \in SlotsOf(size) : /\ Probe(k, s)
                                              /\ PositionOf(k) = {idx[s]} \ {0}
  BY DEF LookupExact
<1>1. size \in Nat \ {0} /\ Home(k) \in SlotsOf(size)
  BY DEF IInv, TypeOK, Home, SlotsOf
<1>2. placed = Len(keys) /\ Len(keys) \in Nat /\ idx \in [SlotsOf(size) -> 0..Len(keys)]
  BY DEF Idle, IInv, TypeOK
<1>3. CASE PositionOf(k) = {}
  <2>1. PICK s \in SlotsOf(size) : FreeFrom(Home(k), s)
    BY <1>1, SomeSlotEmpty, FirstEmptySlot DEF IInv
  <2>2. \A x \in SlotsOf(size) : idx[x] # 0 => ~StopsAt(k, x)
    BY <1>2, <1>3 DEF StopsAt, PositionOf
  <2>3. Probe(k, s) /\ idx[s] = 0
    BY <2>1, <2>2 DEF Probe, FreeFrom, StopsAt
  <2>. QED
    BY <1>3, <2>3
<1>4. CASE PositionOf(k) # {}
  <2>1. PICK p \in 1..Len(keys) : keys[p] = k
    BY <1>4 DEF PositionOf
  <2>2. PositionOf(k) = {p}
    BY <2>1 DEF PositionOf, IInv, Distinct
  <2>3. PICK s \in SlotsOf(size) : Reaches(p, s)
    BY <1>2, <2>1 DEF IInv, OnPath
  <2>4. \A x \in SlotsOf(size) : Before(Home(k), s, x) => x # s /\ idx[x] # 0
    BY <1>1, <2>1, <2>3 DEF Reaches, Before, SlotsOf
  <2>5. \A x \in SlotsOf(size) : x # s /\ idx[x] # 0 => ~StopsAt(k, x)
    <3>. SUFFICES ASSUME NEW x \in SlotsOf(size), x # s, idx[x] # 0, keys[idx[x]] = k
                  PROVE  FALSE
      BY DEF StopsAt
    <3>1. idx[x] \in 1..Len(keys) /\ idx[x] = p
      BY <1>2, <2>1 DEF IInv, Distinct
    <3>. QED
      BY <2>3, <3>1 DEF IInv, OneSlot, Reaches
  <2>6. Probe(k, s) /\ idx[s] = p /\ p # 0
    BY <2>1, <2>3, <2>4, <2>5 DEF Probe, StopsAt, Reaches
  <2>. QED
    BY <2>2, <2>6
<1>. QED
  BY <1>3, <1>4
-----------------------------------------------------------------------------
(* The types hold, and the index refers only to positions of placed keys.   *)
THEOREM TypeCorrect == Spec => []TypeOK
<1>1. IInv => TypeOK
  BY DEF IInv
<1>. QED
  BY InitIInv, NextIInv, <1>1, PTL DEF Spec

(* Every probe loop of $tab_find_str, $tab_index_lookup_h and the index     *)
(* builders ends, for every hash function: some slot is always empty.       *)
THEOREM ProbesEnd == Spec => []EmptySlot
BY InitIInv, NextIInv, SomeSlotEmpty, PTL DEF Spec

(* A lookup finds a key exactly when it was inserted and not compacted      *)
(* away, at its position, for every hash function.                          *)
THEOREM LookupsExact == Spec => []LookupExact
BY InitIInv, NextIInv, IInvLookup, PTL DEF Spec
=============================================================================
