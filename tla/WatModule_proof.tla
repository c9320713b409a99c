-------------------------- MODULE WatModule_proof --------------------------
(***************************************************************************)
(* What the assembler promises of a module, whatever its text.  Three parts *)
(* of the inductive invariant follow the phases: TextInv says what the       *)
(* tables hold of the text that was read, MarkInv and ReachInv what is       *)
(* marked while and after the worklist runs, EmitInv what the sections are   *)
(* made from.  From it: dead-code elimination keeps exactly what the         *)
(* exported functions lead to, a reference in the binary denotes what its    *)
(* name meant, types survive the renumbering of signatures, and the locals   *)
(* are where their instructions look for them.                              *)
(***************************************************************************)
EXTENDS WatModule, FiniteSetTheorems, WellFoundedInduction, TLAPS


(* While marking, only an entity on the worklist may refer to something that *)
(* is not marked, and no closed set lacks a marked entity.                  *)
MarkInv ==
    /\ phase = "mark" => dce
    /\ phase \in {"mark", "prune", "emit"} /\ dce =>
          /\ Roots \subseteq reach
          /\ work \subseteq reach
          /\ \A e \in reach \ work : Refs(e) \subseteq reach
          /\ \A C \in SUBSET Entities : ClosedUnderRefs(C) => reach \subseteq C
          /\ phase # "mark" => work = {}

-----------------------------------------------------------------------------
(* What the marking loop walks over is determined by the text that was read. *)
LEMMA SourceFixes ==
    ASSUME UNCHANGED source
    PROVE  /\ dce' = dce /\ Roots' = Roots /\ Entities' = Entities
           /\ \A e : Refs(e)' = Refs(e)
           /\ \A C : ClosedUnderRefs(C)' = ClosedUnderRefs(C)
<1>1. /\ dce' = dce /\ imports' = imports /\ funcs' = funcs /\ globals' = globals
  BY DEF source
<1>2. Roots' = Roots /\ Entities' = Entities
  BY <1>1 DEF Roots, Entities, AllFuncs
<1>3. ASSUME NEW e PROVE Refs(e)' = Refs(e)
  <2>1. Code(e)' = Code(e)
    BY <1>1 DEF Code, AllFuncs
  <2>2. ASSUME NEW r PROVE Target(r)' = Target(r)
    BY <1>1 DEF Target, ResolveFunc, ResolveGlobal, FuncNames, AllFuncs
  <2> QED BY <2>1, <2>2 DEF Refs, Refers
<1>4. ASSUME NEW C PROVE ClosedUnderRefs(C)' = ClosedUnderRefs(C)
  BY <1>2, <1>3 DEF ClosedUnderRefs
<1> QED BY <1>1, <1>2, <1>3, <1>4

(* The invariant speaks of three phases only. *)
LEMMA OtherPhases ==
    ASSUME phase' \in {"types", "fields", "done"}
    PROVE  MarkInv'
BY DEF MarkInv

(* The roots are marked and all of them still to be scanned. *)
LEMMA MarkRootsKeeps ==
    ASSUME MarkRoots
    PROVE  MarkInv'
<1>1. UNCHANGED source BY DEF MarkRoots
<1>2. ASSUME dce
      PROVE  reach' = Roots' /\ work' = Roots' /\ phase' = "mark"
  BY <1>1, <1>2, SourceFixes DEF MarkRoots
<1>3. ASSUME ~dce PROVE phase' = "prune" BY <1>3 DEF MarkRoots
<1>4. dce' = dce BY <1>1, SourceFixes
<1>5. ASSUME NEW C, ClosedUnderRefs(C)' PROVE Roots' \subseteq C
  BY <1>5 DEF ClosedUnderRefs
<1> QED BY <1>2, <1>3, <1>4, <1>5 DEF MarkInv

(* An entity is scanned: what it refers to is marked, and what was not      *)
(* marked before is put on the worklist.                                    *)
LEMMA PopKeeps ==
    ASSUME MarkInv, NEW e \in work, Pop(e)
    PROVE  MarkInv'
<1>1. CASE None \in Refs(e) /\ Fail
  BY <1>1, OtherPhases DEF Fail
<1>2. CASE /\ None \notin Refs(e)
           /\ reach' = reach \cup Refs(e)
           /\ work' = (work \ {e}) \cup (Refs(e) \ reach)
           /\ UNCHANGED <<phase, sigs, remap, out, err>> /\ UNCHANGED source
  <2>1. /\ phase = "mark" /\ phase' = "mark" /\ dce
    BY <1>2 DEF Pop, MarkInv
  <2>2. /\ Roots \subseteq reach /\ work \subseteq reach
        /\ \A d \in reach \ work : Refs(d) \subseteq reach
        /\ \A C \in SUBSET Entities : ClosedUnderRefs(C) => reach \subseteq C
    BY <2>1 DEF MarkInv
  <2>3. /\ dce' = dce /\ Roots' = Roots /\ Entities' = Entities
        /\ \A d : Refs(d)' = Refs(d)
        /\ \A C : ClosedUnderRefs(C)' = ClosedUnderRefs(C)
    BY <1>2, SourceFixes
  <2>4. Roots' \subseteq reach' /\ work' \subseteq reach'
    BY <1>2, <2>2, <2>3
  <2>5. ASSUME NEW d \in reach' \ work' PROVE Refs(d)' \subseteq reach'
    <3>1. d = e \/ d \in reach \ work BY <1>2, <2>2, <2>5
    <3> QED BY <3>1, <1>2, <2>2, <2>3
  <2>6. ASSUME NEW C \in SUBSET Entities, ClosedUnderRefs(C) PROVE reach' \subseteq C
    <3>1. reach \subseteq C BY <2>2, <2>6
    <3>2. Refs(e) \subseteq C BY <3>1, <2>2, <2>6 DEF ClosedUnderRefs
    <3> QED BY <3>1, <3>2, <1>2
  <2>7. \A C \in SUBSET Entities' : ClosedUnderRefs(C)' => reach' \subseteq C
    BY <2>3, <2>6
  <2> QED BY <2>1, <2>3, <2>4, <2>5, <2>7 DEF MarkInv
<1> QED BY <1>1, <1>2 DEF Pop

(* The steps after the loop, and stuttering, change nothing it speaks of.    *)
LEMMA QuietKeeps ==
    ASSUME MarkInv, UNCHANGED <<reach, work>>, UNCHANGED source,
           \/ phase' = phase
           \/ phase = "mark" /\ work = {} /\ phase' = "prune"
           \/ phase = "prune" /\ phase' = "emit"
    PROVE  MarkInv'
<1>1. /\ dce' = dce /\ Roots' = Roots /\ Entities' = Entities
      /\ \A d : Refs(d)' = Refs(d)
      /\ \A C : ClosedUnderRefs(C)' = ClosedUnderRefs(C)
  BY SourceFixes
<1> QED BY <1>1 DEF MarkInv

(* Every step of the assembler preserves the invariant of the marking loop.  *)
LEMMA NextKeeps ==
    ASSUME MarkInv, [Next]_vars
    PROVE  MarkInv'
<1>1. ASSUME NEW t \in Types, ReadType(t) PROVE MarkInv'
  BY <1>1, OtherPhases DEF ReadType
<1>2. CASE EndTypes BY <1>2, OtherPhases DEF EndTypes
<1>3. ASSUME NEW f \in Fields,
             ReadImport(f) \/ ReadFunc(f) \/ ReadGlobal(f) \/ ReadTag(f) \/ ReadElem(f)
      PROVE  MarkInv'
  <2>1. phase' \in {"fields", "done"}
    BY <1>3 DEF ReadImport, ReadFunc, ReadGlobal, ReadTag, ReadElem, Field, Fail
  <2> QED BY <2>1, OtherPhases
<1>4. CASE MarkRoots BY <1>4, MarkRootsKeeps
<1>5. ASSUME NEW e \in work, Pop(e) PROVE MarkInv' BY <1>5, PopKeeps
<1>6. CASE EndMark BY <1>6, QuietKeeps DEF EndMark
<1>7. CASE Prune BY <1>7, QuietKeeps DEF Prune
<1>8. CASE Emit BY <1>8, OtherPhases DEF Emit, Fail
<1>9. CASE UNCHANGED vars BY <1>9, QuietKeeps DEF vars, source
<1> QED BY <1>1, <1>2, <1>3, <1>4, <1>5, <1>6, <1>7, <1>8, <1>9 DEF Next

(* Whatever the module's text, what survives dead-code elimination is the    *)
(* least set that has the exported functions and what its members refer to. *)
THEOREM MarksAlwaysExact == Spec => []MarksExact
<1>1. Init => MarkInv BY DEF Init, MarkInv
<1>2. MarkInv /\ [Next]_vars => MarkInv' BY NextKeeps
<1>3. MarkInv => MarksExact
  <2> SUFFICES ASSUME MarkInv, phase \in {"prune", "emit"}, dce
               PROVE  /\ ClosedUnderRefs(reach)
                      /\ \A C \in SUBSET Entities : ClosedUnderRefs(C) => reach \subseteq C
    BY DEF MarksExact
  <2> QED BY DEF MarkInv, ClosedUnderRefs
<1> QED BY <1>1, <1>2, <1>3, PTL DEF Spec

-----------------------------------------------------------------------------
(* Renumbering: what is kept of positions 1..n, and where it goes.  First, a *)
(* set of naturals has a least element.                                     *)
LEMMA LeastNat ==
  ASSUME NEW T, T \subseteq Nat, T # {}
  PROVE  /\ Least(T) \in T
         /\ \A y \in T : Least(T) <= y
<1> DEFINE R == OpToRel(<, Nat)
<1>1. IsWellFoundedOn(R, Nat)
  BY NatLessThanWellFounded, Zenon
<1>2. \A a, b \in Nat : a < b => <<a, b>> \in R
  BY Zenon DEF OpToRel
<1> HIDE DEF R
<1>3. \E x \in T : \A y \in T : ~(<<y, x>> \in R)
  BY <1>1, WFMin, Zenon
<1>4. PICK x \in T : \A y \in T : ~(<<y, x>> \in R)
  BY <1>3
<1>5. \A y \in T : ~(y < x)
  BY <1>2, <1>4
<1>6. \A y \in T : x <= y
  BY <1>5
<1> QED BY <1>6, Zenon DEF Least

(* A part of a finite set is finite, and smaller unless it is all of it.    *)
LEMMA Smaller ==
  ASSUME NEW S, IsFiniteSet(S), NEW T \in SUBSET S
  PROVE  /\ IsFiniteSet(T) /\ Cardinality(T) \in Nat
         /\ T # S => Cardinality(T) < Cardinality(S)
<1>1. IsFiniteSet(T) /\ Cardinality(T) <= Cardinality(S) /\ (Cardinality(S) = Cardinality(T) => S = T)
  BY FS_Subset, Zenon
<1>2. Cardinality(T) \in Nat /\ Cardinality(S) \in Nat
  BY <1>1, FS_CardinalityType, Zenon
<1> QED BY <1>1, <1>2

(* 1..n has n members.                                                      *)
LEMMA IntervalSize ==
  ASSUME NEW n \in Nat
  PROVE  IsFiniteSet(1..n) /\ Cardinality(1..n) = n
<1> DEFINE one == 1
<1>1. one \in Int /\ n \in Int /\ (IF one > n THEN 0 ELSE n - one + 1) = n
  OBVIOUS
<1> HIDE DEF one
<1>2. IsFiniteSet(one..n) /\ Cardinality(one..n) = IF one > n THEN 0 ELSE n - one + 1
  BY <1>1, FS_Interval, Zenon
<1> QED BY <1>1, <1>2 DEF one

(* The place of i among the kept positions, counted from zero. *)
Rank(K, i) == Cardinality({j \in K : j < i})

(* Ranks count up from zero, in the order of the positions.                 *)
LEMMA RankBounds ==
  ASSUME NEW n \in Nat, NEW K \in SUBSET (1..n)
  PROVE  /\ IsFiniteSet(K) /\ Cardinality(K) \in Nat
         /\ \A i \in K : Rank(K, i) \in 0..(Cardinality(K) - 1)
         /\ \A i, j \in K : i < j => Rank(K, i) < Rank(K, j)
<1>1. IsFiniteSet(K)
  <2> DEFINE U == 1..n
  <2>1. K \in SUBSET U /\ IsFiniteSet(U)
    BY IntervalSize
  <2> HIDE DEF U
  <2> QED BY <2>1, Smaller
<1>2. Cardinality(K) \in Nat
  BY <1>1, FS_CardinalityType
<1>3. ASSUME NEW i \in K
      PROVE  IsFiniteSet({j \in K : j < i}) /\ Rank(K, i) \in Nat
  <2> DEFINE L == {j \in K : j < i}
  <2>1. L \in SUBSET K
    OBVIOUS
  <2> HIDE DEF L
  <2>2. IsFiniteSet(L) /\ Cardinality(L) \in Nat
    BY <2>1, <1>1, Smaller, Zenon
  <2> QED BY <2>2, Zenon DEF Rank, L
<1>4. ASSUME NEW i \in K
      PROVE  Rank(K, i) < Cardinality(K)
  <2> DEFINE L == {j \in K : j < i}
  <2>1. L \in SUBSET K /\ L # K
    <3>1. i \in Nat /\ i \in K /\ ~(i < i)
      OBVIOUS
    <3> QED BY <3>1
  <2> HIDE DEF L
  <2>2. Cardinality(L) < Cardinality(K)
    BY <2>1, <1>1, Smaller, Zenon
  <2>3. Cardinality(L) = Rank(K, i)
    BY Zenon DEF L, Rank
  <2> QED BY <2>2, <2>3, Zenon
<1>5. ASSUME NEW i \in K, NEW j \in K, i < j
      PROVE  Rank(K, i) < Rank(K, j)
  <2> DEFINE L == {k \in K : k < i}
             M == {k \in K : k < j}
  <2>0. \A x \in K : x \in Nat
    OBVIOUS
  <2>1. L \in SUBSET M /\ i \in M /\ i \notin L
    <3>1. \A x \in K : x < i => x < j
      BY <1>5, <2>0
    <3>2. ~(i < i)
      BY <2>0
    <3> QED BY <3>1, <3>2, <1>5
  <2>2. IsFiniteSet(M)
    BY <1>3
  <2>3. Cardinality(L) = Rank(K, i) /\ Cardinality(M) = Rank(K, j)
    BY Zenon DEF Rank
  <2> HIDE DEF L, M
  <2>4. Cardinality(L) < Cardinality(M)
    BY <2>1, <2>2, Smaller
  <2> QED BY <2>3, <2>4
<1>6. ASSUME NEW i \in K
      PROVE  Rank(K, i) \in 0..(Cardinality(K) - 1)
  <2>1. Rank(K, i) \in Nat /\ Rank(K, i) < Cardinality(K)
    BY <1>3, <1>4
  <2> QED BY <2>1, <1>2
<1> QED BY <1>1, <1>2, <1>5, <1>6, Zenon

(* Every number below the size is the rank of a kept position.              *)
LEMMA RankOnto ==
  ASSUME NEW n \in Nat, NEW K \in SUBSET (1..n), NEW k \in 1..Cardinality(K)
  PROVE  \E i \in K : Rank(K, i) = k - 1
<1> DEFINE c == Cardinality(K)
           f == [i \in K |-> Rank(K, i) + 1]
<1>1. /\ IsFiniteSet(K) /\ c \in Nat
      /\ \A i \in K : Rank(K, i) \in 0..(c - 1)
      /\ \A i, j \in K : i < j => Rank(K, i) < Rank(K, j)
  BY RankBounds
<1> HIDE DEF c
<1>2. f \in [K -> 1..c]
  BY <1>1
<1>3. \A i, j \in K : f[i] = f[j] => i = j
  <2> SUFFICES ASSUME NEW i \in K, NEW j \in K, f[i] = f[j], i # j PROVE FALSE
    OBVIOUS
  <2>1. i < j \/ j < i
    OBVIOUS
  <2> QED BY <2>1, <1>1
<1>4. IsFiniteSet(1..c) /\ Cardinality(1..c) = c
  BY <1>1, IntervalSize
<1>5. f \in Surjection(K, 1..c)
  <2> HIDE DEF f
  <2>1. f \in Injection(K, 1..c)
    BY <1>2, <1>3 DEF Injection, IsInjective
  <2> QED BY <2>1, <1>4, FS_Injection DEF c
<1>6. \E i \in K : f[i] = k
  BY <1>5 DEF Surjection, c
<1>7. PICK i \in K : f[i] = k
  BY <1>6
<1> QED BY <1>1, <1>7

(* Two kept positions have different ranks.                                 *)
LEMMA RankUnique ==
  ASSUME NEW n \in Nat, NEW K \in SUBSET (1..n), NEW i \in K, NEW j \in K, Rank(K, i) = Rank(K, j)
  PROVE  i = j
<1>1. /\ \A a \in K : Rank(K, a) \in 0..(Cardinality(K) - 1) /\ Cardinality(K) \in Nat
      /\ \A a, b \in K : a < b => Rank(K, a) < Rank(K, b)
  BY RankBounds
<1>2. ~(i < j) /\ ~(j < i)
  BY <1>1
<1> QED BY <1>2

(* What Kept makes of a sequence: the kept entries, in their order. *)
Selected(t, s, K) ==
  /\ t \in Seq({s[i] : i \in K}) /\ Len(t) = Cardinality(K) /\ Cardinality(K) \in Nat
  /\ \A i \in K : Rank(K, i) + 1 \in 1..Len(t) /\ t[Rank(K, i) + 1] = s[i]
  /\ \A k \in 1..Len(t) : \E i \in K : Rank(K, i) = k - 1 /\ t[k] = s[i]

(* Kept puts each kept entry where its rank says, and nothing else.         *)
LEMMA KeptSelected ==
  ASSUME NEW n \in Nat, NEW K \in SUBSET (1..n), NEW s
  PROVE  Selected(Kept(s, K), s, K)
<1> DEFINE c == Cardinality(K)
           nth(k) == CHOOSE i \in K : Rank(K, i) = k - 1
           t == [k \in 1..c |-> s[nth(k)]]
<1>0. Kept(s, K) = t
  BY Zenon DEF Kept, Rank
<1>1. c \in Nat /\ \A i \in K : Rank(K, i) \in 0..(c - 1)
  BY RankBounds
<1>2. ASSUME NEW k \in 1..c
      PROVE  nth(k) \in K /\ Rank(K, nth(k)) = k - 1
  <2>1. \E i \in K : Rank(K, i) = k - 1
    BY RankOnto
  <2> QED BY <2>1, Zenon
<1>3. ASSUME NEW i \in K
      PROVE  Rank(K, i) + 1 \in 1..c /\ nth(Rank(K, i) + 1) = i
  <2> DEFINE k == Rank(K, i) + 1
  <2>1. k \in 1..c /\ k - 1 = Rank(K, i)
    BY <1>1
  <2> HIDE DEF k
  <2>2. nth(k) \in K /\ Rank(K, nth(k)) = k - 1
    BY <1>2, <2>1
  <2> HIDE DEF nth
  <2>3. nth(k) = i
    BY <2>1, <2>2, RankUnique
  <2> QED BY <2>1, <2>3 DEF k
<1> HIDE DEF nth, c
<1>4. t \in Seq({s[i] : i \in K}) /\ Len(t) = c
  BY <1>1, <1>2
<1>5. \A k \in 1..c : t[k] = s[nth(k)]
  OBVIOUS
<1> HIDE DEF t
<1>6. ASSUME NEW i \in K
      PROVE  Rank(K, i) + 1 \in 1..Len(t) /\ t[Rank(K, i) + 1] = s[i]
  BY <1>3, <1>4, <1>5
<1>7. ASSUME NEW k \in 1..Len(t)
      PROVE  \E i \in K : Rank(K, i) = k - 1 /\ t[k] = s[i]
  BY <1>2, <1>4, <1>5
<1> QED BY <1>0, <1>1, <1>4, <1>6, <1>7 DEF Selected, c

(* The places of positions that come after a prefix that is kept whole. *)
Shifted(a, L) == (1..a) \cup {a + i : i \in L}

ShiftedRanks(a, L, K) == /\ \A i \in 1..a : Rank(K, i) = i - 1
                         /\ \A i \in L : Rank(K, a + i) = a + Rank(L, i)

(* Ranks behind a prefix that is kept as a whole: imports always survive.   *)
LEMMA RankShifted ==
  ASSUME NEW a \in Nat, NEW n \in Nat, NEW L, L \subseteq 1..n, NEW K, K = Shifted(a, L)
  PROVE  ShiftedRanks(a, L, K)
<1>0. K = (1..a) \cup {a + i : i \in L}
  BY DEF Shifted
<1>2. ASSUME NEW i \in 1..a PROVE Rank(K, i) = i - 1
  <2>1. {j \in K : j < i} = 1..(i - 1)
    BY <1>0
  <2>2. i - 1 \in Nat
    OBVIOUS
  <2>3. Cardinality(1..(i - 1)) = i - 1
    BY <2>2, IntervalSize
  <2> QED BY <2>1, <2>3 DEF Rank
<1>3. ASSUME NEW i \in L PROVE Rank(K, a + i) = a + Rank(L, i)
  <2> DEFINE A == {j \in L : j < i}
             B == {a + j : j \in A}
             U == 1..a
  <2>1. IsFiniteSet(A) /\ Cardinality(A) \in Nat
    <3>1. IsFiniteSet(L)
      BY RankBounds
    <3> QED BY <3>1, FS_Subset, FS_CardinalityType
  <2>2. IsFiniteSet(B) /\ Cardinality(B) = Cardinality(A)
    <3> DEFINE h == [j \in A |-> a + j]
    <3>0. \A x \in A : x \in Nat /\ h[x] = a + x /\ a + x \in B
      OBVIOUS
    <3>1. h \in [A -> B]
      BY <3>0
    <3>4. \A x, y \in A : h[x] = h[y] => x = y
      <4> HIDE DEF A, B, h
      <4> QED BY <3>0
    <3>5. \A y \in B : \E x \in A : h[x] = y
      <4> HIDE DEF h, A
      <4> QED BY <3>0
    <3> HIDE DEF h, A, B
    <3>2. h \in Injection(A, B) /\ h \in Surjection(A, B)
      BY <3>1, <3>4, <3>5 DEF Injection, Surjection, IsInjective
    <3>3. ExistsBijection(A, B)
      BY <3>2 DEF ExistsBijection, Bijection
    <3> QED BY <3>3, <2>1, FS_Bijection
  <2>3. IsFiniteSet(U) /\ Cardinality(U) = a
    BY IntervalSize
  <2>4. U \cap B = {}
    <3>1. \A x \in B : \E j \in L : x = a + j /\ j >= 1 /\ j \in Nat
      OBVIOUS
    <3>2. \A x \in B : ~(x <= a)
      <4> HIDE DEF B
      <4> QED BY <3>1
    <3> HIDE DEF B
    <3> QED BY <3>2
  <2>5. {j \in K : j < a + i} = U \cup B
    <3>1. i \in Nat /\ i >= 1
      OBVIOUS
    <3>2. ASSUME NEW x \in U \cup B PROVE x \in K /\ x < a + i
      BY <1>0, <3>1, <3>2
    <3>3. ASSUME NEW x \in K, x < a + i PROVE x \in U \cup B
      <4>1. x \in 1..a \/ \E j \in L : x = a + j
        BY <1>0
      <4>2. ASSUME NEW j \in L, x = a + j PROVE x \in B
        <5>1. j < i
          BY <3>3, <4>2
        <5> QED BY <4>2, <5>1
      <4> QED BY <4>1, <4>2
    <3> HIDE DEF U, B
    <3> QED BY <3>2, <3>3
  <2>6. Cardinality(A) = Rank(L, i)
    BY DEF Rank
  <2> HIDE DEF A, B, U
  <2>7. Cardinality(U \cup B) = Cardinality(U) + Cardinality(B) - Cardinality(U \cap B)
    BY <2>2, <2>3, FS_Union
  <2>8. Cardinality(U \cap B) = 0
    BY <2>4, FS_EmptySet
  <2>9. Cardinality(U \cup B) = Rank(K, a + i)
    BY <2>5 DEF Rank
  <2> QED BY <2>1, <2>2, <2>3, <2>6, <2>7, <2>8, <2>9
<1> QED BY <1>2, <1>3 DEF ShiftedRanks

-----------------------------------------------------------------------------
(* Looking up and appending.                                                *)
Found(names, n, x, i) == i \in 0..(n - 1) /\ i + 1 \in 1..n /\ names[i + 1] = x /\ i # None /\ i >= 0
Missing(names, n, x) == \A i \in 1..n : names[i] # x

(* IndexOf finds an entry of that name, or there is none.                   *)
LEMMA Lookup ==
  ASSUME NEW n \in Nat, NEW names, DOMAIN names = 1..n, NEW x
  PROVE  \/ IndexOf(names, x) = None /\ Missing(names, n, x)
         \/ Found(names, n, x, IndexOf(names, x))
<1> DEFINE S == {i \in 1..n : names[i] = x}
<1>1. IndexOf(names, x) = IF S = {} THEN None ELSE Least(S) - 1
  BY DEF IndexOf
<1>2. CASE S = {}
  BY <1>1, <1>2 DEF Missing
<1>3. CASE S # {}
  <2>1. S \subseteq Nat
    OBVIOUS
  <2>2. Least(S) \in S
    <3> HIDE DEF S
    <3> QED BY <2>1, <1>3, LeastNat
  <2>3. Least(S) \in 1..n /\ names[Least(S)] = x
    BY <2>2
  <2> DEFINE i == Least(S)
  <2> HIDE DEF i
  <2>4. i \in 1..n /\ names[i] = x
    BY <2>3 DEF i
  <2>5. Found(names, n, x, i - 1)
    <3>1. i - 1 \in 0..(n - 1) /\ (i - 1) + 1 = i /\ i - 1 # None /\ i - 1 >= 0
      BY <2>4 DEF None
    <3> QED BY <2>4, <3>1 DEF Found
  <2> QED BY <1>1, <1>3, <2>5 DEF i
<1> QED BY <1>2, <1>3

(* A sequence that starts with all of another. *)
Continues(s, t) == /\ Len(s) \in Nat /\ Len(t) \in Nat /\ Len(s) <= Len(t)
                   /\ \A i \in 1..Len(s) : t[i] = s[i]

(* What Append keeps and adds.                                              *)
LEMMA Appending ==
  ASSUME NEW S, NEW s \in Seq(S), NEW e \in S
  PROVE  /\ Append(s, e) \in Seq(S) /\ Len(Append(s, e)) = Len(s) + 1 /\ Len(s) \in Nat
         /\ Append(s, e)[Len(s) + 1] = e
         /\ \A i \in 1..Len(s) : Append(s, e)[i] = s[i]
         /\ \A i \in 1..Len(Append(s, e)) : i \in 1..Len(s) \/ i = Len(s) + 1
         /\ Continues(s, Append(s, e))
<1>1. /\ Append(s, e) \in Seq(S) /\ Len(Append(s, e)) = Len(s) + 1 /\ Len(s) \in Nat
      /\ Append(s, e)[Len(s) + 1] = e
      /\ \A i \in 1..Len(s) : Append(s, e)[i] = s[i]
  OBVIOUS
<1>2. /\ \A i \in 1..Len(Append(s, e)) : i \in 1..Len(s) \/ i = Len(s) + 1
  BY <1>1
<1>3. Continues(s, Append(s, e))
  BY <1>1 DEF Continues
<1> QED BY <1>1, <1>2, <1>3

(* A continuation of a continuation is one.                                 *)
LEMMA ContinuesOn ==
  ASSUME NEW a, NEW b, NEW c, Continues(a, b), Continues(b, c)
  PROVE  Continues(a, c)
BY DEF Continues

(* A sequence continues itself.                                             *)
LEMMA ContinuesSelf ==
  ASSUME NEW S, NEW s \in Seq(S)
  PROVE  Continues(s, s)
BY DEF Continues

(* A table of signatures after one is interned. *)
LEMMA Interning ==
  ASSUME NEW S, NEW t \in Seq(S), NEW x \in S
  PROVE  /\ Interned(t, x) \in Seq(S) /\ Continues(t, Interned(t, x)) /\ x \in Range(Interned(t, x))
         /\ SigIndex(t, x) + 1 \in 1..Len(Interned(t, x)) /\ SigIndex(t, x) \in Nat
         /\ Interned(t, x)[SigIndex(t, x) + 1] = x
<1> DEFINE u == Interned(t, x)
<1>1. u \in Seq(S) /\ Continues(t, u) /\ \E i \in 1..Len(u) : u[i] = x
  <2>1. CASE x \in Range(t)
    <3>1. u = t
      BY <2>1 DEF Interned
    <3>2. \E i \in 1..Len(t) : t[i] = x
      BY <2>1 DEF Range
    <3> QED BY <3>1, <3>2, ContinuesSelf
  <2>2. CASE x \notin Range(t)
    <3>1. u = Append(t, x)
      BY <2>2 DEF Interned
    <3>2. Len(t) + 1 \in 1..Len(Append(t, x))
      BY Appending
    <3> QED BY <3>1, <3>2, Appending
  <2> QED BY <2>1, <2>2
<1>2. SigIndex(t, x) = IndexOf(u, x)
  BY DEF SigIndex
<1> HIDE DEF u
<1>3. DOMAIN u = 1..Len(u) /\ Len(u) \in Nat
  BY <1>1
<1>4. x \in Range(u)
  BY <1>1, <1>3 DEF Range
<1>5. Found(u, Len(u), x, IndexOf(u, x))
  <2>1. ~Missing(u, Len(u), x)
    BY <1>1 DEF Missing
  <2> QED BY <2>1, <1>3, Lookup
<1>6. IndexOf(u, x) + 1 \in 1..Len(u) /\ IndexOf(u, x) \in Nat /\ u[IndexOf(u, x) + 1] = x
  BY <1>5 DEF Found
<1> QED BY <1>1, <1>2, <1>4, <1>6 DEF u

-----------------------------------------------------------------------------
(* What has been read of the text.  An entry denotes what its type says if  *)
(* its index is that of the declared type, or of the signature behind the   *)
(* declared types.                                                          *)
Signatures == {f.sig : f \in Fields} \cup {r.sig : r \in Instructions}
Ids == {f.id : f \in Fields}
LocalSet == Variables \cup {[name |-> NoName, type |-> "i32"]}

ImportSet == [id : Ids, type : Nat, src : Fields]
FuncSet == [id : Ids, export : BOOLEAN, type : Nat, locals : Seq(LocalSet), nparams : Nat,
            body : Seq(Instructions), src : Fields]
GlobalSet == [id : Ids, init : {f.init : f \in Fields}, src : Fields]
TagSet == [type : Nat, export : {f.export : f \in Fields}, src : Fields]

Denotes(t, f, ds, ss) ==
  IF f.type # NoName
  THEN t + 1 \in 1..Len(ds) /\ ds[t + 1].name = f.type
  ELSE t - Len(ds) + 1 \in 1..Len(ss) /\ ss[t - Len(ds) + 1] = f.sig

ImportRight(e, ds, ss) == e.src.kind = "import" /\ e.id = e.src.id /\ Denotes(e.type, e.src, ds, ss)
Extra(f, ds) == IF f.type # NoName /\ f.params = <<>>
                THEN ds[IndexOf([i \in DOMAIN ds |-> ds[i].name], f.type) + 1].params ELSE 0
LocalsOf(f, ds) == f.params \o f.locals \o [i \in 1..Extra(f, ds) |-> [name |-> NoName, type |-> "i32"]]
FuncRight(e, ds, ss) ==
  /\ e.src.kind = "func" /\ e.id = e.src.id /\ e.body = e.src.body /\ e.export = e.src.export
  /\ e.locals = LocalsOf(e.src, ds) /\ e.nparams = Len(e.src.params) + Extra(e.src, ds)
  /\ Denotes(e.type, e.src, ds, ss)
GlobalRight(e) == e.src.kind = "global" /\ e.id = e.src.id /\ e.init = e.src.init
TagRight(e, ds, ss) == e.src.kind = "tag" /\ Denotes(e.type, e.src, ds, ss)

TextTyped ==
  /\ decls \in Seq(Types) /\ sigs \in Seq(Signatures)
  /\ imports \in Seq(ImportSet) /\ funcs \in Seq(FuncSet)
  /\ globals \in Seq(GlobalSet) /\ tags \in Seq(TagSet)
  /\ dce \in BOOLEAN /\ err \in BOOLEAN
  /\ phase \in {"types", "fields", "mark", "prune", "emit", "done"}

ImportsRight == \A i \in 1..Len(imports) : ImportRight(imports[i], decls, sigs)
FuncsRight == \A i \in 1..Len(funcs) : FuncRight(funcs[i], decls, sigs)
GlobalsRight == \A i \in 1..Len(globals) : GlobalRight(globals[i])
TagsRight == \A i \in 1..Len(tags) : TagRight(tags[i], decls, sigs)

TextInv ==
  /\ TextTyped
  /\ \A i, j \in 1..Len(decls) : decls[i].name = decls[j].name => i = j
  /\ phase = "types" => imports = <<>> /\ funcs = <<>> /\ globals = <<>> /\ tags = <<>>
  /\ ImportsRight /\ FuncsRight /\ GlobalsRight /\ TagsRight

(* An entry goes on denoting the same when signatures are added. *)
LEMMA DenotesOn ==
  ASSUME NEW t, NEW f, NEW ds, NEW ss, NEW tt, Denotes(t, f, ds, ss), Continues(ss, tt)
  PROVE  Denotes(t, f, ds, tt)
<1>1. CASE f.type # NoName
  BY <1>1 DEF Denotes
<1>2. CASE f.type = NoName
  <2> DEFINE k == t - Len(ds) + 1
  <2>1. k \in 1..Len(ss) /\ ss[k] = f.sig
    BY <1>2 DEF Denotes
  <2>2. k \in 1..Len(tt) /\ tt[k] = f.sig
    <3> HIDE DEF k
    <3> QED BY <2>1 DEF Continues
  <2> QED BY <1>2, <2>2 DEF Denotes
<1> QED BY <1>1, <1>2

(* What the assumption on the constants says of one field.                  *)
LEMMA FieldFacts ==
  ASSUME NEW f \in Fields
  PROVE  /\ f.kind = "func" => /\ f.params \in Seq(Variables) /\ f.locals \in Seq(Variables)
                               /\ f.body \in Seq(Instructions) /\ f.export \in BOOLEAN
                               /\ f.type = NoName => f.sig.params = Len(f.params)
         /\ f.kind = "tag" => f.type = NoName
         /\ f.sig \in Signatures /\ f.id \in Ids
<1>1. f.sig \in Signatures /\ f.id \in Ids
  BY DEF Signatures, Ids
<1> QED BY <1>1, WatModuleAssumption

(* The index given to the type of a field denotes it.                       *)
LEMMA TypeGiven ==
  ASSUME TextTyped, NEW f \in Fields, ~Unknown(f)
  PROVE  /\ TypeIndex(f) \in Nat /\ Denotes(TypeIndex(f), f, decls, Known(f))
         /\ Known(f) \in Seq(Signatures) /\ Continues(sigs, Known(f))
<1>0. sigs \in Seq(Signatures) /\ decls \in Seq(Types) /\ Len(decls) \in Nat
  BY DEF TextTyped
<1>1. CASE f.type # NoName
  <2> DEFINE ns == [i \in DOMAIN decls |-> decls[i].name]
             k == IndexOf(ns, f.type)
  <2>1. DOMAIN ns = 1..Len(decls) /\ k # None
    BY <1>0, <1>1 DEF Unknown, ResolveType
  <2>2. TypeIndex(f) = k /\ Known(f) = sigs
    BY <1>1 DEF TypeIndex, Known, ResolveType
  <2>3. Found(ns, Len(decls), f.type, k)
    <3> HIDE DEF ns
    <3> QED BY <2>1, <1>0, Lookup
  <2> HIDE DEF k
  <2>4. k \in Nat /\ k + 1 \in 1..Len(decls) /\ ns[k + 1] = f.type
    BY <2>3, <1>0 DEF Found
  <2>5. decls[k + 1].name = f.type
    BY <2>4, <1>0
  <2> HIDE DEF ns
  <2>6. Denotes(k, f, decls, sigs)
    BY <1>1, <2>4, <2>5 DEF Denotes
  <2> QED BY <2>2, <2>4, <2>6, <1>0, ContinuesSelf
<1>2. CASE f.type = NoName
  <2> DEFINE k == SigIndex(sigs, f.sig)
             u == Interned(sigs, f.sig)
  <2>1. TypeIndex(f) = Len(decls) + k /\ Known(f) = u
    BY <1>2 DEF TypeIndex, Known
  <2>2. f.sig \in Signatures
    BY FieldFacts
  <2>3. u \in Seq(Signatures) /\ Continues(sigs, u) /\ k \in Nat /\ k + 1 \in 1..Len(u) /\ u[k + 1] = f.sig
    <3> DEFINE x == f.sig
    <3>1. x \in Signatures
      BY <2>2
    <3> HIDE DEF x
    <3>2. /\ Interned(sigs, x) \in Seq(Signatures) /\ Continues(sigs, Interned(sigs, x))
          /\ SigIndex(sigs, x) + 1 \in 1..Len(Interned(sigs, x)) /\ SigIndex(sigs, x) \in Nat
          /\ Interned(sigs, x)[SigIndex(sigs, x) + 1] = x
      BY <3>1, <1>0, Interning
    <3> QED BY <3>2 DEF x
  <2> HIDE DEF k, u
  <2>4. (Len(decls) + k) - Len(decls) + 1 = k + 1 /\ Len(decls) + k \in Nat
    BY <2>3, <1>0
  <2>5. Denotes(Len(decls) + k, f, decls, u)
    <3> DEFINE n == Len(decls) + k
    <3>1. n - Len(decls) + 1 = k + 1
      BY <2>4
    <3> HIDE DEF n
    <3>2. Denotes(n, f, decls, u)
      BY <1>2, <2>3, <3>1 DEF Denotes
    <3> QED BY <3>2 DEF n
  <2> QED BY <2>1, <2>3, <2>4, <2>5
<1> QED BY <1>1, <1>2

-----------------------------------------------------------------------------
(* Reading the text keeps what was read.                                    *)
LEMMA ImportsOn ==
  ASSUME ImportsRight, UNCHANGED <<decls, imports>>, Continues(sigs, sigs')
  PROVE  ImportsRight'
<1>1. ASSUME NEW i \in 1..Len(imports) PROVE ImportRight(imports[i], decls, sigs')
  <2>1. ImportRight(imports[i], decls, sigs)
    BY DEF ImportsRight
  <2> QED BY <2>1, DenotesOn DEF ImportRight
<1> QED BY <1>1 DEF ImportsRight, ImportRight, Denotes

(* The functions read so far stay right when signatures are added.          *)
LEMMA FuncsOn ==
  ASSUME FuncsRight, UNCHANGED <<decls, funcs>>, Continues(sigs, sigs')
  PROVE  FuncsRight'
<1>1. ASSUME NEW i \in 1..Len(funcs) PROVE FuncRight(funcs[i], decls, sigs')
  <2>1. FuncRight(funcs[i], decls, sigs)
    BY DEF FuncsRight
  <2>2. Denotes(funcs[i].type, funcs[i].src, decls, sigs')
    BY <2>1, DenotesOn DEF FuncRight
  <2> QED BY <2>1, <2>2 DEF FuncRight
<1>2. decls' = decls /\ funcs' = funcs
  OBVIOUS
<1> QED BY <1>1, <1>2 DEF FuncsRight

(* So do the globals,                                                       *)
LEMMA GlobalsOn ==
  ASSUME GlobalsRight, globals' = globals
  PROVE  GlobalsRight'
BY DEF GlobalsRight, GlobalRight

(* and the tag.                                                             *)
LEMMA TagsOn ==
  ASSUME TagsRight, UNCHANGED <<decls, tags>>, Continues(sigs, sigs')
  PROVE  TagsRight'
<1>1. ASSUME NEW i \in 1..Len(tags) PROVE TagRight(tags[i], decls, sigs')
  <2>1. TagRight(tags[i], decls, sigs)
    BY DEF TagsRight
  <2> QED BY <2>1, DenotesOn DEF TagRight
<1> QED BY <1>1 DEF TagsRight, TagRight, Denotes

(* The phases a step leads to, and the signatures it leaves. *)
Onward == /\ phase' \in {"types", "fields", "mark", "prune", "emit", "done"}
          /\ phase' = "types" => phase = "types"
          /\ dce' = dce /\ err' \in BOOLEAN
          /\ sigs' \in Seq(Signatures) /\ Continues(sigs, sigs')

(* A step that reads nothing keeps what was read.                           *)
LEMMA QuietText ==
  ASSUME TextInv, UNCHANGED <<decls, imports, funcs, globals, tags>>, Onward
  PROVE  TextInv'
<1>1. ImportsRight' /\ FuncsRight' /\ GlobalsRight' /\ TagsRight'
  BY ImportsOn, FuncsOn, GlobalsOn, TagsOn DEF TextInv, Onward
<1>0. /\ dce' = dce /\ decls' = decls /\ imports' = imports /\ funcs' = funcs
      /\ globals' = globals /\ tags' = tags
  BY DEF Onward
<1>2. TextTyped'
  <2>1. TextTyped
    BY DEF TextInv
  <2> QED BY <1>0, <2>1 DEF TextTyped, Onward
<1>3. phase' = "types" => phase = "types"
  BY DEF Onward
<1>4. \A i, j \in 1..Len(decls) : decls[i].name = decls[j].name => i = j
  BY DEF TextInv
<1>5. phase = "types" => imports = <<>> /\ funcs = <<>> /\ globals = <<>> /\ tags = <<>>
  BY DEF TextInv
<1> QED BY <1>0, <1>1, <1>2, <1>3, <1>4, <1>5 DEF TextInv

(* The locals of a function are variables and placeholders. *)
LEMMA PlaceholdersNat ==
  ASSUME TextTyped, NEW f \in Fields, f.kind = "func", ~Unknown(f)
  PROVE  Placeholders(f) \in Nat
<1>1. CASE f.type # NoName
  <2> DEFINE k == ResolveType(f.type) + 1
  <2>1. Denotes(TypeIndex(f), f, decls, Known(f)) /\ TypeIndex(f) = ResolveType(f.type)
    BY <1>1, TypeGiven DEF TypeIndex
  <2>2. k \in 1..Len(decls) /\ decls \in Seq(Types)
    BY <1>1, <2>1 DEF Denotes, TextTyped
  <2> HIDE DEF k
  <2>3. decls[k].params \in Nat
    BY <2>2, WatModuleAssumption
  <2> QED BY <2>3 DEF Placeholders, k
<1>2. CASE f.type = NoName
  BY <1>2 DEF Placeholders
<1> QED BY <1>1, <1>2

(* The locals parse_func makes are those the invariant speaks of.           *)
LEMMA SameLocals ==
  ASSUME NEW f
  PROVE  FuncLocals(f) = LocalsOf(f, decls) /\ Placeholders(f) = Extra(f, decls)
<1>1. Placeholders(f) = Extra(f, decls)
  BY Zenon DEF Placeholders, Extra, ResolveType
<1> QED BY <1>1, Zenon DEF FuncLocals, LocalsOf

(* Parameters come first, the declared locals behind them.                  *)
LEMMA LocalsSeq ==
  ASSUME NEW f, f.params \in Seq(Variables), f.locals \in Seq(Variables), Placeholders(f) \in Nat
  PROVE  /\ FuncLocals(f) \in Seq(LocalSet)
         /\ Len(FuncLocals(f)) = Len(f.params) + Len(f.locals) + Placeholders(f)
         /\ \A i \in 1..Len(f.params) : FuncLocals(f)[i] = f.params[i]
         /\ \A i \in 1..Len(f.locals) : FuncLocals(f)[Len(f.params) + i] = f.locals[i]
<1> DEFINE p == f.params
           l == f.locals
           n == Placeholders(f)
           h == [i \in 1..n |-> [name |-> NoName, type |-> "i32"]]
<1>1. p \in Seq(LocalSet) /\ l \in Seq(LocalSet) /\ n \in Nat
  BY DEF LocalSet
<1>2. h \in Seq(LocalSet) /\ Len(h) = n
  <2> HIDE DEF n
  <2>1. [name |-> NoName, type |-> "i32"] \in LocalSet
    BY DEF LocalSet
  <2> QED BY <1>1, <2>1
<1>3. FuncLocals(f) = p \o l \o h
  BY DEF FuncLocals
<1> HIDE DEF p, l, n, h
<1>4. /\ p \o l \in Seq(LocalSet) /\ Len(p \o l) = Len(p) + Len(l)
      /\ \A i \in 1..Len(p) : (p \o l)[i] = p[i]
      /\ \A i \in 1..Len(l) : (p \o l)[Len(p) + i] = l[i]
  BY <1>1
<1> DEFINE pl == p \o l
<1>5. /\ pl \in Seq(LocalSet) /\ Len(pl) = Len(p) + Len(l)
      /\ \A i \in 1..Len(p) : pl[i] = p[i]
      /\ \A i \in 1..Len(l) : pl[Len(p) + i] = l[i]
  BY <1>4
<1> HIDE DEF pl
<1>6. /\ pl \o h \in Seq(LocalSet) /\ Len(pl \o h) = Len(pl) + n
      /\ \A i \in 1..Len(pl) : (pl \o h)[i] = pl[i]
  <2>1. pl \in Seq(LocalSet) /\ h \in Seq(LocalSet)
    BY <1>2, <1>5
  <2>2. /\ pl \o h \in Seq(LocalSet) /\ Len(pl \o h) = Len(pl) + Len(h)
        /\ \A i \in 1..Len(pl) : (pl \o h)[i] = pl[i]
    BY ONLY <2>1
  <2> QED BY <2>2, <1>2
<1>7. FuncLocals(f) = pl \o h
  BY <1>3 DEF pl
<1>8. /\ Len(p) \in Nat /\ Len(l) \in Nat
      /\ \A i \in 1..Len(p) : i \in 1..Len(pl)
      /\ \A i \in 1..Len(l) : Len(p) + i \in 1..Len(pl)
  BY <1>1, <1>5
<1>9. /\ FuncLocals(f) \in Seq(LocalSet) /\ Len(FuncLocals(f)) = Len(p) + Len(l) + n
      /\ \A i \in 1..Len(p) : FuncLocals(f)[i] = p[i]
      /\ \A i \in 1..Len(l) : FuncLocals(f)[Len(p) + i] = l[i]
  BY <1>1, <1>5, <1>6, <1>7, <1>8
<1> QED BY <1>9 DEF p, l, n

(* Nothing is read at first.                                                *)
LEMMA InitText == Init => TextInv
<1> SUFFICES ASSUME Init PROVE TextInv
  OBVIOUS
<1>0. \A S : <<>> \in Seq(S)
  OBVIOUS
<1>1. TextTyped
  <2>1. decls \in Seq(Types) /\ sigs \in Seq(Signatures) /\ imports \in Seq(ImportSet)
    BY <1>0 DEF Init
  <2>2. funcs \in Seq(FuncSet) /\ globals \in Seq(GlobalSet) /\ tags \in Seq(TagSet)
    BY <1>0 DEF Init
  <2>3. dce \in BOOLEAN /\ err \in BOOLEAN /\ phase \in {"types", "fields", "mark", "prune", "emit", "done"}
    BY DEF Init
  <2> QED BY <2>1, <2>2, <2>3 DEF TextTyped
<1>2. /\ Len(decls) = 0 /\ Len(imports) = 0 /\ Len(funcs) = 0 /\ Len(globals) = 0 /\ Len(tags) = 0
  BY DEF Init
<1>3. ImportsRight /\ FuncsRight /\ GlobalsRight /\ TagsRight
  BY <1>2 DEF ImportsRight, FuncsRight, GlobalsRight, TagsRight
<1> QED BY <1>1, <1>2, <1>3 DEF TextInv, Init

(* A declared type is new, so names stay distinct.                          *)
LEMMA ReadTypeText ==
  ASSUME TextInv, NEW t \in Types, ReadType(t)
  PROVE  TextInv'
<1>0. /\ phase = "types" /\ ResolveType(t.name) = None /\ decls' = Append(decls, t)
      /\ UNCHANGED <<dce, phase, imports, funcs, globals, tags, sigs, err>>
  BY DEF ReadType
<1>1. TextTyped /\ imports = <<>> /\ funcs = <<>> /\ globals = <<>> /\ tags = <<>>
      /\ \A i, j \in 1..Len(decls) : decls[i].name = decls[j].name => i = j
  BY <1>0 DEF TextInv
<1>2. decls \in Seq(Types) /\ Len(decls) \in Nat
  BY <1>1 DEF TextTyped
<1>3. /\ decls' \in Seq(Types) /\ Len(decls') = Len(decls) + 1
      /\ decls'[Len(decls) + 1] = t
      /\ \A i \in 1..Len(decls) : decls'[i] = decls[i]
      /\ \A i \in 1..Len(decls') : i \in 1..Len(decls) \/ i = Len(decls) + 1
  BY <1>0, <1>2, Appending
<1>4. \A i \in 1..Len(decls) : decls[i].name # t.name
  <2> DEFINE ns == [i \in DOMAIN decls |-> decls[i].name]
             k == IndexOf(ns, t.name)
  <2>1. DOMAIN ns = 1..Len(decls) /\ k = None
    BY <1>0, <1>2 DEF ResolveType
  <2>2. \A i \in 1..Len(decls) : ns[i] = decls[i].name
    BY <1>2
  <2> HIDE DEF ns
  <2>3. Missing(ns, Len(decls), t.name)
    <3>1. ~Found(ns, Len(decls), t.name, k)
      BY <2>1 DEF Found
    <3> QED BY <3>1, <2>1, <1>2, Lookup
  <2> QED BY <2>2, <2>3 DEF Missing
<1>5. ASSUME NEW i \in 1..Len(decls'), NEW j \in 1..Len(decls'), decls'[i].name = decls'[j].name
      PROVE  i = j
  <2>1. /\ i \in 1..Len(decls) \/ i = Len(decls) + 1
        /\ j \in 1..Len(decls) \/ j = Len(decls) + 1
    BY <1>3
  <2> QED BY <2>1, <1>1, <1>3, <1>4, <1>5
<1>6. TextTyped'
  BY <1>0, <1>1, <1>3 DEF TextTyped
<1>7. /\ Len(imports') = 0 /\ Len(funcs') = 0 /\ Len(globals') = 0 /\ Len(tags') = 0
      /\ imports' = <<>> /\ funcs' = <<>> /\ globals' = <<>> /\ tags' = <<>>
  BY <1>0, <1>1
<1>8. ImportsRight' /\ FuncsRight' /\ GlobalsRight' /\ TagsRight'
  BY <1>7 DEF ImportsRight, FuncsRight, GlobalsRight, TagsRight
<1> QED BY <1>5, <1>6, <1>7, <1>8 DEF TextInv

(* An import denotes its type.                                              *)
LEMMA ReadImportText ==
  ASSUME TextInv, NEW f \in Fields, f.kind = "import", phase = "fields", ~Unknown(f),
         imports' = Append(imports, [id |-> f.id, type |-> TypeIndex(f), src |-> f]),
         sigs' = Known(f),
         UNCHANGED <<dce, phase, decls, funcs, globals, tags, err>>
  PROVE  TextInv'
<1> DEFINE e == [id |-> f.id, type |-> TypeIndex(f), src |-> f]
<1>1. TextTyped /\ imports \in Seq(ImportSet)
  BY DEF TextInv, TextTyped
<1>2. /\ TypeIndex(f) \in Nat /\ Denotes(TypeIndex(f), f, decls, sigs')
      /\ sigs' \in Seq(Signatures) /\ Continues(sigs, sigs')
  BY <1>1, TypeGiven
<1>3. e \in ImportSet
  BY <1>2, FieldFacts DEF ImportSet
<1>4. ImportRight(e, decls, sigs')
  BY <1>2 DEF ImportRight
<1> HIDE DEF e
<1>5. /\ imports' = Append(imports, e) /\ imports' \in Seq(ImportSet)
      /\ Len(imports') = Len(imports) + 1 /\ imports'[Len(imports) + 1] = e
      /\ \A i \in 1..Len(imports) : imports'[i] = imports[i]
      /\ \A i \in 1..Len(imports') : i \in 1..Len(imports) \/ i = Len(imports) + 1
  <2>1. imports' = Append(imports, e)
    BY DEF e
  <2> QED BY <2>1, <1>1, <1>3, Appending
<1>6. TextTyped'
  BY <1>1, <1>2, <1>5 DEF TextTyped
<1>7. ASSUME NEW i \in 1..Len(imports') PROVE ImportRight(imports'[i], decls, sigs')
  <2>1. CASE i \in 1..Len(imports)
    <3>1. ImportRight(imports[i], decls, sigs)
      BY <2>1 DEF TextInv, ImportsRight
    <3> QED BY <3>1, <2>1, <1>2, <1>5, DenotesOn DEF ImportRight
  <2>2. CASE i = Len(imports) + 1
    BY <2>2, <1>4, <1>5
  <2> QED BY <2>1, <2>2, <1>5
<1>8. ImportsRight'
  BY <1>7 DEF ImportsRight, ImportRight, Denotes
<1>9. FuncsRight' /\ GlobalsRight' /\ TagsRight'
  BY <1>2, FuncsOn, GlobalsOn, TagsOn DEF TextInv
<1> QED BY <1>6, <1>8, <1>9 DEF TextInv

(* A function denotes its type and has its locals.                          *)
LEMMA ReadFuncText ==
  ASSUME TextInv, NEW f \in Fields, f.kind = "func", phase = "fields", ~Unknown(f),
         funcs' = Append(funcs, [id |-> f.id, export |-> f.export, type |-> TypeIndex(f),
                                 locals |-> FuncLocals(f), nparams |-> Len(f.params) + Placeholders(f),
                                 body |-> f.body, src |-> f]),
         sigs' = Known(f),
         UNCHANGED <<dce, phase, decls, imports, globals, tags, err>>
  PROVE  TextInv'
<1> DEFINE e == [id |-> f.id, export |-> f.export, type |-> TypeIndex(f),
                 locals |-> FuncLocals(f), nparams |-> Len(f.params) + Placeholders(f),
                 body |-> f.body, src |-> f]
<1>1. TextTyped /\ funcs \in Seq(FuncSet) /\ decls \in Seq(Types)
  BY DEF TextInv, TextTyped
<1>2. /\ TypeIndex(f) \in Nat /\ Denotes(TypeIndex(f), f, decls, sigs')
      /\ sigs' \in Seq(Signatures) /\ Continues(sigs, sigs')
  BY <1>1, TypeGiven
<1>3. Placeholders(f) \in Nat
  BY <1>1, PlaceholdersNat
<1>4. e \in FuncSet
  <2>1. /\ f.params \in Seq(Variables) /\ f.locals \in Seq(Variables) /\ f.body \in Seq(Instructions)
        /\ f.export \in BOOLEAN /\ f.id \in Ids
    BY FieldFacts
  <2>2. FuncLocals(f) \in Seq(LocalSet)
    BY <1>3, <2>1, LocalsSeq
  <2>3. Len(f.params) + Placeholders(f) \in Nat
    BY <1>3, <2>1
  <2> QED BY <1>2, <2>1, <2>2, <2>3 DEF FuncSet
<1>5. FuncLocals(f) = LocalsOf(f, decls) /\ Placeholders(f) = Extra(f, decls)
  BY SameLocals
<1>6. FuncRight(e, decls, sigs')
  BY <1>2, <1>5 DEF FuncRight
<1> HIDE DEF e
<1>7. /\ funcs' = Append(funcs, e) /\ funcs' \in Seq(FuncSet)
      /\ Len(funcs') = Len(funcs) + 1 /\ funcs'[Len(funcs) + 1] = e
      /\ \A i \in 1..Len(funcs) : funcs'[i] = funcs[i]
      /\ \A i \in 1..Len(funcs') : i \in 1..Len(funcs) \/ i = Len(funcs) + 1
  <2>1. funcs' = Append(funcs, e)
    BY DEF e
  <2> QED BY <2>1, <1>1, <1>4, Appending
<1>8. TextTyped'
  BY <1>1, <1>2, <1>7 DEF TextTyped
<1>9. ASSUME NEW i \in 1..Len(funcs') PROVE FuncRight(funcs'[i], decls, sigs')
  <2>1. CASE i \in 1..Len(funcs)
    <3>1. FuncRight(funcs[i], decls, sigs)
      BY <2>1 DEF TextInv, FuncsRight
    <3>2. Denotes(funcs[i].type, funcs[i].src, decls, sigs')
      BY <3>1, <1>2, DenotesOn DEF FuncRight
    <3>3. FuncRight(funcs[i], decls, sigs')
      BY <3>1, <3>2 DEF FuncRight
    <3> QED BY <3>3, <2>1, <1>7
  <2>2. CASE i = Len(funcs) + 1
    BY <2>2, <1>6, <1>7
  <2> QED BY <2>1, <2>2, <1>7
<1>10. decls' = decls
  OBVIOUS
<1>12. FuncsRight'
  BY <1>9, <1>10 DEF FuncsRight
<1>13. ImportsRight' /\ GlobalsRight' /\ TagsRight'
  BY <1>2, ImportsOn, GlobalsOn, TagsOn DEF TextInv
<1> QED BY <1>8, <1>12, <1>13 DEF TextInv

(* A global is read as it is written.                                       *)
LEMMA ReadGlobalText ==
  ASSUME TextInv, NEW f \in Fields, f.kind = "global", phase = "fields",
         globals' = Append(globals, [id |-> f.id, init |-> f.init, src |-> f]),
         UNCHANGED <<dce, phase, decls, imports, funcs, tags, sigs, err>>
  PROVE  TextInv'
<1> DEFINE e == [id |-> f.id, init |-> f.init, src |-> f]
<1>1. TextTyped /\ globals \in Seq(GlobalSet) /\ sigs \in Seq(Signatures)
  BY DEF TextInv, TextTyped
<1>2. e \in GlobalSet /\ GlobalRight(e)
  BY FieldFacts DEF GlobalSet, GlobalRight
<1> HIDE DEF e
<1>3. /\ globals' = Append(globals, e) /\ globals' \in Seq(GlobalSet)
      /\ Len(globals') = Len(globals) + 1 /\ globals'[Len(globals) + 1] = e
      /\ \A i \in 1..Len(globals) : globals'[i] = globals[i]
      /\ \A i \in 1..Len(globals') : i \in 1..Len(globals) \/ i = Len(globals) + 1
  <2>1. globals' = Append(globals, e)
    BY DEF e
  <2> QED BY <2>1, <1>1, <1>2, Appending
<1>4. TextTyped'
  BY <1>1, <1>3 DEF TextTyped
<1>5. ASSUME NEW i \in 1..Len(globals') PROVE GlobalRight(globals'[i])
  <2>1. CASE i \in 1..Len(globals)
    BY <2>1, <1>3 DEF TextInv, GlobalsRight
  <2>2. CASE i = Len(globals) + 1
    BY <2>2, <1>2, <1>3
  <2> QED BY <2>1, <2>2, <1>3
<1>6. GlobalsRight'
  BY <1>5 DEF GlobalsRight, GlobalRight
<1>7. Continues(sigs, sigs')
  BY <1>1, ContinuesSelf
<1>8. ImportsRight' /\ FuncsRight' /\ TagsRight'
  BY <1>7, ImportsOn, FuncsOn, TagsOn DEF TextInv
<1> QED BY <1>4, <1>6, <1>8 DEF TextInv

(* The tag denotes its signature.                                           *)
LEMMA ReadTagText ==
  ASSUME TextInv, NEW f \in Fields, f.kind = "tag", phase = "fields",
         tags' = Append(tags, [type |-> TypeIndex(f), export |-> f.export, src |-> f]),
         sigs' = Interned(sigs, f.sig),
         UNCHANGED <<dce, phase, decls, imports, funcs, globals, err>>
  PROVE  TextInv'
<1> DEFINE e == [type |-> TypeIndex(f), export |-> f.export, src |-> f]
<1>1. TextTyped /\ tags \in Seq(TagSet) /\ f.type = NoName
  BY FieldFacts DEF TextInv, TextTyped
<1>2. /\ TypeIndex(f) \in Nat /\ Denotes(TypeIndex(f), f, decls, sigs')
      /\ sigs' \in Seq(Signatures) /\ Continues(sigs, sigs')
  <2>1. ~Unknown(f) /\ sigs' = Known(f)
    BY <1>1 DEF Unknown, Known
  <2> QED BY <1>1, <2>1, TypeGiven
<1>3. e \in TagSet
  BY <1>2 DEF TagSet
<1>4. TagRight(e, decls, sigs')
  BY <1>2 DEF TagRight
<1> HIDE DEF e
<1>5. /\ tags' = Append(tags, e) /\ tags' \in Seq(TagSet)
      /\ Len(tags') = Len(tags) + 1 /\ tags'[Len(tags) + 1] = e
      /\ \A i \in 1..Len(tags) : tags'[i] = tags[i]
      /\ \A i \in 1..Len(tags') : i \in 1..Len(tags) \/ i = Len(tags) + 1
  <2>1. tags' = Append(tags, e)
    BY DEF e
  <2> QED BY <2>1, <1>1, <1>3, Appending
<1>6. TextTyped'
  BY <1>1, <1>2, <1>5 DEF TextTyped
<1>7. ASSUME NEW i \in 1..Len(tags') PROVE TagRight(tags'[i], decls, sigs')
  <2>1. CASE i \in 1..Len(tags)
    <3>1. TagRight(tags[i], decls, sigs)
      BY <2>1 DEF TextInv, TagsRight
    <3> QED BY <3>1, <2>1, <1>2, <1>5, DenotesOn DEF TagRight
  <2>2. CASE i = Len(tags) + 1
    BY <2>2, <1>4, <1>5
  <2> QED BY <2>1, <2>2, <1>5
<1>8. TagsRight'
  BY <1>7 DEF TagsRight, TagRight, Denotes
<1>9. ImportsRight' /\ FuncsRight' /\ GlobalsRight'
  BY <1>2, ImportsOn, FuncsOn, GlobalsOn DEF TextInv
<1> QED BY <1>6, <1>8, <1>9 DEF TextInv

-----------------------------------------------------------------------------
(* Signatures of block types: a walk interns one after another.             *)
Walk(at, n, x, F) == at[0] = x /\ \A k \in 1..n : at[k] = F[k][at[k - 1]]

(* There is such a walk, one step per place.                                *)
LEMMA WalkExists ==
  ASSUME NEW T, NEW n \in Nat, NEW x \in T, NEW F \in [1..n -> [T -> T]]
  PROVE  \E at \in [0..n -> T] : Walk(at, n, x, F)
<1> DEFINE B == {j \in 0..n : ~ \E at \in [0..j -> T] : Walk(at, j, x, F)}
<1> SUFFICES ASSUME B # {} PROVE FALSE
  OBVIOUS
<1>1. B \subseteq Nat
  OBVIOUS
<1>2. PICK j \in B : \A i \in B : j <= i
  <2> HIDE DEF B
  <2> QED BY <1>1, LeastNat
<1>3. j # 0
  <2> SUFFICES ASSUME j = 0 PROVE FALSE
    OBVIOUS
  <2> DEFINE z == [k \in 0..0 |-> x]
  <2>1. z \in [0..0 -> T] /\ z[0] = x
    OBVIOUS
  <2>2. Walk(z, 0, x, F)
    BY <2>1 DEF Walk
  <2> QED BY <2>1, <2>2, <1>2
<1>4. j - 1 \in 0..n /\ ~(j <= j - 1) /\ j \in 1..n
  BY <1>2, <1>3
<1>5. PICK c \in [0..(j - 1) -> T] : Walk(c, j - 1, x, F)
  <2>1. j - 1 \notin B
    BY <1>2, <1>4
  <2> QED BY <2>1, <1>4
<1> DEFINE h == [k \in 0..j |-> IF k = j THEN F[j][c[j - 1]] ELSE c[k]]
<1>6. c[j - 1] \in T /\ F[j][c[j - 1]] \in T
  BY <1>4
<1>7. h \in [0..j -> T]
  BY <1>4, <1>6
<1>8. /\ h[j] = F[j][c[j - 1]]
      /\ \A k \in 0..(j - 1) : h[k] = c[k]
  BY <1>4
<1> HIDE DEF h
<1>9. Walk(h, j, x, F)
  <2>1. h[0] = x
    BY <1>4, <1>5, <1>8 DEF Walk
  <2>2. ASSUME NEW k \in 1..j PROVE h[k] = F[k][h[k - 1]]
    <3>1. CASE k = j
      BY <3>1, <1>4, <1>8
    <3>2. CASE k # j
      <4>1. k \in 1..(j - 1) /\ k \in 0..(j - 1) /\ k - 1 \in 0..(j - 1)
        BY <3>2, <1>4
      <4> QED BY <4>1, <1>5, <1>8 DEF Walk
    <3> QED BY <3>1, <3>2
  <2> QED BY <2>1, <2>2 DEF Walk
<1> QED BY <1>2, <1>7, <1>9

(* A sequence that continues another has all of its entries.                *)
LEMMA RangeOn ==
  ASSUME NEW S, NEW a \in Seq(S), NEW b \in Seq(S), Continues(a, b)
  PROVE  Range(a) \subseteq Range(b)
<1> SUFFICES ASSUME NEW y \in Range(a) PROVE y \in Range(b)
  OBVIOUS
<1>1. PICK i \in 1..Len(a) : a[i] = y
  BY DEF Range
<1>2. i \in 1..Len(b) /\ b[i] = y
  BY <1>1 DEF Continues
<1> QED BY <1>2 DEF Range

(* The steps of a walk keep the table and add what is wanted of them. *)
Added(S, u, v, W) == v \in Seq(S) /\ Continues(u, v) /\ W \subseteq Range(v)
Adds(at, n, want, S) == \A k \in 1..n : at[k - 1] \in Seq(S) => Added(S, at[k - 1], at[k], want[k])

(* What each step of a walk adds is there at the end.                       *)
LEMMA WalkAdds ==
  ASSUME NEW S, NEW n \in Nat, NEW x \in Seq(S), NEW want, NEW at, at[0] = x, Adds(at, n, want, S)
  PROVE  /\ at[n] \in Seq(S) /\ Continues(x, at[n])
         /\ \A k \in 1..n : want[k] \subseteq Range(at[n])
<1> DEFINE Good(k) == /\ at[k] \in Seq(S) /\ Continues(x, at[k])
                      /\ \A j \in 1..k : want[j] \subseteq Range(at[k])
           B == {k \in 0..n : ~Good(k)}
<1>1. SUFFICES ASSUME B # {} PROVE FALSE
  OBVIOUS
<1>2. B \subseteq Nat
  OBVIOUS
<1>3. PICK k \in B : \A i \in B : k <= i
  <2> HIDE DEF B
  <2> QED BY <1>1, <1>2, LeastNat
<1>4. k # 0
  <2>2. Good(0)
    BY ContinuesSelf
  <2> QED BY <2>2, <1>3
<1>5. k - 1 \in 0..n /\ ~(k <= k - 1) /\ k \in 1..n
  BY <1>3, <1>4
<1>6. Good(k - 1)
  <2> HIDE DEF Good
  <2> QED BY <1>3, <1>5
<1> DEFINE u == at[k - 1]
           v == at[k]
<1>8. /\ u \in Seq(S) /\ Continues(x, u)
      /\ \A j \in 1..(k - 1) : want[j] \subseteq Range(u)
  BY <1>6
<1>9. v \in Seq(S) /\ Continues(u, v) /\ want[k] \subseteq Range(v)
  <2>1. Added(S, u, v, want[k])
    BY <1>5, <1>8, Zenon DEF Adds
  <2> QED BY <2>1 DEF Added
<1> HIDE DEF u, v
<1>10. Continues(x, v)
  BY <1>8, <1>9, ContinuesOn
<1>11. Range(u) \subseteq Range(v)
  BY <1>8, <1>9, RangeOn
<1>12. ASSUME NEW j \in 1..k PROVE want[j] \subseteq Range(v)
  <2>1. j = k \/ j \in 1..(k - 1)
    BY <1>5
  <2> QED BY <2>1, <1>8, <1>9, <1>11
<1>13. Good(k)
  BY <1>9, <1>10, <1>12 DEF v
<1> HIDE DEF Good
<1> QED BY <1>3, <1>13

(* The signatures of one body. *)
BodyStep(at, t, body, k) ==
  IF k = 0 THEN t ELSE IF NamesSig(body[k]) THEN Interned(at[k - 1], body[k].sig) ELSE at[k - 1]
BodyWalked(at, t, body) == at = [k \in 0..Len(body) |-> BodyStep(at, t, body, k)]

(* After a body is walked, its block signatures are in the table.           *)
LEMMA PrewalkAdds ==
  ASSUME NEW t \in Seq(Signatures), NEW body \in Seq(Instructions)
  PROVE  /\ Prewalk(t, body) \in Seq(Signatures) /\ Continues(t, Prewalk(t, body))
         /\ BlockSigs(body) \subseteq Range(Prewalk(t, body))
<1> DEFINE n == Len(body)
           S == Signatures
           F == [k \in 1..n |-> [u \in Seq(S) |-> IF NamesSig(body[k]) THEN Interned(u, body[k].sig) ELSE u]]
           want == [k \in 1..n |-> IF NamesSig(body[k]) THEN {body[k].sig} ELSE {}]
           walk == CHOOSE at : BodyWalked(at, t, body)
<1>0. n \in Nat
  OBVIOUS
<1>1. ASSUME NEW k \in 1..n PROVE body[k].sig \in S
  <2>1. body[k] \in Instructions
    OBVIOUS
  <2> QED BY <2>1 DEF Signatures
<1>2. ASSUME NEW k \in 1..n, NEW u \in Seq(S)
      PROVE  Added(S, u, F[k][u], want[k])
  <2>1. F[k][u] = IF NamesSig(body[k]) THEN Interned(u, body[k].sig) ELSE u
    OBVIOUS
  <2>2. want[k] = IF NamesSig(body[k]) THEN {body[k].sig} ELSE {}
    OBVIOUS
  <2> DEFINE x == body[k].sig
  <2>3. x \in S
    BY <1>1
  <2> HIDE DEF F, want, S, x
  <2>4. /\ Interned(u, x) \in Seq(S) /\ Continues(u, Interned(u, x)) /\ x \in Range(Interned(u, x))
    BY <2>3, Interning
  <2>5. Continues(u, u)
    BY ContinuesSelf
  <2>6. CASE NamesSig(body[k])
    <3>1. F[k][u] = Interned(u, x) /\ want[k] = {x}
      BY <2>1, <2>2, <2>6 DEF x
    <3> QED BY <2>4, <3>1 DEF Added
  <2>7. CASE ~NamesSig(body[k])
    <3>1. F[k][u] = u /\ want[k] = {}
      BY <2>1, <2>2, <2>7
    <3> QED BY <2>5, <3>1 DEF Added
  <2> QED BY <2>6, <2>7
<1>3. F \in [1..n -> [Seq(S) -> Seq(S)]]
  <2>1. \A k \in 1..n : F[k] \in [Seq(S) -> Seq(S)]
    <3>1. ASSUME NEW k \in 1..n PROVE F[k] = [u \in Seq(S) |-> F[k][u]]
      OBVIOUS
    <3>2. \A k \in 1..n : \A u \in Seq(S) : F[k][u] \in Seq(S)
      BY <1>2, Zenon DEF Added
    <3> HIDE DEF F
    <3> QED BY <3>1, <3>2
  <2>2. F = [k \in 1..n |-> F[k]]
    OBVIOUS
  <2> HIDE DEF F
  <2> QED BY <2>1, <2>2
<1>5. \E at : BodyWalked(at, t, body)
  <2>1. PICK at \in [0..n -> Seq(S)] : Walk(at, n, t, F)
    <3> HIDE DEF F, n
    <3> QED BY <1>0, <1>3, WalkExists
  <2>2. ASSUME NEW k \in 0..n PROVE at[k] = BodyStep(at, t, body, k)
    <3>1. CASE k = 0
      BY <3>1, <2>1, Zenon DEF Walk, BodyStep
    <3>2. CASE k # 0
      <4>1. k \in 1..n /\ k - 1 \in 0..n
        BY <3>2
      <4>2. at[k] = F[k][at[k - 1]] /\ at[k - 1] \in Seq(S)
        BY <4>1, <2>1 DEF Walk
      <4>3. F[k][at[k - 1]] = IF NamesSig(body[k]) THEN Interned(at[k - 1], body[k].sig) ELSE at[k - 1]
        BY <4>1, <4>2
      <4> QED BY <3>2, <4>2, <4>3, Zenon DEF BodyStep
    <3> QED BY <3>1, <3>2
  <2>3. at = [k \in 0..n |-> at[k]]
    BY <2>1
  <2>4. [k \in 0..n |-> at[k]] = [k \in 0..n |-> BodyStep(at, t, body, k)]
    BY <2>2
  <2> QED BY <2>3, <2>4, Zenon DEF BodyWalked
<1>6. BodyWalked(walk, t, body)
  BY <1>5, Zenon
<1>7. Prewalk(t, body) = walk[n]
  BY Zenon DEF Prewalk, BodyWalked, BodyStep
<1> HIDE DEF walk
<1>8. walk[0] = t /\ Adds(walk, n, want, S)
  <2>1. \A k \in 0..n : walk[k] = BodyStep(walk, t, body, k)
    BY <1>6, Zenon DEF BodyWalked
  <2>2. walk[0] = t
    <3>1. 0 \in 0..n
      BY <1>0
    <3> QED BY <2>1, <3>1 DEF BodyStep
  <2>3. ASSUME NEW k \in 1..n
        PROVE  walk[k - 1] \in Seq(S) => Added(S, walk[k - 1], walk[k], want[k])
    <3>1. k \in 0..n /\ k # 0
      BY <1>0
    <3>2. walk[k] = IF NamesSig(body[k]) THEN Interned(walk[k - 1], body[k].sig) ELSE walk[k - 1]
      BY <2>1, <3>1, Zenon DEF BodyStep
    <3> DEFINE u == walk[k - 1]
    <3>3. F[k][u] = (IF NamesSig(body[k]) THEN Interned(u, body[k].sig) ELSE u) \/ u \notin Seq(S)
      OBVIOUS
    <3>4. walk[k] = F[k][u] \/ u \notin Seq(S)
      BY <3>2, <3>3, Zenon
    <3> HIDE DEF u, F, want, S
    <3>5. u \in Seq(S) => Added(S, u, walk[k], want[k])
      BY <3>4, <1>2
    <3> QED BY <3>5 DEF u
  <2> HIDE DEF want, S
  <2> QED BY <2>2, <2>3 DEF Adds
<1>9. /\ walk[n] \in Seq(S) /\ Continues(t, walk[n])
      /\ \A k \in 1..n : want[k] \subseteq Range(walk[n])
  <2> HIDE DEF n, S, want
  <2>1. t \in Seq(S)
    BY DEF S
  <2> QED BY <1>0, <1>8, <2>1, WalkAdds
<1>10. BlockSigs(body) \subseteq Range(walk[n])
  <2> SUFFICES ASSUME NEW y \in BlockSigs(body) PROVE y \in Range(walk[n])
    OBVIOUS
  <2>1. PICK k \in 1..n : NamesSig(body[k]) /\ body[k].sig = y
    BY DEF BlockSigs, Range
  <2>2. want[k] = {y}
    BY <2>1
  <2> QED BY <1>9, <2>2
<1> QED BY <1>7, <1>9, <1>10

(* The signatures of all bodies, in their order. *)
TextStep(at, t, fs, k) == IF k = 0 THEN t ELSE Prewalk(at[k - 1], fs[k].body)
TextWalked(at, t, fs) == at = [k \in 0..Len(fs) |-> TextStep(at, t, fs, k)]

(* After all bodies are walked, those of every function are.                *)
LEMMA PrewalkedAdds ==
  ASSUME sigs \in Seq(Signatures), funcs \in Seq(FuncSet)
  PROVE  /\ Prewalked \in Seq(Signatures) /\ Continues(sigs, Prewalked)
         /\ \A i \in 1..Len(funcs) : BlockSigs(funcs[i].body) \subseteq Range(Prewalked)
<1> DEFINE n == Len(funcs)
           S == Signatures
           F == [k \in 1..n |-> [u \in Seq(S) |-> Prewalk(u, funcs[k].body)]]
           want == [k \in 1..n |-> BlockSigs(funcs[k].body)]
           walk == CHOOSE at : TextWalked(at, sigs, funcs)
<1>0. n \in Nat
  OBVIOUS
<1>1. ASSUME NEW k \in 1..n PROVE funcs[k].body \in Seq(Instructions)
  <2>1. funcs[k] \in FuncSet
    OBVIOUS
  <2> QED BY <2>1 DEF FuncSet
<1>2. ASSUME NEW k \in 1..n, NEW u \in Seq(S)
      PROVE  Added(S, u, F[k][u], want[k])
  <2>1. F[k][u] = Prewalk(u, funcs[k].body) /\ want[k] = BlockSigs(funcs[k].body)
    OBVIOUS
  <2> DEFINE b == funcs[k].body
  <2>2. b \in Seq(Instructions) /\ u \in Seq(Signatures)
    BY <1>1
  <2> HIDE DEF F, want, b
  <2>3. Prewalk(u, b) \in Seq(Signatures) /\ Continues(u, Prewalk(u, b)) /\ BlockSigs(b) \subseteq Range(Prewalk(u, b))
    BY <2>2, PrewalkAdds
  <2> QED BY <2>1, <2>3, Zenon DEF b, Added
<1>3. F \in [1..n -> [Seq(S) -> Seq(S)]]
  <2>1. \A k \in 1..n : F[k] \in [Seq(S) -> Seq(S)]
    <3>1. ASSUME NEW k \in 1..n PROVE F[k] = [u \in Seq(S) |-> F[k][u]]
      OBVIOUS
    <3>2. \A k \in 1..n : \A u \in Seq(S) : F[k][u] \in Seq(S)
      BY <1>2, Zenon DEF Added
    <3> HIDE DEF F
    <3> QED BY <3>1, <3>2
  <2>2. F = [k \in 1..n |-> F[k]]
    OBVIOUS
  <2> HIDE DEF F
  <2> QED BY <2>1, <2>2
<1>4. \E at : TextWalked(at, sigs, funcs)
  <2>0. sigs \in Seq(S)
    OBVIOUS
  <2>1. PICK at \in [0..n -> Seq(S)] : Walk(at, n, sigs, F)
    <3> HIDE DEF F, n, S
    <3> QED BY <1>0, <1>3, <2>0, WalkExists
  <2>2. ASSUME NEW k \in 0..n PROVE at[k] = TextStep(at, sigs, funcs, k)
    <3>1. CASE k = 0
      BY <3>1, <2>1, Zenon DEF Walk, TextStep
    <3>2. CASE k # 0
      <4>1. k \in 1..n /\ k - 1 \in 0..n
        BY <3>2
      <4>2. at[k] = F[k][at[k - 1]] /\ at[k - 1] \in Seq(S)
        BY <4>1, <2>1 DEF Walk
      <4>3. F[k][at[k - 1]] = Prewalk(at[k - 1], funcs[k].body)
        BY <4>1, <4>2
      <4> QED BY <3>2, <4>2, <4>3, Zenon DEF TextStep
    <3> QED BY <3>1, <3>2
  <2>3. at = [k \in 0..n |-> at[k]]
    BY <2>1
  <2>4. [k \in 0..n |-> at[k]] = [k \in 0..n |-> TextStep(at, sigs, funcs, k)]
    BY <2>2
  <2> QED BY <2>3, <2>4, Zenon DEF TextWalked
<1>5. TextWalked(walk, sigs, funcs)
  BY <1>4, Zenon
<1>6. Prewalked = walk[n]
  BY Zenon DEF Prewalked, TextWalked, TextStep
<1> HIDE DEF walk
<1>7. walk[0] = sigs /\ Adds(walk, n, want, S)
  <2>1. \A k \in 0..n : walk[k] = TextStep(walk, sigs, funcs, k)
    BY <1>5, Zenon DEF TextWalked
  <2>2. walk[0] = sigs
    <3>1. 0 \in 0..n
      BY <1>0
    <3> QED BY <2>1, <3>1 DEF TextStep
  <2>3. ASSUME NEW k \in 1..n
        PROVE  walk[k - 1] \in Seq(S) => Added(S, walk[k - 1], walk[k], want[k])
    <3>1. k \in 0..n /\ k # 0
      BY <1>0
    <3>2. walk[k] = Prewalk(walk[k - 1], funcs[k].body)
      BY <2>1, <3>1, Zenon DEF TextStep
    <3> DEFINE u == walk[k - 1]
    <3>3. F[k][u] = Prewalk(u, funcs[k].body) \/ u \notin Seq(S)
      OBVIOUS
    <3>4. walk[k] = F[k][u] \/ u \notin Seq(S)
      BY <3>2, <3>3, Zenon
    <3> HIDE DEF u, F, want, S
    <3>5. u \in Seq(S) => Added(S, u, walk[k], want[k])
      BY <3>4, <1>2
    <3> QED BY <3>5 DEF u
  <2> HIDE DEF want, S
  <2> QED BY <2>2, <2>3 DEF Adds
<1>8. /\ walk[n] \in Seq(S) /\ Continues(sigs, walk[n])
      /\ \A k \in 1..n : want[k] \subseteq Range(walk[n])
  <2>1. sigs \in Seq(S)
    OBVIOUS
  <2> HIDE DEF n, S, want
  <2> QED BY <1>0, <1>7, <2>1, WalkAdds
<1>9. \A k \in 1..n : want[k] = BlockSigs(funcs[k].body)
  OBVIOUS
<1> QED BY <1>6, <1>8, <1>9

-----------------------------------------------------------------------------
(* Every step keeps what was read.                                          *)
LEMMA NextText ==
  ASSUME TextInv, [Next]_vars
  PROVE  TextInv'
<1>0. sigs \in Seq(Signatures) /\ funcs \in Seq(FuncSet) /\ err \in BOOLEAN
      /\ phase \in {"types", "fields", "mark", "prune", "emit", "done"}
  BY DEF TextInv, TextTyped
<1>1. Continues(sigs, sigs)
  BY <1>0, ContinuesSelf
<1>2. CASE Fail
  <2>1. Onward
    BY <1>0, <1>1, <1>2 DEF Fail, Onward, source
  <2> QED BY <2>1, <1>2, QuietText DEF Fail, source
<1>3. ASSUME NEW t \in Types, ReadType(t) PROVE TextInv'
  BY <1>3, ReadTypeText
<1>4. CASE EndTypes \/ MarkRoots \/ EndMark \/ UNCHANGED vars
  <2>1. /\ UNCHANGED source /\ UNCHANGED <<sigs, err>>
        /\ phase' \in {"fields", "mark", "prune"} \/ phase' = phase
    BY <1>4 DEF EndTypes, MarkRoots, EndMark, vars, source
  <2>2. Onward
    BY <1>0, <1>1, <2>1 DEF Onward, source
  <2> QED BY <2>1, <2>2, QuietText DEF source
<1>5. ASSUME NEW f \in Fields, ReadImport(f) PROVE TextInv'
  <2>1. f.kind = "import" /\ phase = "fields"
    BY <1>5 DEF ReadImport, Field
  <2> QED BY <1>2, <1>5, <2>1, ReadImportText DEF ReadImport
<1>6. ASSUME NEW f \in Fields, ReadFunc(f) PROVE TextInv'
  <2>1. f.kind = "func" /\ phase = "fields"
    BY <1>6 DEF ReadFunc, Field
  <2> QED BY <1>2, <1>6, <2>1, ReadFuncText DEF ReadFunc
<1>7. ASSUME NEW f \in Fields, ReadGlobal(f) PROVE TextInv'
  <2>1. f.kind = "global" /\ phase = "fields"
    BY <1>7 DEF ReadGlobal, Field
  <2> QED BY <1>7, <2>1, ReadGlobalText DEF ReadGlobal
<1>8. ASSUME NEW f \in Fields, ReadTag(f) PROVE TextInv'
  <2>1. f.kind = "tag" /\ phase = "fields"
    BY <1>8 DEF ReadTag, Field
  <2> QED BY <1>8, <2>1, ReadTagText DEF ReadTag
<1>9. ASSUME NEW f \in Fields, ReadElem(f) PROVE TextInv'
  <2>1. /\ UNCHANGED <<dce, decls, imports, funcs, globals, tags, sigs, phase, err>>
    BY <1>9 DEF ReadElem
  <2>2. Onward
    BY <1>0, <1>1, <2>1 DEF Onward
  <2> QED BY <2>1, <2>2, QuietText
<1>10. ASSUME NEW e \in work, Pop(e) PROVE TextInv'
  <2>1. CASE Fail
    BY <1>2, <2>1
  <2>2. CASE UNCHANGED <<phase, sigs, remap, out, err>> /\ UNCHANGED source
    <3>1. Onward
      BY <1>0, <1>1, <2>2 DEF Onward, source
    <3> QED BY <2>2, <3>1, QuietText DEF source
  <2> QED BY <1>10, <2>1, <2>2 DEF Pop
<1>11. CASE Prune
  <2>1. sigs' \in Seq(Signatures) /\ Continues(sigs, sigs')
    BY <1>0, <1>11, PrewalkedAdds DEF Prune
  <2>2. /\ UNCHANGED source /\ phase' = "emit" /\ err' = err
    BY <1>11 DEF Prune
  <2>3. Onward
    BY <1>0, <2>1, <2>2 DEF Onward, source
  <2> QED BY <2>2, <2>3, QuietText DEF source
<1>12. CASE Emit
  <2>1. CASE Fail
    BY <1>2, <2>1
  <2>2. CASE phase' = "done" /\ UNCHANGED <<sigs, reach, work, remap, err>> /\ UNCHANGED source
    <3>1. Onward
      BY <1>0, <1>1, <2>2 DEF Onward, source
    <3> QED BY <2>2, <3>1, QuietText DEF source
  <2> QED BY <1>12, <2>1, <2>2 DEF Emit
<1> QED BY <1>3, <1>4, <1>5, <1>6, <1>7, <1>8, <1>9, <1>10, <1>11, <1>12 DEF Next

-----------------------------------------------------------------------------
(* Names of the two index spaces.                                           *)
LEMMA FuncLookup ==
  ASSUME TextTyped, NEW x
  PROVE  /\ AllFuncs \in Nat /\ Len(imports) \in Nat /\ Len(funcs) \in Nat /\ DOMAIN FuncNames = 1..AllFuncs
         /\ ResolveFunc(x) = None \/ Found(FuncNames, AllFuncs, x, ResolveFunc(x))
<1>1. Len(imports) \in Nat /\ Len(funcs) \in Nat
  BY DEF TextTyped
<1>2. AllFuncs \in Nat
  BY <1>1 DEF AllFuncs
<1>3. DOMAIN FuncNames = 1..AllFuncs
  BY DEF FuncNames, AllFuncs
<1>4. ResolveFunc(x) = IndexOf(FuncNames, x)
  BY DEF ResolveFunc
<1> QED BY <1>1, <1>2, <1>3, <1>4, Lookup

GlobalNames == [i \in DOMAIN globals |-> globals[i].id]

(* A global that is found has the name.                                     *)
LEMMA GlobalLookup ==
  ASSUME TextTyped, NEW x
  PROVE  /\ Len(globals) \in Nat /\ DOMAIN globals = 1..Len(globals)
         /\ ResolveGlobal(x) = None \/ Found(GlobalNames, Len(globals), x, ResolveGlobal(x))
<1>1. Len(globals) \in Nat /\ DOMAIN globals = 1..Len(globals)
  BY DEF TextTyped
<1>2. DOMAIN GlobalNames = 1..Len(globals)
  BY <1>1 DEF GlobalNames
<1>3. ResolveGlobal(x) = IndexOf(GlobalNames, x)
  BY DEF ResolveGlobal, GlobalNames
<1> QED BY <1>1, <1>2, <1>3, Lookup

(* What an entity refers to, when all of it is known, are entities. *)
LEMMA RefsInside ==
  ASSUME TextTyped, NEW e, None \notin Refs(e)
  PROVE  Refs(e) \subseteq Entities
<1> SUFFICES ASSUME NEW y \in Refs(e) PROVE y \in Entities
  OBVIOUS
<1>1. PICK r \in Range(Code(e)) : Refers(r) /\ y = Target(r)
  BY DEF Refs
<1>2. y # None
  OBVIOUS
<1>3. CASE r.op \in {"call", "ref.func"}
  <2> DEFINE x == r.name
  <2>1. y = ResolveFunc(x)
    BY <1>1, <1>3 DEF Target
  <2> HIDE DEF x
  <2>2. Found(FuncNames, AllFuncs, x, y) /\ AllFuncs \in Nat /\ Len(globals) \in Nat
    BY <1>2, <2>1, FuncLookup, GlobalLookup
  <2> QED BY <2>2 DEF Found, Entities
<1>4. CASE r.op = "global"
  <2> DEFINE x == r.name
  <2>1. y = IF ResolveGlobal(x) = None THEN None ELSE AllFuncs + ResolveGlobal(x)
    BY <1>1, <1>4 DEF Target
  <2> HIDE DEF x
  <2>2. AllFuncs \in Nat /\ Len(globals) \in Nat /\ Found(GlobalNames, Len(globals), x, ResolveGlobal(x))
    BY <1>2, <2>1, FuncLookup, GlobalLookup
  <2>3. y = AllFuncs + ResolveGlobal(x) /\ ResolveGlobal(x) \in 0..(Len(globals) - 1)
    BY <1>2, <2>1, <2>2 DEF Found
  <2> QED BY <2>2, <2>3 DEF Entities
<1> QED BY <1>1, <1>3, <1>4 DEF Refers

(* The roots are entities.                                                  *)
LEMMA RootsInside ==
  ASSUME TextTyped
  PROVE  Roots \subseteq Entities
<1>1. Len(imports) \in Nat /\ Len(funcs) \in Nat /\ Len(globals) \in Nat /\ DOMAIN funcs = 1..Len(funcs)
  BY DEF TextTyped
<1> QED BY <1>1 DEF Roots, Entities, AllFuncs

(* Marks are entities; without dead-code elimination all of them are marked. *)
ReachInv ==
  /\ reach \subseteq Entities /\ work \subseteq reach
  /\ phase \in {"types", "fields"} => reach = {} /\ work = {}
  /\ phase \in {"prune", "emit"} /\ ~dce => reach = Entities

(* The entities depend on the text alone.                                   *)
LEMMA EntitiesFixed ==
  ASSUME UNCHANGED source
  PROVE  Entities' = Entities /\ dce' = dce
BY DEF source, Entities, AllFuncs

(* Every step keeps the marks within the entities.                          *)
LEMMA NextReach ==
  ASSUME TextInv, ReachInv, MarkInv, [Next]_vars
  PROVE  ReachInv'
<1>0. TextTyped /\ dce \in BOOLEAN
  BY DEF TextInv, TextTyped
<1>1. CASE Fail
  <2>1. Entities' = Entities /\ reach' = reach /\ work' = work /\ phase' = "done"
    BY <1>1, EntitiesFixed DEF Fail
  <2> QED BY <2>1 DEF ReachInv
<1>2. ASSUME phase \in {"types", "fields"}, UNCHANGED <<reach, work>>, phase' \in {"types", "fields"}
      PROVE  ReachInv'
  BY <1>2 DEF ReachInv
<1>3. ASSUME NEW t \in Types, ReadType(t) PROVE ReachInv'
  BY <1>2, <1>3 DEF ReadType
<1>4. CASE EndTypes
  BY <1>2, <1>4 DEF EndTypes
<1>5. ASSUME NEW f \in Fields,
             ReadImport(f) \/ ReadFunc(f) \/ ReadGlobal(f) \/ ReadTag(f) \/ ReadElem(f)
      PROVE  ReachInv'
  <2>1. Fail \/ (phase \in {"types", "fields"} /\ UNCHANGED <<reach, work>> /\ phase' \in {"types", "fields"})
    BY <1>5 DEF ReadImport, ReadFunc, ReadGlobal, ReadTag, ReadElem, Field
  <2> QED BY <1>1, <1>2, <2>1
<1>6. CASE MarkRoots
  <2>1. /\ Entities' = Entities /\ dce' = dce /\ phase' = IF dce THEN "mark" ELSE "prune"
        /\ reach' = IF dce THEN Roots ELSE Entities
        /\ work' = IF dce THEN Roots ELSE {}
    BY <1>6, EntitiesFixed DEF MarkRoots
  <2>2. Roots \subseteq Entities
    BY <1>0, RootsInside
  <2>3. CASE dce
    BY <2>1, <2>2, <2>3 DEF ReachInv
  <2>4. CASE ~dce
    BY <2>1, <2>4 DEF ReachInv
  <2> QED BY <2>3, <2>4
<1>7. ASSUME NEW e \in work, Pop(e) PROVE ReachInv'
  <2>1. CASE None \notin Refs(e) /\ reach' = reach \cup Refs(e)
             /\ work' = (work \ {e}) \cup (Refs(e) \ reach)
             /\ UNCHANGED <<phase, sigs, remap, out, err>> /\ UNCHANGED source
    <3>1. Refs(e) \subseteq Entities
      BY <1>0, <2>1, RefsInside
    <3>2. phase' = "mark" /\ Entities' = Entities
      BY <1>7, <2>1, EntitiesFixed DEF Pop
    <3> QED BY <2>1, <3>1, <3>2 DEF ReachInv
  <2> QED BY <1>1, <1>7, <2>1 DEF Pop
<1>8. CASE EndMark
  <2>1. phase = "mark" /\ dce' = dce /\ Entities' = Entities /\ phase' = "prune" /\ UNCHANGED <<reach, work>>
    BY <1>8, EntitiesFixed DEF EndMark
  <2>2. dce
    BY <2>1 DEF MarkInv
  <2> QED BY <2>1, <2>2 DEF ReachInv
<1>9. CASE Prune
  <2>1. phase = "prune" /\ dce' = dce /\ Entities' = Entities /\ phase' = "emit" /\ UNCHANGED <<reach, work>>
    BY <1>9, EntitiesFixed DEF Prune
  <2> QED BY <2>1 DEF ReachInv
<1>10. CASE Emit
  <2>1. Fail \/ (Entities' = Entities /\ phase' = "done" /\ UNCHANGED <<reach, work>>)
    BY <1>10, EntitiesFixed DEF Emit
  <2> QED BY <1>1, <2>1 DEF ReachInv
<1>11. CASE UNCHANGED vars
  <2>1. UNCHANGED source /\ UNCHANGED <<phase, reach, work>>
    BY <1>11 DEF vars, source
  <2> QED BY <2>1, EntitiesFixed DEF ReachInv
<1> QED BY <1>3, <1>4, <1>5, <1>6, <1>7, <1>8, <1>9, <1>10, <1>11 DEF Next

-----------------------------------------------------------------------------
(* What the sections are made from: the marks are closed, every block has    *)
(* its signature, and the remaps are those of what survives.                *)
FuncsKept == {i \in 1..AllFuncs : FuncKept(i)}
GlobalsKept == {i \in DOMAIN globals : GlobalKept(i)}
SigsKept == {k \in DOMAIN sigs : SigKept(k, sigs)}

Closed == IF dce THEN Roots \subseteq reach /\ \A e \in reach : Refs(e) \subseteq reach
                 ELSE reach = Entities
Remapped == /\ remap.func = Renumber(AllFuncs, FuncsKept)
            /\ remap.global = Renumber(Len(globals), GlobalsKept)
            /\ remap.sig = Renumber(Len(sigs), SigsKept)
BlocksKnown == \A i \in 1..Len(funcs) : BlockSigs(funcs[i].body) \subseteq Range(sigs)
Ready == reach \subseteq Entities /\ Closed /\ Remapped /\ BlocksKnown

Resolved(s) == /\ \A i \in DOMAIN s.globals : s.globals[i].init.index # None
               /\ \A i \in DOMAIN s.code : \A k \in DOMAIN s.code[i].body : s.code[i].body[k].index # None

EmitInv ==
  /\ phase = "emit" => Ready
  /\ Written => Ready /\ out = Sections /\ Resolved(out)

(* The sections depend on the text, the signatures, the marks and the remaps. *)
LEMMA SectionsFixed ==
  ASSUME UNCHANGED source, UNCHANGED <<sigs, reach, remap>>
  PROVE  Sections' = Sections
<1>1. /\ dce' = dce /\ imports' = imports /\ funcs' = funcs /\ globals' = globals /\ decls' = decls
      /\ tags' = tags /\ elems' = elems /\ sigs' = sigs /\ reach' = reach /\ remap' = remap
  BY DEF source
<1>2. /\ LiveFuncs' = LiveFuncs /\ GlobalIds' = GlobalIds /\ Exported' = Exported
      /\ AllFuncs' = AllFuncs /\ FuncNames' = FuncNames
  BY <1>1 DEF LiveFuncs, GlobalIds, Exported, AllFuncs, FuncNames, FuncKept
<1>3. ASSUME NEW t PROVE MapType(t)' = MapType(t) /\ MapFunc(t)' = MapFunc(t)
  BY <1>1 DEF MapType, MapFunc
<1>4. ASSUME NEW r, NEW f PROVE EncodeInstr(r, f)' = EncodeInstr(r, f)
  <2>1. ResolveFunc(r.name)' = ResolveFunc(r.name) /\ ResolveGlobal(r.name)' = ResolveGlobal(r.name)
    BY <1>1, <1>2 DEF ResolveFunc, ResolveGlobal
  <2>2. BlockType(r.sig)' = BlockType(r.sig)
    BY <1>1 DEF BlockType, MapType
  <2> QED BY <1>1, <2>1, <2>2 DEF EncodeInstr, MapFunc, MapGlobal
<1>5. ASSUME NEW f PROVE EncodeCode(f)' = EncodeCode(f)
  BY <1>4, Zenon DEF EncodeCode
<1>6. Declared' = Declared
  <2>1. DeclaredNames' = DeclaredNames
    BY <1>1 DEF DeclaredNames, Code, Entities, AllFuncs
  <2> QED BY <1>1, <1>2, <2>1 DEF Declared
<1>7. Sections' = Sections
  BY <1>1, <1>2, <1>3, <1>4, <1>5, <1>6 DEF Sections
<1> QED BY <1>7

(* What survives depends on the text and the marks.                         *)
LEMMA KeptFixed ==
  ASSUME UNCHANGED source, reach' = reach
  PROVE  /\ AllFuncs' = AllFuncs /\ FuncsKept' = FuncsKept /\ GlobalsKept' = GlobalsKept
         /\ \A k, t : SigKept(k, t)' = SigKept(k, t)
         /\ LiveFuncs' = LiveFuncs
<1>1. /\ dce' = dce /\ imports' = imports /\ funcs' = funcs /\ globals' = globals /\ decls' = decls
      /\ tags' = tags
  BY DEF source
<1>2. AllFuncs' = AllFuncs
  BY <1>1 DEF AllFuncs
<1>3. FuncsKept' = FuncsKept
  BY <1>1, <1>2 DEF FuncsKept, FuncKept
<1>4. GlobalsKept' = GlobalsKept
  BY <1>1, <1>2 DEF GlobalsKept, GlobalKept
<1>5. LiveFuncs' = LiveFuncs
  BY <1>1 DEF LiveFuncs, FuncKept
<1>6. ASSUME NEW k, NEW t PROVE SigKept(k, t)' = SigKept(k, t)
  BY <1>1, <1>5 DEF SigKept
<1> QED BY <1>2, <1>3, <1>4, <1>5, <1>6

(* A step that leaves those alone leaves the assembler ready.               *)
LEMMA ReadyFixed ==
  ASSUME Ready, UNCHANGED source, UNCHANGED <<sigs, reach, remap>>
  PROVE  Ready'
<1>1. /\ dce' = dce /\ Roots' = Roots /\ Entities' = Entities /\ reach' = reach
      /\ \A e : Refs(e)' = Refs(e)
  BY SourceFixes
<1>2. /\ AllFuncs' = AllFuncs /\ FuncsKept' = FuncsKept /\ GlobalsKept' = GlobalsKept
      /\ \A k, t : SigKept(k, t)' = SigKept(k, t)
  BY KeptFixed
<1>3. sigs' = sigs /\ remap' = remap /\ globals' = globals /\ funcs' = funcs
  BY DEF source
<1>4. SigsKept' = SigsKept
  BY <1>2, <1>3 DEF SigsKept
<1>5. Closed'
  BY <1>1 DEF Closed, Ready
<1>6. Remapped'
  BY <1>2, <1>3, <1>4 DEF Remapped, Ready, Renumber
<1>7. BlocksKnown'
  BY <1>3 DEF BlocksKnown, Ready, BlockSigs, NamesSig
<1> QED BY <1>1, <1>5, <1>6, <1>7 DEF Ready

(* Prune renumbers what survives, after all block signatures are known.     *)
LEMMA PruneReady ==
  ASSUME TextInv, ReachInv, MarkInv, Prune
  PROVE  Ready'
<1>0. /\ phase = "prune" /\ UNCHANGED source /\ sigs' = Prewalked /\ reach' = reach /\ dce \in BOOLEAN
      /\ sigs \in Seq(Signatures) /\ funcs \in Seq(FuncSet)
  BY DEF Prune, TextInv, TextTyped
<1>1. /\ dce' = dce /\ Roots' = Roots /\ Entities' = Entities
      /\ \A e : Refs(e)' = Refs(e)
  BY <1>0, SourceFixes
<1>2. /\ AllFuncs' = AllFuncs /\ FuncsKept' = FuncsKept /\ GlobalsKept' = GlobalsKept
      /\ \A k, t : SigKept(k, t)' = SigKept(k, t)
  BY <1>0, KeptFixed
<1>3. reach' \subseteq Entities'
  BY <1>0, <1>1 DEF ReachInv
<1>4. Closed'
  <2>1. CASE dce
    <3>1. Roots \subseteq reach /\ work = {} /\ \A e \in reach \ work : Refs(e) \subseteq reach
      BY <1>0, <2>1 DEF MarkInv
    <3> QED BY <1>0, <1>1, <2>1, <3>1 DEF Closed
  <2>2. CASE ~dce
    BY <1>0, <1>1, <2>2 DEF Closed, ReachInv
  <2> QED BY <2>1, <2>2
<1>5. Remapped'
  <2>1. SigsKept' = {k \in DOMAIN Prewalked : SigKept(k, Prewalked)}
    <3>1. SigsKept' = {k \in DOMAIN sigs' : SigKept(k, sigs)'}
      BY DEF SigsKept
    <3>2. \A k : SigKept(k, sigs)' = SigKept(k, Prewalked)
      BY <1>0, <1>2
    <3> QED BY <1>0, <3>1, <3>2
  <2>2. globals' = globals
    BY <1>0 DEF source
  <2>3. /\ remap'.func = Renumber(AllFuncs, FuncsKept)
        /\ remap'.global = Renumber(Len(globals), GlobalsKept)
        /\ remap'.sig = Renumber(Len(Prewalked), {k \in DOMAIN Prewalked : SigKept(k, Prewalked)})
    BY DEF Prune, FuncsKept, GlobalsKept
  <2> QED BY <1>0, <1>2, <2>1, <2>2, <2>3 DEF Remapped, Renumber
<1>6. BlocksKnown'
  <2>1. \A i \in 1..Len(funcs) : BlockSigs(funcs[i].body) \subseteq Range(Prewalked)
    BY <1>0, PrewalkedAdds
  <2>2. funcs' = funcs
    BY <1>0 DEF source
  <2> QED BY <1>0, <2>1, <2>2 DEF BlocksKnown, BlockSigs, NamesSig
<1> QED BY <1>3, <1>4, <1>5, <1>6 DEF Ready

(* What is written are the sections, with every name resolved.              *)
LEMMA EmitStep ==
  ASSUME EmitInv, phase = "emit", ~Unresolved(Sections), out' = Sections,
         UNCHANGED <<sigs, reach, work, remap, err>>, UNCHANGED source
  PROVE  Ready' /\ out' = Sections' /\ Resolved(out')
<1>1. Ready' /\ Sections' = Sections
  BY SectionsFixed, ReadyFixed DEF EmitInv
<1> DEFINE s == Sections
<1> HIDE DEF s
<1>2. ~Unresolved(s) => Resolved(s)
  BY DEF Unresolved, Resolved
<1> QED BY <1>1, <1>2 DEF s

(* Every step keeps that.                                                   *)
LEMMA NextEmit ==
  ASSUME TextInv, ReachInv, MarkInv, EmitInv, [Next]_vars
  PROVE  EmitInv'
<1>1. ASSUME phase' \in {"types", "fields", "mark", "prune"} \/ (phase' = "done" /\ err')
      PROVE  EmitInv'
  BY <1>1 DEF EmitInv, Written
<1>2. CASE Fail
  BY <1>1, <1>2 DEF Fail
<1>3. ASSUME NEW t \in Types, ReadType(t) PROVE EmitInv'
  BY <1>1, <1>3 DEF ReadType
<1>4. CASE EndTypes \/ MarkRoots \/ EndMark
  BY <1>1, <1>4 DEF EndTypes, MarkRoots, EndMark
<1>5. ASSUME NEW f \in Fields,
             ReadImport(f) \/ ReadFunc(f) \/ ReadGlobal(f) \/ ReadTag(f) \/ ReadElem(f)
      PROVE  EmitInv'
  <2>1. Fail \/ phase' = "fields"
    BY <1>5 DEF ReadImport, ReadFunc, ReadGlobal, ReadTag, ReadElem, Field
  <2> QED BY <1>1, <1>2, <2>1
<1>6. ASSUME NEW e \in work, Pop(e) PROVE EmitInv'
  <2>1. Fail \/ phase' = "mark"
    BY <1>6 DEF Pop
  <2> QED BY <1>1, <1>2, <2>1
<1>7. CASE Prune
  <2>1. Ready' /\ phase' = "emit"
    BY <1>7, PruneReady DEF Prune
  <2> QED BY <2>1 DEF EmitInv, Written
<1>8. CASE Emit
  <2>1. CASE ~Fail
    <3>1. /\ phase = "emit" /\ ~Unresolved(Sections) /\ out' = Sections /\ phase' = "done"
          /\ UNCHANGED <<sigs, reach, work, remap, err>> /\ UNCHANGED source
      BY <1>8, <2>1 DEF Emit
    <3>2. Ready' /\ out' = Sections' /\ Resolved(out')
      BY <3>1, EmitStep
    <3>3. phase' # "emit"
      BY <3>1
    <3> QED BY <3>2, <3>3 DEF EmitInv, Resolved
  <2> QED BY <1>2, <2>1
<1>9. CASE UNCHANGED vars
  <2>1. UNCHANGED source /\ UNCHANGED <<sigs, reach, remap>> /\ phase' = phase /\ err' = err /\ out' = out
    BY <1>9 DEF vars, source
  <2>2. Sections' = Sections
    BY <2>1, SectionsFixed
  <2>3. Written' = Written
    BY <2>1 DEF Written
  <2>4. Ready => Ready'
    BY <2>1, ReadyFixed
  <2>5. Resolved(out)' = Resolved(out)
    BY <2>1 DEF Resolved
  <2> QED BY <2>1, <2>2, <2>3, <2>4, <2>5 DEF EmitInv
<1> QED BY <1>3, <1>4, <1>5, <1>6, <1>7, <1>8, <1>9 DEF Next

(* The inductive invariant of the assembler. *)
IInv == TextInv /\ ReachInv /\ MarkInv /\ EmitInv

(* The invariant holds in every state.                                      *)
LEMMA AlwaysIInv == Spec => []IInv
<1>1. Init => IInv
  <2> SUFFICES ASSUME Init PROVE IInv
    OBVIOUS
  <2>1. TextInv
    BY InitText
  <2>2. ReachInv
    BY DEF Init, ReachInv
  <2>3. MarkInv /\ EmitInv
    BY DEF Init, MarkInv, EmitInv, Written
  <2> QED BY <2>1, <2>2, <2>3 DEF IInv
<1>2. IInv /\ [Next]_vars => IInv'
  BY NextText, NextReach, NextKeeps, NextEmit DEF IInv
<1> QED BY <1>1, <1>2, PTL DEF Spec

-----------------------------------------------------------------------------
(* What a remap and the parts of the binary are.                            *)
LEMMA Remap ==
  ASSUME NEW n \in Nat, NEW K \in SUBSET (1..n), NEW m, m = Renumber(n, K)
  PROVE  /\ \A i \in K : m[i] = Rank(K, i)
         /\ {i \in 1..n : m[i] # Dropped} = K
<1>1. \A i \in K : Rank(K, i) \in Nat
  <2>1. Cardinality(K) \in Nat /\ \A i \in K : Rank(K, i) \in 0..(Cardinality(K) - 1)
    BY RankBounds
  <2> QED BY <2>1
<1>2. \A i \in 1..n : m[i] = IF i \in K THEN Rank(K, i) ELSE Dropped
  <2>1. m = [i \in 1..n |-> IF i \in K THEN Rank(K, i) ELSE Dropped]
    BY Zenon DEF Renumber, Rank
  <2> QED BY <2>1
<1>3. \A i \in K : m[i] = Rank(K, i)
  BY <1>2
<1>4. ASSUME NEW i \in 1..n PROVE m[i] # Dropped <=> i \in K
  BY <1>1, <1>2 DEF Dropped
<1> QED BY <1>3, <1>4

ImportEntries == [i \in DOMAIN imports |-> [type |-> MapType(imports[i].type), who |-> imports[i].src]]
FuncEntries == [i \in DOMAIN funcs |-> [type |-> MapType(funcs[i].type), who |-> funcs[i].src]]
TagEntries == [i \in DOMAIN tags |-> [type |-> MapType(tags[i].type), who |-> tags[i].src]]
GlobalEntries == [i \in DOMAIN globals |-> [init |-> EncodeInstr(globals[i].init, <<>>), who |-> globals[i].src]]
ExportEntries == [i \in DOMAIN funcs |-> [index |-> MapFunc(Len(imports) + i - 1), who |-> funcs[i].src]]
ElemEntries == [i \in 1..AllFuncs |-> MapFunc(i - 1)]
CodeEntries == [i \in DOMAIN funcs |-> EncodeCode(funcs[i])]

Emitted == TextInv /\ Ready /\ out = Sections /\ Resolved(out)

(* The domains of the tables and the bounds of what is kept of them.        *)
LEMMA Sizes ==
  ASSUME TextTyped
  PROVE  /\ Len(imports) \in Nat /\ Len(funcs) \in Nat /\ Len(globals) \in Nat /\ Len(tags) \in Nat
         /\ Len(decls) \in Nat /\ Len(sigs) \in Nat /\ AllFuncs \in Nat /\ AllFuncs = Len(imports) + Len(funcs)
         /\ DOMAIN imports = 1..Len(imports) /\ DOMAIN funcs = 1..Len(funcs)
         /\ DOMAIN globals = 1..Len(globals) /\ DOMAIN tags = 1..Len(tags) /\ DOMAIN sigs = 1..Len(sigs)
         /\ LiveFuncs \in SUBSET (1..Len(funcs)) /\ Exported \in SUBSET (1..Len(funcs))
         /\ FuncsKept \in SUBSET (1..AllFuncs) /\ GlobalsKept \in SUBSET (1..Len(globals))
         /\ SigsKept \in SUBSET (1..Len(sigs)) /\ Declared \in SUBSET (1..AllFuncs)
<1>1. /\ Len(imports) \in Nat /\ Len(funcs) \in Nat /\ Len(globals) \in Nat /\ Len(tags) \in Nat
      /\ Len(decls) \in Nat /\ Len(sigs) \in Nat
      /\ DOMAIN imports = 1..Len(imports) /\ DOMAIN funcs = 1..Len(funcs)
      /\ DOMAIN globals = 1..Len(globals) /\ DOMAIN tags = 1..Len(tags) /\ DOMAIN sigs = 1..Len(sigs)
  BY DEF TextTyped
<1> QED BY <1>1 DEF AllFuncs, LiveFuncs, Exported, FuncsKept, GlobalsKept, SigsKept, Declared

(* The parts of the binary, as selections of the tables.                    *)
LEMMA Parts ==
  ASSUME Emitted
  PROVE  /\ out.imports = ImportEntries /\ out.tags = TagEntries
         /\ Selected(out.types, sigs, SigsKept) /\ Selected(out.funcs, FuncEntries, LiveFuncs)
         /\ Selected(out.globals, GlobalEntries, GlobalsKept) /\ Selected(out.exports, ExportEntries, Exported)
         /\ Selected(out.elems, ElemEntries, Declared) /\ Selected(out.code, CodeEntries, LiveFuncs)
<1>0. TextTyped /\ Remapped
  BY DEF Emitted, TextInv, Ready
<1>1. /\ Len(imports) \in Nat /\ Len(funcs) \in Nat /\ Len(globals) \in Nat /\ Len(tags) \in Nat
      /\ Len(decls) \in Nat /\ Len(sigs) \in Nat /\ AllFuncs \in Nat
      /\ DOMAIN globals = 1..Len(globals) /\ DOMAIN sigs = 1..Len(sigs)
      /\ LiveFuncs \in SUBSET (1..Len(funcs)) /\ Exported \in SUBSET (1..Len(funcs))
      /\ GlobalsKept \in SUBSET (1..Len(globals)) /\ SigsKept \in SUBSET (1..Len(sigs))
      /\ Declared \in SUBSET (1..AllFuncs)
  BY <1>0, Sizes
<1>2. /\ out.imports = ImportEntries /\ out.tags = TagEntries
      /\ out.types = Kept(sigs, {k \in DOMAIN sigs : remap.sig[k] # Dropped})
      /\ out.funcs = Kept(FuncEntries, LiveFuncs) /\ out.globals = Kept(GlobalEntries, GlobalIds)
      /\ out.exports = Kept(ExportEntries, Exported) /\ out.elems = Kept(ElemEntries, Declared)
      /\ out.code = Kept(CodeEntries, LiveFuncs)
  BY DEF Emitted, Sections, ImportEntries, TagEntries, FuncEntries, GlobalEntries, ExportEntries,
         ElemEntries, CodeEntries
<1>3. {k \in DOMAIN sigs : remap.sig[k] # Dropped} = SigsKept
  <2>1. remap.sig = Renumber(Len(sigs), SigsKept)
    BY <1>0 DEF Remapped
  <2>2. {k \in 1..Len(sigs) : remap.sig[k] # Dropped} = SigsKept
    <3> DEFINE m == remap.sig
               n == Len(sigs)
    <3>1. m = Renumber(n, SigsKept) /\ n \in Nat /\ SigsKept \in SUBSET (1..n)
      BY <1>1, <2>1
    <3> HIDE DEF m, n
    <3>2. {k \in 1..n : m[k] # Dropped} = SigsKept
      BY <3>1, Remap
    <3> QED BY <3>2 DEF m, n
  <2> QED BY <1>1, <2>2
<1>4. GlobalIds = GlobalsKept
  <2>1. remap.global = Renumber(Len(globals), GlobalsKept)
    BY <1>0 DEF Remapped
  <2>2. {i \in 1..Len(globals) : remap.global[i] # Dropped} = GlobalsKept
    <3> DEFINE m == remap.global
               n == Len(globals)
    <3>1. m = Renumber(n, GlobalsKept) /\ n \in Nat /\ GlobalsKept \in SUBSET (1..n)
      BY <1>1, <2>1
    <3> HIDE DEF m, n
    <3>2. {i \in 1..n : m[i] # Dropped} = GlobalsKept
      BY <3>1, Remap
    <3> QED BY <3>2 DEF m, n
  <2> QED BY <1>1, <2>2 DEF GlobalIds
<1>5. Selected(Kept(sigs, SigsKept), sigs, SigsKept) /\ Selected(Kept(FuncEntries, LiveFuncs), FuncEntries, LiveFuncs)
  BY <1>1, KeptSelected
<1>6. /\ Selected(Kept(GlobalEntries, GlobalsKept), GlobalEntries, GlobalsKept)
      /\ Selected(Kept(ExportEntries, Exported), ExportEntries, Exported)
  BY <1>1, KeptSelected
<1>7. /\ Selected(Kept(ElemEntries, Declared), ElemEntries, Declared)
      /\ Selected(Kept(CodeEntries, LiveFuncs), CodeEntries, LiveFuncs)
  BY <1>1, KeptSelected
<1> QED BY <1>2, <1>3, <1>4, <1>5, <1>6, <1>7

-----------------------------------------------------------------------------
(* What a mapped index denotes.                                             *)
FuncSrc(j) == IF j <= Len(imports) THEN imports[j].src ELSE funcs[j - Len(imports)].src

(* A function that survives is where its mapped index says.                 *)
LEMMA FuncMapped ==
  ASSUME Emitted, NEW j \in FuncsKept
  PROVE  MapFunc(j - 1) \in 0..(SpaceSize - 1) /\ FuncAt(MapFunc(j - 1)) = FuncSrc(j)
<1> DEFINE NI == Len(imports)
           n == Len(funcs)
           L == LiveFuncs
           K == FuncsKept
           fs == out.funcs
<1>0. TextTyped /\ Remapped
  BY DEF Emitted, TextInv, Ready
<1>1. /\ NI \in Nat /\ n \in Nat /\ AllFuncs \in Nat /\ AllFuncs = NI + n
      /\ L \in SUBSET (1..n) /\ K \in SUBSET (1..AllFuncs)
      /\ DOMAIN imports = 1..NI /\ DOMAIN funcs = 1..n
  BY <1>0, Sizes
<1>2. K = Shifted(NI, L)
  <2>1. ASSUME NEW i \in 1..n PROVE NI + i \in K <=> i \in L
    BY <1>1, <2>1 DEF FuncsKept, LiveFuncs
  <2>2. \A i \in 1..NI : i \in K
    BY <1>1 DEF FuncsKept, FuncKept
  <2>3. ASSUME NEW i \in K PROVE i \in 1..NI \/ \E l \in 1..n : i = NI + l
    <3>1. i \in 1..AllFuncs
      BY <1>1
    <3>2. i \in 1..NI \/ (i - NI \in 1..n /\ i = NI + (i - NI))
      BY <1>1, <3>1
    <3> QED BY <3>2
  <2> HIDE DEF K, L, NI, n
  <2> QED BY <1>1, <2>1, <2>2, <2>3 DEF Shifted
<1>3. /\ \A i \in 1..NI : Rank(K, i) = i - 1
      /\ \A i \in L : Rank(K, NI + i) = NI + Rank(L, i)
  <2>1. NI \in Nat /\ n \in Nat /\ L \subseteq 1..n /\ K = Shifted(NI, L)
    BY <1>1, <1>2
  <2> HIDE DEF K, L, NI, n
  <2>2. ShiftedRanks(NI, L, K)
    BY ONLY <2>1, RankShifted
  <2> QED BY <2>2 DEF ShiftedRanks
<1>4. MapFunc(j - 1) = Rank(K, j)
  <2>1. remap.func = Renumber(AllFuncs, K)
    BY <1>0 DEF Remapped
  <2>2. remap.func[j] = Rank(K, j)
    <3> HIDE DEF K
    <3>1. \A i \in K : remap.func[i] = Rank(K, i)
      BY <1>1, <2>1, Remap
    <3> QED BY <3>1 DEF K
  <2>3. (j - 1) + 1 = j
    BY <1>1
  <2> QED BY <2>2, <2>3 DEF MapFunc
<1>5. out.imports = ImportEntries /\ Selected(fs, FuncEntries, L)
  BY Parts
<1>6. /\ Len(out.imports) = NI
      /\ \A i \in 1..NI : out.imports[i].who = imports[i].src
  <2>1. out.imports = [i \in 1..NI |-> [type |-> MapType(imports[i].type), who |-> imports[i].src]]
    BY <1>1, <1>5 DEF ImportEntries
  <2> QED BY <1>1, <2>1
<1>7. Len(fs) = Cardinality(L) /\ Cardinality(L) \in Nat /\ Len(fs) \in Nat
  BY <1>5 DEF Selected
<1>8. CASE j \in 1..NI
  <2>1. MapFunc(j - 1) = j - 1
    BY <1>3, <1>4, <1>8
  <2>2. j - 1 \in 0..(SpaceSize - 1) /\ j - 1 < NI /\ (j - 1) + 1 = j
    BY <1>1, <1>6, <1>7, <1>8 DEF SpaceSize
  <2>3. FuncAt(j - 1) = imports[j].src
    BY <1>6, <1>8, <2>2 DEF FuncAt
  <2> QED BY <1>1, <1>8, <2>1, <2>2, <2>3 DEF FuncSrc
<1>9. CASE j \notin 1..NI
  <2>1. PICK l \in L : j = NI + l
    BY <1>2, <1>9 DEF Shifted
  <2>2. MapFunc(j - 1) = NI + Rank(L, l)
    BY <1>3, <1>4, <2>1
  <2>3. Rank(L, l) + 1 \in 1..Len(fs) /\ fs[Rank(L, l) + 1] = FuncEntries[l]
    BY <1>5 DEF Selected
  <2>4. FuncEntries[l].who = funcs[l].src
    BY <1>1 DEF FuncEntries
  <2>6. Rank(L, l) \in 0..(Cardinality(L) - 1)
    <3> HIDE DEF L
    <3> QED BY <1>1, RankBounds
  <2> DEFINE q == Rank(L, l)
             m == NI + q
  <2>7. q \in Nat /\ q < Len(fs)
    BY <1>7, <2>6
  <2> HIDE DEF q
  <2>8. m \in 0..(SpaceSize - 1) /\ ~(m < NI) /\ m - NI + 1 = q + 1
    BY <1>1, <1>6, <1>7, <2>7 DEF SpaceSize
  <2>9. FuncAt(m) = fs[q + 1].who
    <3> HIDE DEF m
    <3> QED BY <1>6, <2>8 DEF FuncAt
  <2>10. FuncAt(m) = funcs[l].src
    BY <2>3, <2>4, <2>9 DEF q
  <2>11. FuncSrc(j) = funcs[l].src
    <3>1. ~(j <= NI) /\ j - NI = l
      BY <1>1, <2>1
    <3> QED BY <3>1 DEF FuncSrc
  <2> QED BY <2>2, <2>8, <2>10, <2>11 DEF q
<1> QED BY <1>8, <1>9

(* It has the name it had in the text.                                      *)
LEMMA FuncSrcName ==
  ASSUME TextInv, NEW j \in 1..AllFuncs
  PROVE  FuncSrc(j).id = FuncNames[j]
<1>1. TextTyped /\ ImportsRight /\ FuncsRight
  BY DEF TextInv
<1>2. Len(imports) \in Nat /\ Len(funcs) \in Nat /\ AllFuncs = Len(imports) + Len(funcs)
  BY <1>1, Sizes
<1>3. CASE j <= Len(imports)
  <2>1. j \in 1..Len(imports)
    BY <1>2, <1>3
  <2>2. FuncNames[j] = imports[j].id
    BY <1>2, <1>3 DEF FuncNames, AllFuncs
  <2> QED BY <1>1, <1>3, <2>1, <2>2 DEF FuncSrc, ImportsRight, ImportRight
<1>4. CASE ~(j <= Len(imports))
  <2> DEFINE l == j - Len(imports)
  <2>1. l \in 1..Len(funcs)
    BY <1>2, <1>4
  <2>2. FuncNames[j] = funcs[l].id
    BY <1>2, <1>4 DEF FuncNames, AllFuncs
  <2>3. funcs[l].id = funcs[l].src.id
    <3> HIDE DEF l
    <3> QED BY <1>1, <2>1 DEF FuncsRight, FuncRight
  <2> QED BY <1>4, <2>2, <2>3 DEF FuncSrc
<1> QED BY <1>3, <1>4

(* A global that survives is where its mapped index says.                   *)
LEMMA GlobalMapped ==
  ASSUME Emitted, NEW i \in GlobalsKept
  PROVE  /\ MapGlobal(i - 1) + 1 \in DOMAIN out.globals
         /\ out.globals[MapGlobal(i - 1) + 1].who.id = GlobalNames[i]
<1> DEFINE K == GlobalsKept
           n == Len(globals)
           gs == out.globals
<1>0. TextTyped /\ Remapped /\ GlobalsRight
  BY DEF Emitted, TextInv, Ready
<1>1. n \in Nat /\ K \in SUBSET (1..n) /\ DOMAIN globals = 1..n
  BY <1>0, Sizes
<1>2. remap.global = Renumber(n, K)
  BY <1>0 DEF Remapped
<1>3. Selected(gs, GlobalEntries, K)
  BY Parts
<1>4. MapGlobal(i - 1) = Rank(K, i)
  <2>1. remap.global[i] = Rank(K, i)
    <3> HIDE DEF K, n
    <3>1. \A k \in K : remap.global[k] = Rank(K, k)
      BY <1>1, <1>2, Remap
    <3> QED BY <3>1 DEF K
  <2>2. (i - 1) + 1 = i
    BY <1>1
  <2> QED BY <2>1, <2>2 DEF MapGlobal
<1>5. Rank(K, i) + 1 \in 1..Len(gs) /\ gs[Rank(K, i) + 1] = GlobalEntries[i] /\ DOMAIN gs = 1..Len(gs)
  BY <1>3 DEF Selected
<1>6. GlobalEntries[i].who = globals[i].src /\ GlobalNames[i] = globals[i].id
  BY <1>1 DEF GlobalEntries, GlobalNames
<1>7. globals[i].id = globals[i].src.id
  BY <1>0, <1>1 DEF GlobalsRight, GlobalRight
<1> QED BY <1>4, <1>5, <1>6, <1>7

-----------------------------------------------------------------------------
(* What survives refers to what survives.                                   *)
LEMMA LiveEntity ==
  ASSUME TextTyped, Ready, NEW l \in LiveFuncs
  PROVE  Len(imports) + l - 1 \in reach /\ Code(Len(imports) + l - 1) = funcs[l].body
<1>1. Len(imports) \in Nat /\ Len(funcs) \in Nat /\ l \in 1..Len(funcs) /\ AllFuncs = Len(imports) + Len(funcs)
  BY Sizes
<1>2. FuncKept(Len(imports) + l)
  BY DEF LiveFuncs
<1>3. ~(Len(imports) + l <= Len(imports))
  BY <1>1
<1> DEFINE e == Len(imports) + l - 1
<1>4. e \in reach
  <2> DEFINE p == Len(imports) + l
  <2>1. FuncKept(p) /\ ~(p <= Len(imports)) /\ p - 1 = e
    BY <1>1, <1>2, <1>3
  <2> HIDE DEF p, e
  <2>2. p - 1 \in reach
    BY <2>1, Zenon DEF FuncKept
  <2> QED BY <2>1, <2>2
<1>5. ~(e < Len(imports)) /\ e < AllFuncs /\ e - Len(imports) + 1 = l
  BY <1>1
<1> HIDE DEF e
<1>6. Code(e) = funcs[l].body
  BY <1>5 DEF Code
<1> QED BY <1>4, <1>6 DEF e

(* A global that survives is marked.                                        *)
LEMMA LiveGlobal ==
  ASSUME TextTyped, Ready, NEW i \in GlobalsKept
  PROVE  AllFuncs + i - 1 \in reach /\ Code(AllFuncs + i - 1) = <<globals[i].init>>
<1>1. Len(imports) \in Nat /\ AllFuncs \in Nat /\ i \in 1..Len(globals) /\ Len(globals) \in Nat
      /\ AllFuncs >= Len(imports)
  BY Sizes
<1> DEFINE e == AllFuncs + i - 1
<1>2. e \in reach
  BY DEF GlobalsKept, GlobalKept
<1>3. ~(e < Len(imports)) /\ ~(e < AllFuncs) /\ e - AllFuncs + 1 = i
  BY <1>1
<1> HIDE DEF e
<1>4. Code(e) = <<globals[i].init>>
  BY <1>3 DEF Code
<1> QED BY <1>2, <1>4 DEF e

(* A function that is referred to from what survives survives,              *)
LEMMA TargetFunc ==
  ASSUME TextTyped, Ready, NEW e \in reach, NEW r \in Range(Code(e)), r.op \in {"call", "ref.func"},
         ResolveFunc(r.name) # None
  PROVE  /\ ResolveFunc(r.name) + 1 \in FuncsKept
         /\ dce => (ResolveFunc(r.name) + 1) - 1 \in reach
         /\ FuncNames[ResolveFunc(r.name) + 1] = r.name
<1> DEFINE x == r.name
           j == ResolveFunc(x)
<1>1. x = r.name /\ ResolveFunc(x) # None /\ Target(r) = ResolveFunc(x) /\ Refers(r)
  BY DEF Target, Refers
<1> HIDE DEF x
<1>2. Found(FuncNames, AllFuncs, x, j) /\ AllFuncs \in Nat /\ Len(globals) \in Nat
  BY <1>1, FuncLookup, GlobalLookup
<1>3. j \in Nat /\ j + 1 \in 1..AllFuncs /\ FuncNames[j + 1] = x /\ j \in 0..(AllFuncs - 1) /\ (j + 1) - 1 = j
  BY <1>2 DEF Found
<1>4. j \in Refs(e)
  BY <1>1 DEF Refs
<1>5. j \in reach
  <2>1. CASE dce
    BY <1>4, <2>1 DEF Ready, Closed
  <2>2. CASE ~dce
    <3>1. reach = Entities
      BY <2>2 DEF Ready, Closed
    <3>2. j \in Entities
      BY <1>2, <1>3 DEF Entities
    <3> QED BY <3>1, <3>2
  <2> QED BY <2>1, <2>2
<1> HIDE DEF j
<1>6. j + 1 \in FuncsKept
  BY <1>3, <1>5 DEF FuncsKept, FuncKept
<1> QED BY <1>1, <1>3, <1>5, <1>6 DEF j

(* and so does a global.                                                    *)
LEMMA TargetGlobal ==
  ASSUME TextTyped, Ready, NEW e \in reach, NEW r \in Range(Code(e)), r.op = "global",
         ResolveGlobal(r.name) # None
  PROVE  /\ ResolveGlobal(r.name) + 1 \in GlobalsKept
         /\ GlobalNames[ResolveGlobal(r.name) + 1] = r.name
<1> DEFINE x == r.name
           j == ResolveGlobal(x)
<1>1. x = r.name /\ ResolveGlobal(x) # None /\ Target(r) = AllFuncs + ResolveGlobal(x) /\ Refers(r)
  BY DEF Target, Refers
<1> HIDE DEF x
<1>2. Found(GlobalNames, Len(globals), x, j) /\ AllFuncs \in Nat /\ Len(globals) \in Nat
      /\ DOMAIN globals = 1..Len(globals)
  BY <1>1, FuncLookup, GlobalLookup
<1>3. j \in Nat /\ j + 1 \in 1..Len(globals) /\ GlobalNames[j + 1] = x /\ j \in 0..(Len(globals) - 1)
  BY <1>2 DEF Found
<1>4. AllFuncs + j \in Refs(e)
  BY <1>1 DEF Refs
<1>5. AllFuncs + j \in reach
  <2>1. CASE dce
    BY <1>4, <2>1 DEF Ready, Closed
  <2>2. CASE ~dce
    <3>1. reach = Entities
      BY <2>2 DEF Ready, Closed
    <3>2. AllFuncs + j \in Entities
      BY <1>2, <1>3 DEF Entities
    <3> QED BY <3>1, <3>2
  <2> QED BY <2>1, <2>2
<1>6. AllFuncs + (j + 1) - 1 = AllFuncs + j
  BY <1>2, <1>3
<1> DEFINE i == j + 1
<1> HIDE DEF j
<1>7. i \in 1..Len(globals) /\ AllFuncs + i - 1 \in reach
  BY <1>3, <1>5, <1>6
<1> HIDE DEF i
<1>8. i \in GlobalsKept
  BY <1>2, <1>7 DEF GlobalsKept, GlobalKept
<1> QED BY <1>1, <1>3, <1>8 DEF i, j

-----------------------------------------------------------------------------
(* An instruction of something that survives denotes what it did.            *)
LEMMA RightFunc ==
  ASSUME NEW x, x.op \in {"call", "ref.func"}, x.index \in 0..(SpaceSize - 1), FuncAt(x.index).id = x.want.name
  PROVE  RightEntity(x)
BY DEF RightEntity

(* The same for globals,                                                    *)
LEMMA RightGlobal ==
  ASSUME NEW x, x.op = "global", x.index + 1 \in DOMAIN out.globals,
         out.globals[x.index + 1].who.id = x.want.name
  PROVE  RightEntity(x)
BY DEF RightEntity

(* and there is nothing to show of other instructions.                      *)
LEMMA RightOther ==
  ASSUME NEW x, x.op \notin {"call", "ref.func", "global"}
  PROVE  RightEntity(x)
BY DEF RightEntity

(* An instruction of what survives denotes the entity of its name.          *)
LEMMA InstrRight ==
  ASSUME Emitted, NEW e \in reach, NEW r \in Range(Code(e)), NEW f,
         EncodeInstr(r, f).index # None
  PROVE  RightEntity(EncodeInstr(r, f))
<1> DEFINE x == EncodeInstr(r, f)
<1>0. TextInv /\ TextTyped /\ Ready
  BY DEF Emitted, TextInv
<1>1. x.op = r.op /\ x.want = r
  BY DEF EncodeInstr
<1>2. CASE r.op \in {"call", "ref.func"}
  <2> DEFINE j == ResolveFunc(r.name) + 1
  <2>1. x.index = IF ResolveFunc(r.name) = None THEN None ELSE MapFunc(ResolveFunc(r.name))
    BY <1>2 DEF EncodeInstr
  <2>2. ResolveFunc(r.name) # None
    BY <2>1
  <2>3. j \in FuncsKept /\ FuncNames[j] = r.name
    BY <1>0, <1>2, <2>2, TargetFunc
  <2>4. j - 1 = ResolveFunc(r.name)
    <3>1. Found(FuncNames, AllFuncs, r.name, ResolveFunc(r.name)) /\ AllFuncs \in Nat
      BY <1>0, <2>2, FuncLookup
    <3> QED BY <3>1 DEF Found
  <2> HIDE DEF j
  <2>5. MapFunc(j - 1) \in 0..(SpaceSize - 1) /\ FuncAt(MapFunc(j - 1)) = FuncSrc(j)
    BY <2>3, FuncMapped
  <2>6. FuncSrc(j).id = r.name
    <3>1. j \in 1..AllFuncs
      BY <2>3 DEF FuncsKept
    <3> QED BY <1>0, <2>3, <3>1, FuncSrcName
  <2>7. x.index = MapFunc(j - 1)
    BY <2>1, <2>2, <2>4
  <2> HIDE DEF x
  <2>8. x.index \in 0..(SpaceSize - 1) /\ FuncAt(x.index).id = x.want.name
    BY <1>1, <2>5, <2>6, <2>7
  <2>9. x.op \in {"call", "ref.func"}
    BY <1>1, <1>2
  <2>10. RightEntity(x)
    BY <2>8, <2>9, RightFunc
  <2> QED BY <2>10 DEF x
<1>3. CASE r.op = "global"
  <2> DEFINE j == ResolveGlobal(r.name) + 1
  <2>1. x.index = IF ResolveGlobal(r.name) = None THEN None ELSE MapGlobal(ResolveGlobal(r.name))
    BY <1>3 DEF EncodeInstr
  <2>2. ResolveGlobal(r.name) # None
    BY <2>1
  <2>3. j \in GlobalsKept /\ GlobalNames[j] = r.name
    BY <1>0, <1>3, <2>2, TargetGlobal
  <2>4. j - 1 = ResolveGlobal(r.name)
    <3>1. Found(GlobalNames, Len(globals), r.name, ResolveGlobal(r.name)) /\ Len(globals) \in Nat
      BY <1>0, <2>2, GlobalLookup
    <3> QED BY <3>1 DEF Found
  <2> HIDE DEF j
  <2>5. MapGlobal(j - 1) + 1 \in DOMAIN out.globals /\ out.globals[MapGlobal(j - 1) + 1].who.id = GlobalNames[j]
    BY <2>3, GlobalMapped
  <2>6. x.index = MapGlobal(j - 1)
    BY <2>1, <2>2, <2>4
  <2> HIDE DEF x
  <2>7. x.index + 1 \in DOMAIN out.globals /\ out.globals[x.index + 1].who.id = x.want.name
    BY <1>1, <2>3, <2>5, <2>6
  <2>8. x.op = "global"
    BY <1>1, <1>3
  <2>9. RightEntity(x)
    BY <2>7, <2>8, RightGlobal
  <2> QED BY <2>9 DEF x
<1>4. CASE r.op \notin {"call", "ref.func", "global"}
  <2>1. x.op \notin {"call", "ref.func", "global"}
    BY <1>1, <1>4
  <2> HIDE DEF x
  <2>2. RightEntity(x)
    BY <2>1, RightOther
  <2> QED BY <2>2 DEF x
<1> QED BY <1>2, <1>3, <1>4

(* The entries of the code section and of the global section. *)
LEMMA CodeFrom ==
  ASSUME Emitted, NEW i \in DOMAIN out.code
  PROVE  \E l \in LiveFuncs :
            /\ Rank(LiveFuncs, l) = i - 1 /\ out.code[i] = EncodeCode(funcs[l])
            /\ i \in 1..Len(out.code)
            /\ DOMAIN out.code[i].body = DOMAIN funcs[l].body
            /\ \A k \in DOMAIN funcs[l].body :
                  /\ out.code[i].body[k] = EncodeInstr(funcs[l].body[k], funcs[l])
                  /\ funcs[l].body[k] \in Range(funcs[l].body)
<1>1. Selected(out.code, CodeEntries, LiveFuncs)
  BY Parts
<1>2. i \in 1..Len(out.code)
  BY <1>1 DEF Selected
<1>3. PICK l \in LiveFuncs : Rank(LiveFuncs, l) = i - 1 /\ out.code[i] = CodeEntries[l]
  BY <1>1, <1>2 DEF Selected
<1>4. CodeEntries[l] = EncodeCode(funcs[l])
  BY DEF CodeEntries, LiveFuncs
<1>5. out.code[i].body = [k \in DOMAIN funcs[l].body |-> EncodeInstr(funcs[l].body[k], funcs[l])]
  BY <1>3, <1>4 DEF EncodeCode
<1>6. \A k \in DOMAIN funcs[l].body : funcs[l].body[k] \in Range(funcs[l].body)
  BY DEF Range
<1> QED BY <1>2, <1>3, <1>4, <1>5, <1>6

(* A global of the binary is one that survives, encoded.                    *)
LEMMA GlobalFrom ==
  ASSUME Emitted, NEW i \in DOMAIN out.globals
  PROVE  \E g \in GlobalsKept : out.globals[i].init = EncodeInstr(globals[g].init, <<>>)
<1>1. Selected(out.globals, GlobalEntries, GlobalsKept)
  BY Parts
<1>3. i \in 1..Len(out.globals)
  BY <1>1 DEF Selected
<1>2. PICK g \in GlobalsKept : out.globals[i] = GlobalEntries[g]
  BY <1>1, <1>3 DEF Selected
<1> QED BY <1>2 DEF GlobalEntries, GlobalsKept

(* ReferencesKeepTheirName holds of what is written.                        *)
LEMMA NamesKept ==
  ASSUME Emitted
  PROVE  /\ \A i \in DOMAIN out.code : \A k \in DOMAIN out.code[i].body : RightEntity(out.code[i].body[k])
         /\ \A i \in DOMAIN out.globals : RightEntity(out.globals[i].init)
         /\ \A i \in DOMAIN out.exports :
               out.exports[i].index \in 0..(SpaceSize - 1) /\ FuncAt(out.exports[i].index) = out.exports[i].who
<1>0. TextInv /\ TextTyped /\ Ready /\ Resolved(out)
  BY DEF Emitted, TextInv
<1>1. ASSUME NEW i \in DOMAIN out.code, NEW k \in DOMAIN out.code[i].body
      PROVE  RightEntity(out.code[i].body[k])
  <2>1. PICK l \in LiveFuncs :
            /\ DOMAIN out.code[i].body = DOMAIN funcs[l].body
            /\ \A m \in DOMAIN funcs[l].body :
                  /\ out.code[i].body[m] = EncodeInstr(funcs[l].body[m], funcs[l])
                  /\ funcs[l].body[m] \in Range(funcs[l].body)
    BY CodeFrom
  <2> DEFINE e == Len(imports) + l - 1
             r == funcs[l].body[k]
  <2>2. e \in reach /\ r \in Range(Code(e)) /\ out.code[i].body[k] = EncodeInstr(r, funcs[l])
    BY <1>0, <2>1, LiveEntity
  <2>3. out.code[i].body[k].index # None
    BY <1>0 DEF Resolved
  <2> HIDE DEF e, r
  <2> QED BY <2>2, <2>3, InstrRight
<1>2. ASSUME NEW i \in DOMAIN out.globals PROVE RightEntity(out.globals[i].init)
  <2>1. PICK g \in GlobalsKept : out.globals[i].init = EncodeInstr(globals[g].init, <<>>)
    BY GlobalFrom
  <2> DEFINE e == AllFuncs + g - 1
             r == globals[g].init
             nil == <<>>
  <2>2. e \in reach /\ Code(e) = <<r>>
    BY <1>0, LiveGlobal
  <2>3. r \in Range(Code(e)) /\ out.globals[i].init = EncodeInstr(r, nil)
    BY <2>1, <2>2 DEF Range
  <2>4. out.globals[i].init.index # None
    BY <1>0 DEF Resolved
  <2> HIDE DEF e, r, nil
  <2> QED BY <2>2, <2>3, <2>4, InstrRight
<1>3. ASSUME NEW i \in DOMAIN out.exports
      PROVE  out.exports[i].index \in 0..(SpaceSize - 1) /\ FuncAt(out.exports[i].index) = out.exports[i].who
  <2>1. Selected(out.exports, ExportEntries, Exported)
    BY Parts
  <2>0. i \in 1..Len(out.exports)
    BY <2>1 DEF Selected
  <2>2. PICK l \in Exported : out.exports[i] = ExportEntries[l]
    BY <2>0, <2>1 DEF Selected
  <2>3. out.exports[i].index = MapFunc(Len(imports) + l - 1) /\ out.exports[i].who = funcs[l].src
    BY <2>2 DEF ExportEntries, Exported
  <2>4. Len(imports) \in Nat /\ Len(funcs) \in Nat /\ l \in 1..Len(funcs) /\ AllFuncs = Len(imports) + Len(funcs)
        /\ Len(globals) \in Nat
    BY <1>0, Sizes
  <2> DEFINE j == Len(imports) + l
  <2>5. j \in 1..AllFuncs /\ ~(j <= Len(imports)) /\ j - Len(imports) = l /\ j - 1 = Len(imports) + l - 1
    BY <2>4
  <2>6. Len(imports) + l - 1 \in reach
    <3>1. CASE dce
      <4>1. Len(imports) + l - 1 \in Roots
        BY DEF Roots, Exported
      <4> QED BY <1>0, <3>1, <4>1 DEF Ready, Closed
    <3>2. CASE ~dce
      <4>1. Len(imports) + l - 1 \in Entities
        BY <2>4 DEF Entities
      <4> QED BY <1>0, <3>2, <4>1 DEF Ready, Closed
    <3> QED BY <3>1, <3>2
  <2> HIDE DEF j
  <2>7. j \in FuncsKept
    BY <2>5, <2>6 DEF FuncsKept, FuncKept
  <2>8. MapFunc(j - 1) \in 0..(SpaceSize - 1) /\ FuncAt(MapFunc(j - 1)) = FuncSrc(j)
    BY <2>7, FuncMapped
  <2>9. FuncSrc(j) = funcs[l].src
    BY <2>5 DEF FuncSrc
  <2> QED BY <2>3, <2>5, <2>8, <2>9
<1> QED BY <1>1, <1>2, <1>3

-----------------------------------------------------------------------------
(* The declarative segment.  The compiler writes ref.func in folded form.    *)
RefFuncsFolded ==
  \A f \in Fields :
     /\ f.kind = "func" => \A r \in Range(f.body) : r.op = "ref.func" => r.folded
     /\ f.kind = "global" => (f.init.op = "ref.func" => f.init.folded)

(* Every ref.func is in the folded form.                                    *)
LEMMA CodeFolded ==
  ASSUME RefFuncsFolded, TextInv, NEW e \in Entities, NEW r \in Range(Code(e)), r.op = "ref.func"
  PROVE  r.folded
<1>0. TextTyped /\ FuncsRight /\ GlobalsRight
  BY DEF TextInv
<1>1. Len(imports) \in Nat /\ Len(funcs) \in Nat /\ Len(globals) \in Nat /\ AllFuncs = Len(imports) + Len(funcs)
  BY <1>0, Sizes
<1>2. e \in Int /\ 0 <= e /\ e <= AllFuncs + Len(globals) - 1
  BY <1>1 DEF Entities
<1>3. CASE e < Len(imports)
  BY <1>3 DEF Code, Range
<1>4. CASE ~(e < Len(imports)) /\ e < AllFuncs
  <2> DEFINE l == e - Len(imports) + 1
  <2>1. l \in 1..Len(funcs) /\ Code(e) = funcs[l].body
    BY <1>1, <1>2, <1>4 DEF Code
  <2> HIDE DEF l
  <2>2. FuncRight(funcs[l], decls, sigs) /\ funcs[l] \in FuncSet
    BY <1>0, <2>1 DEF FuncsRight, TextTyped
  <2>3. funcs[l].src \in Fields /\ funcs[l].src.kind = "func" /\ funcs[l].body = funcs[l].src.body
    BY <2>2 DEF FuncRight, FuncSet
  <2> QED BY <2>1, <2>3 DEF RefFuncsFolded
<1>5. CASE ~(e < Len(imports)) /\ ~(e < AllFuncs)
  <2> DEFINE g == e - AllFuncs + 1
  <2>1. g \in 1..Len(globals) /\ Code(e) = <<globals[g].init>>
    BY <1>1, <1>2, <1>5 DEF Code
  <2> HIDE DEF g
  <2>2. GlobalRight(globals[g]) /\ globals[g] \in GlobalSet
    BY <1>0, <2>1 DEF GlobalsRight, TextTyped
  <2>3. globals[g].src \in Fields /\ globals[g].src.kind = "global" /\ globals[g].init = globals[g].src.init
    BY <2>2 DEF GlobalRight, GlobalSet
  <2>4. r = globals[g].init
    BY <2>1 DEF Range
  <2> QED BY <2>3, <2>4 DEF RefFuncsFolded
<1> QED BY <1>3, <1>4, <1>5

(* So the operand of one that survives is in the segment,                   *)
LEMMA OperandDeclared ==
  ASSUME RefFuncsFolded, Emitted, NEW e \in reach, NEW r \in Range(Code(e)), r.op = "ref.func", NEW f,
         EncodeInstr(r, f).index # None
  PROVE  EncodeInstr(r, f).index \in Range(out.elems)
<1>0. TextInv /\ TextTyped /\ Ready
  BY DEF Emitted, TextInv
<1> DEFINE j == ResolveFunc(r.name) + 1
<1>1. EncodeInstr(r, f).index = IF ResolveFunc(r.name) = None THEN None ELSE MapFunc(ResolveFunc(r.name))
  BY DEF EncodeInstr
<1>2. ResolveFunc(r.name) # None
  BY <1>1
<1>3. j \in FuncsKept /\ (dce => j - 1 \in reach) /\ FuncNames[j] = r.name
  BY <1>0, <1>2, TargetFunc
<1>4. j - 1 = ResolveFunc(r.name)
  <2>1. Found(FuncNames, AllFuncs, r.name, ResolveFunc(r.name)) /\ AllFuncs \in Nat
    BY <1>0, <1>2, FuncLookup
  <2> QED BY <2>1 DEF Found
<1>5. r.name \in DeclaredNames
  <2>1. e \in Entities
    BY <1>0 DEF Ready
  <2>2. r.folded
    BY <1>0, <2>1, CodeFolded
  <2>3. r.name \in FoldedRefs(Code(e))
    BY <2>2 DEF FoldedRefs
  <2> QED BY <2>1, <2>3 DEF DeclaredNames
<1> HIDE DEF j
<1>6. j \in Declared
  <2>1. j \in 1..AllFuncs
    BY <1>3 DEF FuncsKept
  <2> QED BY <1>3, <1>5, <2>1 DEF Declared
<1>7. Selected(out.elems, ElemEntries, Declared)
  BY Parts
<1>8. Rank(Declared, j) + 1 \in 1..Len(out.elems) /\ out.elems[Rank(Declared, j) + 1] = ElemEntries[j]
      /\ DOMAIN out.elems = 1..Len(out.elems)
  BY <1>6, <1>7 DEF Selected
<1>9. ElemEntries[j] = MapFunc(j - 1)
  BY <1>6 DEF ElemEntries, Declared
<1>10. MapFunc(j - 1) \in Range(out.elems)
  BY <1>8, <1>9 DEF Range
<1> QED BY <1>1, <1>2, <1>4, <1>10

(* in bodies and in initializers, and the segment names functions.          *)
LEMMA OperandsDeclared ==
  ASSUME RefFuncsFolded, Emitted
  PROVE  /\ \A i \in DOMAIN out.code : \A k \in DOMAIN out.code[i].body :
               out.code[i].body[k].op = "ref.func" => out.code[i].body[k].index \in Range(out.elems)
         /\ \A i \in DOMAIN out.globals :
               out.globals[i].init.op = "ref.func" => out.globals[i].init.index \in Range(out.elems)
         /\ \A i \in DOMAIN out.elems : out.elems[i] \in 0..(SpaceSize - 1)
<1>0. TextInv /\ TextTyped /\ Ready /\ Resolved(out)
  BY DEF Emitted, TextInv
<1>1. ASSUME NEW i \in DOMAIN out.code, NEW k \in DOMAIN out.code[i].body, out.code[i].body[k].op = "ref.func"
      PROVE  out.code[i].body[k].index \in Range(out.elems)
  <2>1. PICK l \in LiveFuncs :
            /\ DOMAIN out.code[i].body = DOMAIN funcs[l].body
            /\ \A m \in DOMAIN funcs[l].body :
                  /\ out.code[i].body[m] = EncodeInstr(funcs[l].body[m], funcs[l])
                  /\ funcs[l].body[m] \in Range(funcs[l].body)
    BY CodeFrom
  <2> DEFINE e == Len(imports) + l - 1
             r == funcs[l].body[k]
  <2>2. e \in reach /\ r \in Range(Code(e)) /\ out.code[i].body[k] = EncodeInstr(r, funcs[l])
    BY <1>0, <2>1, LiveEntity
  <2>3. out.code[i].body[k].index # None
    BY <1>0 DEF Resolved
  <2> HIDE DEF e, r
  <2>4. r.op = "ref.func"
    BY <1>1, <2>2 DEF EncodeInstr
  <2> QED BY <2>2, <2>3, <2>4, OperandDeclared
<1>2. ASSUME NEW i \in DOMAIN out.globals, out.globals[i].init.op = "ref.func"
      PROVE  out.globals[i].init.index \in Range(out.elems)
  <2>1. PICK g \in GlobalsKept : out.globals[i].init = EncodeInstr(globals[g].init, <<>>)
    BY GlobalFrom
  <2> DEFINE e == AllFuncs + g - 1
             r == globals[g].init
             nil == <<>>
  <2>2. e \in reach /\ Code(e) = <<r>>
    BY <1>0, LiveGlobal
  <2>3. r \in Range(Code(e)) /\ out.globals[i].init = EncodeInstr(r, nil)
    BY <2>1, <2>2 DEF Range
  <2>4. out.globals[i].init.index # None
    BY <1>0 DEF Resolved
  <2> HIDE DEF e, r, nil
  <2>5. r.op = "ref.func"
    BY <1>2, <2>3 DEF EncodeInstr
  <2> QED BY <2>2, <2>3, <2>4, <2>5, OperandDeclared
<1>3. ASSUME NEW i \in DOMAIN out.elems PROVE out.elems[i] \in 0..(SpaceSize - 1)
  <2>1. Selected(out.elems, ElemEntries, Declared)
    BY Parts
  <2>0. i \in 1..Len(out.elems)
    BY <2>1 DEF Selected
  <2>2. PICK j \in Declared : out.elems[i] = ElemEntries[j]
    BY <2>0, <2>1 DEF Selected
  <2>3. ElemEntries[j] = MapFunc(j - 1)
    BY DEF ElemEntries, Declared
  <2>4. j \in FuncsKept
    <3>1. j \in 1..AllFuncs /\ (dce => j - 1 \in reach) /\ AllFuncs \in Nat /\ Len(globals) \in Nat
      BY <1>0, Sizes DEF Declared
    <3>2. j - 1 \in reach
      <4>1. CASE dce
        BY <3>1, <4>1
      <4>2. CASE ~dce
        <5>1. j - 1 \in Entities
          BY <3>1 DEF Entities
        <5> QED BY <1>0, <4>2, <5>1 DEF Ready, Closed
      <4> QED BY <4>1, <4>2
    <3> QED BY <3>1, <3>2 DEF FuncsKept, FuncKept
  <2> QED BY <2>2, <2>3, <2>4, FuncMapped
<1> QED BY <1>1, <1>2, <1>3

(* The type invariant follows from the inductive one.                       *)
LEMMA InvTypes == IInv => TypeOK
<1> SUFFICES ASSUME IInv PROVE TypeOK
  OBVIOUS
<1>1. TextTyped /\ FuncsRight /\ reach \subseteq Entities /\ work \subseteq reach
  BY DEF IInv, TextInv, ReachInv
<1>2. Len(decls) \in Nat /\ Len(sigs) \in Nat /\ DOMAIN funcs = 1..Len(funcs)
  BY <1>1, Sizes
<1>3. ASSUME NEW i \in DOMAIN funcs PROVE funcs[i].type \in 0..(Len(decls) + Len(sigs) - 1)
  <2> DEFINE t == funcs[i].type
  <2>1. t \in Nat
    <3>1. funcs[i] \in FuncSet
      BY <1>1, <1>2 DEF TextTyped
    <3> QED BY <3>1 DEF FuncSet
  <2>2. Denotes(t, funcs[i].src, decls, sigs)
    BY <1>1, <1>2 DEF FuncsRight, FuncRight
  <2> HIDE DEF t
  <2>3. t + 1 \in 1..Len(decls) \/ t - Len(decls) + 1 \in 1..Len(sigs)
    BY <2>2 DEF Denotes
  <2>4. t \in 0..(Len(decls) + Len(sigs) - 1)
    BY <1>2, <2>1, <2>3
  <2> QED BY <2>4 DEF t
<1> QED BY <1>1, <1>3 DEF TypeOK, TextTyped

(* What the invariant says once the binary is written.                      *)
LEMMA WrittenEmitted == IInv /\ Written => Emitted
BY DEF IInv, EmitInv, Emitted

(* ReferencesExact: in the binary every index denotes what the name in the   *)
(* text did, and the operands of ref.func are declared.                     *)
THEOREM ReferencesStayExact ==
  ASSUME RefFuncsFolded
  PROVE  Spec => []ReferencesExact
<1>1. IInv => ReferencesExact
  <2> SUFFICES ASSUME IInv PROVE ReferencesExact
    OBVIOUS
  <2>1. TypeOK
    BY InvTypes
  <2>2. ReferencesKeepTheirName
    <3>1. Written => Emitted
      BY WrittenEmitted
    <3> QED BY <3>1, NamesKept DEF ReferencesKeepTheirName
  <2>3. RefFuncsDeclared
    <3>1. Written => Emitted
      BY WrittenEmitted
    <3> QED BY <3>1, OperandsDeclared DEF RefFuncsDeclared
  <2> QED BY <2>1, <2>2, <2>3 DEF ReferencesExact
<1> QED BY <1>1, AlwaysIInv, PTL

-----------------------------------------------------------------------------
(* Types.  A signature that survives is where its mapped index says.        *)
LEMMA SigMapped ==
  ASSUME Emitted, NEW k \in SigsKept
  PROVE  /\ MapType(Len(decls) + k - 1) \in 0..(Len(decls) + Len(out.types) - 1)
         /\ SigAt(MapType(Len(decls) + k - 1)) = sigs[k]
<1> DEFINE nd == Len(decls)
           K == SigsKept
           n == Len(sigs)
           ts == out.types
           q == Rank(K, k)
           m == nd + q
           t == nd + k - 1
<1>0. TextTyped /\ Remapped
  BY DEF Emitted, TextInv, Ready
<1>1. n \in Nat /\ nd \in Nat /\ K \in SUBSET (1..n)
  BY <1>0, Sizes
<1>2. remap.sig = Renumber(n, K)
  BY <1>0 DEF Remapped
<1>3. Selected(ts, sigs, K)
  BY Parts
<1>4. remap.sig[k] = q
  <2> HIDE DEF K, n
  <2>1. \A i \in K : remap.sig[i] = Rank(K, i)
    BY <1>1, <1>2, Remap
  <2> QED BY <2>1 DEF K
<1>5. q + 1 \in 1..Len(ts) /\ ts[q + 1] = sigs[k] /\ Len(ts) \in Nat
  BY <1>3 DEF Selected
<1>6. q \in Nat
  <2>1. Cardinality(K) \in Nat /\ q \in 0..(Cardinality(K) - 1)
    BY <1>1, RankBounds
  <2> QED BY <2>1
<1> HIDE DEF q
<1>7. k \in Nat /\ k >= 1
  BY <1>1
<1>8. ~(t < nd) /\ t - nd + 1 = k
  BY <1>1, <1>7
<1> HIDE DEF t
<1>9. MapType(t) = m
  BY <1>4, <1>8 DEF MapType
<1>10. m \in 0..(nd + Len(ts) - 1) /\ ~(m < nd) /\ m - nd + 1 = q + 1
  BY <1>1, <1>5, <1>6
<1> HIDE DEF m
<1>11. SigAt(m) = sigs[k]
  BY <1>5, <1>10 DEF SigAt
<1> QED BY <1>9, <1>10, <1>11 DEF t

(* A type index that denotes a type denotes it after mapping.               *)
LEMMA TypeMapped ==
  ASSUME Emitted, NEW t \in Nat, NEW f, Denotes(t, f, decls, sigs),
         f.type = NoName => t - Len(decls) + 1 \in SigsKept
  PROVE  /\ MapType(t) \in 0..(Len(decls) + Len(out.types) - 1)
         /\ SigAt(MapType(t)) = TypeMeant(f)
<1>0. TextTyped /\ Len(decls) \in Nat
  BY Sizes DEF Emitted, TextInv
<1>1. CASE f.type # NoName
  <2>1. t + 1 \in 1..Len(decls) /\ decls[t + 1].name = f.type
    BY <1>1 DEF Denotes
  <2>2. t < Len(decls)
    BY <1>0, <2>1
  <2>3. MapType(t) = t /\ SigAt(t) = f.type
    BY <2>1, <2>2 DEF MapType, SigAt
  <2>4. Len(out.types) \in Nat
    <3>1. Selected(out.types, sigs, SigsKept)
      BY Parts
    <3> QED BY <3>1 DEF Selected
  <2>5. t \in 0..(Len(decls) + Len(out.types) - 1)
    BY <1>0, <2>2, <2>4
  <2> QED BY <1>1, <2>3, <2>5 DEF TypeMeant
<1>2. CASE f.type = NoName
  <2> DEFINE k == t - Len(decls) + 1
  <2>1. k \in SigsKept /\ sigs[k] = f.sig
    BY <1>2 DEF Denotes
  <2>2. k \in Int /\ t = Len(decls) + k - 1
    BY <1>0
  <2> HIDE DEF k
  <2>3. /\ MapType(Len(decls) + k - 1) \in 0..(Len(decls) + Len(out.types) - 1)
        /\ SigAt(MapType(Len(decls) + k - 1)) = sigs[k]
    BY <2>1, SigMapped
  <2> QED BY <1>2, <2>1, <2>2, <2>3 DEF TypeMeant
<1> QED BY <1>1, <1>2

(* The signatures in use survive. *)
UsedAt(idx, k) ==
  \/ \E i \in DOMAIN imports : imports[i].type = idx
  \/ \E i \in DOMAIN tags : tags[i].type = idx
  \/ \E i \in LiveFuncs : funcs[i].type = idx \/ sigs[k] \in BlockSigs(funcs[i].body)

(* A signature in use is kept,                                              *)
LEMMA UsedKept ==
  ASSUME TextTyped, NEW k \in 1..Len(sigs), UsedAt(Len(decls) + k - 1, k)
  PROVE  k \in SigsKept
BY Sizes DEF UsedAt, SigsKept, SigKept

(* so the index of an entry that uses it is right.                          *)
LEMMA TypedEntry ==
  ASSUME Emitted, NEW t \in Nat, NEW f, Denotes(t, f, decls, sigs),
         \A k : UsedAt(t, k)
  PROVE  /\ MapType(t) \in 0..(Len(decls) + Len(out.types) - 1)
         /\ SigAt(MapType(t)) = TypeMeant(f)
<1>0. TextTyped /\ Len(decls) \in Nat
  BY Sizes DEF Emitted, TextInv
<1>1. ASSUME f.type = NoName PROVE t - Len(decls) + 1 \in SigsKept
  <2> DEFINE k == t - Len(decls) + 1
  <2>1. k \in 1..Len(sigs)
    BY <1>1 DEF Denotes
  <2>2. Len(decls) + k - 1 = t
    BY <1>0
  <2> HIDE DEF k
  <2>3. k \in SigsKept
    BY <1>0, <2>1, <2>2, UsedKept
  <2> QED BY <2>3 DEF k
<1> QED BY <1>1, TypeMapped

(* Imports, functions and tags have their types.                            *)
LEMMA EntriesTyped ==
  ASSUME Emitted
  PROVE  \A s \in {out.imports, out.funcs, out.tags} : \A i \in DOMAIN s :
            /\ s[i].type \in 0..(Len(decls) + Len(out.types) - 1)
            /\ SigAt(s[i].type) = TypeMeant(s[i].who)
<1>0. TextInv /\ TextTyped /\ ImportsRight /\ FuncsRight /\ TagsRight
  BY DEF Emitted, TextInv
<1>1. /\ DOMAIN imports = 1..Len(imports) /\ DOMAIN funcs = 1..Len(funcs) /\ DOMAIN tags = 1..Len(tags)
      /\ LiveFuncs \in SUBSET (1..Len(funcs))
  BY <1>0, Sizes
<1>2. /\ out.imports = ImportEntries /\ out.tags = TagEntries
      /\ Selected(out.funcs, FuncEntries, LiveFuncs)
  BY Parts
<1>3. ASSUME NEW i \in DOMAIN out.imports
      PROVE  /\ out.imports[i].type \in 0..(Len(decls) + Len(out.types) - 1)
             /\ SigAt(out.imports[i].type) = TypeMeant(out.imports[i].who)
  <2>1. i \in DOMAIN imports /\ out.imports[i].type = MapType(imports[i].type)
        /\ out.imports[i].who = imports[i].src
    BY <1>2 DEF ImportEntries
  <2> DEFINE t == imports[i].type
             f == imports[i].src
  <2>2. t \in Nat /\ Denotes(t, f, decls, sigs)
    <3>1. imports[i] \in ImportSet /\ ImportRight(imports[i], decls, sigs)
      BY <1>0, <1>1, <2>1 DEF TextTyped, ImportsRight
    <3> QED BY <3>1 DEF ImportSet, ImportRight
  <2>3. \A k : UsedAt(t, k)
    BY <2>1 DEF UsedAt
  <2> HIDE DEF t, f
  <2>4. MapType(t) \in 0..(Len(decls) + Len(out.types) - 1) /\ SigAt(MapType(t)) = TypeMeant(f)
    BY <2>2, <2>3, TypedEntry
  <2> QED BY <2>1, <2>4 DEF t, f
<1>4. ASSUME NEW i \in DOMAIN out.tags
      PROVE  /\ out.tags[i].type \in 0..(Len(decls) + Len(out.types) - 1)
             /\ SigAt(out.tags[i].type) = TypeMeant(out.tags[i].who)
  <2>1. i \in DOMAIN tags /\ out.tags[i].type = MapType(tags[i].type)
        /\ out.tags[i].who = tags[i].src
    BY <1>2 DEF TagEntries
  <2> DEFINE t == tags[i].type
             f == tags[i].src
  <2>2. t \in Nat /\ Denotes(t, f, decls, sigs)
    <3>1. tags[i] \in TagSet /\ TagRight(tags[i], decls, sigs)
      BY <1>0, <1>1, <2>1 DEF TextTyped, TagsRight
    <3> QED BY <3>1 DEF TagSet, TagRight
  <2>3. \A k : UsedAt(t, k)
    BY <2>1 DEF UsedAt
  <2> HIDE DEF t, f
  <2>4. MapType(t) \in 0..(Len(decls) + Len(out.types) - 1) /\ SigAt(MapType(t)) = TypeMeant(f)
    BY <2>2, <2>3, TypedEntry
  <2> QED BY <2>1, <2>4 DEF t, f
<1>5. ASSUME NEW i \in DOMAIN out.funcs
      PROVE  /\ out.funcs[i].type \in 0..(Len(decls) + Len(out.types) - 1)
             /\ SigAt(out.funcs[i].type) = TypeMeant(out.funcs[i].who)
  <2>0. i \in 1..Len(out.funcs)
    BY <1>2 DEF Selected
  <2>1. PICK l \in LiveFuncs : out.funcs[i] = FuncEntries[l]
    BY <1>2, <2>0 DEF Selected
  <2>2. out.funcs[i].type = MapType(funcs[l].type) /\ out.funcs[i].who = funcs[l].src
    BY <1>1, <2>1 DEF FuncEntries
  <2> DEFINE t == funcs[l].type
             f == funcs[l].src
  <2>3. t \in Nat /\ Denotes(t, f, decls, sigs)
    <3>1. funcs[l] \in FuncSet /\ FuncRight(funcs[l], decls, sigs)
      BY <1>0, <1>1 DEF TextTyped, FuncsRight
    <3> QED BY <3>1 DEF FuncSet, FuncRight
  <2>4. \A k : UsedAt(t, k)
    BY DEF UsedAt
  <2> HIDE DEF t, f
  <2>5. MapType(t) \in 0..(Len(decls) + Len(out.types) - 1) /\ SigAt(MapType(t)) = TypeMeant(f)
    BY <2>3, <2>4, TypedEntry
  <2> QED BY <2>2, <2>5 DEF t, f
<1> QED BY <1>3, <1>4, <1>5

(* Blocks have their types.                                                 *)
LEMMA BlocksTyped ==
  ASSUME Emitted, NEW i \in DOMAIN out.code, NEW k \in DOMAIN out.code[i].body,
         out.code[i].body[k].op = "block", NeedsIndex(out.code[i].body[k].want.sig)
  PROVE  /\ out.code[i].body[k].index \in 0..(Len(decls) + Len(out.types) - 1)
         /\ SigAt(out.code[i].body[k].index) = out.code[i].body[k].want.sig
<1>0. TextInv /\ TextTyped /\ BlocksKnown /\ sigs \in Seq(Signatures)
  BY DEF Emitted, TextInv, Ready, TextTyped
<1>1. PICK l \in LiveFuncs :
          /\ DOMAIN out.code[i].body = DOMAIN funcs[l].body
          /\ \A m \in DOMAIN funcs[l].body :
                /\ out.code[i].body[m] = EncodeInstr(funcs[l].body[m], funcs[l])
                /\ funcs[l].body[m] \in Range(funcs[l].body)
  BY CodeFrom
<1> DEFINE r == funcs[l].body[k]
           s == r.sig
           j == SigIndex(sigs, s)
<1>2. out.code[i].body[k] = EncodeInstr(r, funcs[l]) /\ r \in Range(funcs[l].body)
  BY <1>1
<1>3. out.code[i].body[k].op = r.op /\ out.code[i].body[k].want = r
  BY <1>2 DEF EncodeInstr
<1>4. r.op = "block" /\ NeedsIndex(s)
  BY <1>3
<1>5. out.code[i].body[k].index = BlockType(s)
  <2>1. EncodeInstr(r, funcs[l]).index = BlockType(r.sig)
    <3> HIDE DEF r
    <3> QED BY <1>4 DEF EncodeInstr
  <2> QED BY <1>2, <2>1
<1>6. s \in BlockSigs(funcs[l].body)
  BY <1>2, <1>4 DEF BlockSigs, NamesSig
<1>7. l \in 1..Len(funcs) /\ Len(decls) \in Nat /\ DOMAIN sigs = 1..Len(sigs)
  BY <1>0, Sizes
<1>8. s \in Range(sigs)
  BY <1>0, <1>6, <1>7 DEF BlocksKnown
<1>9. Interned(sigs, s) = sigs /\ s \in Signatures
  <2>1. s \in Signatures
    BY <1>0, <1>8 DEF Range
  <2> QED BY <1>8, <2>1 DEF Interned
<1> HIDE DEF r, s
<1>10. j \in Nat /\ j + 1 \in 1..Len(sigs) /\ sigs[j + 1] = s
  <2>1. /\ SigIndex(sigs, s) + 1 \in 1..Len(Interned(sigs, s)) /\ SigIndex(sigs, s) \in Nat
        /\ Interned(sigs, s)[SigIndex(sigs, s) + 1] = s
    <3>1. sigs \in Seq(Signatures) /\ s \in Signatures
      BY <1>0, <1>9
    <3> QED BY ONLY <3>1, Interning
  <2> QED BY <1>9, <2>1
<1> HIDE DEF j
<1> DEFINE p == j + 1
<1>11. p \in 1..Len(sigs) /\ sigs[p] = s /\ Len(decls) + p - 1 = Len(decls) + j
  BY <1>7, <1>10
<1> HIDE DEF p
<1>12. p \in SigsKept
  <2>1. UsedAt(Len(decls) + p - 1, p)
    BY <1>6, <1>11 DEF UsedAt
  <2> QED BY <1>0, <1>11, <2>1, UsedKept
<1>13. /\ MapType(Len(decls) + p - 1) \in 0..(Len(decls) + Len(out.types) - 1)
       /\ SigAt(MapType(Len(decls) + p - 1)) = s
  BY <1>11, <1>12, SigMapped
<1>14. BlockType(s) = MapType(Len(decls) + j)
  BY <1>4 DEF BlockType, j, s
<1>15. BlockType(s) \in 0..(Len(decls) + Len(out.types) - 1) /\ SigAt(BlockType(s)) = s
  BY <1>11, <1>13, <1>14
<1> QED BY <1>3, <1>5, <1>15 DEF s

(* The bodies are in the order of their functions.                          *)
LEMMA CodeMatched ==
  ASSUME Emitted
  PROVE  /\ Len(out.code) = Len(out.funcs)
         /\ \A i \in DOMAIN out.code : out.code[i].who = out.funcs[i].who
<1>0. TextTyped
  BY DEF Emitted, TextInv
<1>1. DOMAIN funcs = 1..Len(funcs) /\ LiveFuncs \in SUBSET (1..Len(funcs)) /\ Len(funcs) \in Nat
  BY <1>0, Sizes
<1>2. Selected(out.funcs, FuncEntries, LiveFuncs) /\ Selected(out.code, CodeEntries, LiveFuncs)
  BY Parts
<1>3. Len(out.code) = Len(out.funcs)
  BY <1>2 DEF Selected
<1>4. ASSUME NEW i \in DOMAIN out.code PROVE out.code[i].who = out.funcs[i].who
  <2>1. i \in 1..Len(out.code)
    BY <1>2 DEF Selected
  <2>2. PICK l \in LiveFuncs : Rank(LiveFuncs, l) = i - 1 /\ out.code[i] = CodeEntries[l]
    BY <1>2, <2>1 DEF Selected
  <2>3. PICK m \in LiveFuncs : Rank(LiveFuncs, m) = i - 1 /\ out.funcs[i] = FuncEntries[m]
    BY <1>2, <1>3, <2>1 DEF Selected
  <2>4. m = l
    BY <1>1, <2>2, <2>3, RankUnique
  <2>5. CodeEntries[l].who = funcs[l].src
    BY <1>1 DEF CodeEntries, EncodeCode
  <2>6. FuncEntries[l].who = funcs[l].src
    BY <1>1 DEF FuncEntries
  <2> QED BY <2>2, <2>3, <2>4, <2>5, <2>6
<1> QED BY <1>3, <1>4

(* TypesKept: a type index in the binary denotes the type of its import,     *)
(* function, tag or block in the text, and every function has its own code.  *)
THEOREM TypesStay == Spec => []TypesKept
<1>1. IInv => TypesKept
  <2> SUFFICES ASSUME IInv, Written
               PROVE  /\ \A s \in {out.imports, out.funcs, out.tags} : \A i \in DOMAIN s :
                            /\ s[i].type \in 0..(Len(decls) + Len(out.types) - 1)
                            /\ SigAt(s[i].type) = TypeMeant(s[i].who)
                      /\ \A i \in DOMAIN out.code : \A k \in DOMAIN out.code[i].body :
                            LET instr == out.code[i].body[k]
                            IN  instr.op = "block" /\ NeedsIndex(instr.want.sig) =>
                                  /\ instr.index \in 0..(Len(decls) + Len(out.types) - 1)
                                  /\ SigAt(instr.index) = instr.want.sig
                      /\ Len(out.code) = Len(out.funcs)
                      /\ \A i \in DOMAIN out.code : out.code[i].who = out.funcs[i].who
    BY DEF TypesKept
  <2>1. Emitted
    BY WrittenEmitted
  <2>2. \A i \in DOMAIN out.code : \A k \in DOMAIN out.code[i].body :
           out.code[i].body[k].op = "block" /\ NeedsIndex(out.code[i].body[k].want.sig) =>
              /\ out.code[i].body[k].index \in 0..(Len(decls) + Len(out.types) - 1)
              /\ SigAt(out.code[i].body[k].index) = out.code[i].body[k].want.sig
    BY <2>1, BlocksTyped
  <2> QED BY <2>1, <2>2, EntriesTyped, CodeMatched
<1> QED BY <1>1, AlwaysIInv, PTL

-----------------------------------------------------------------------------
(* Runs of declared locals.  A run starts where the type changes, and stops  *)
(* where the next one starts.                                               *)
Starts(ts) == {i \in DOMAIN ts : i = 1 \/ ts[i - 1] # ts[i]}
Later(ts, i) == {j \in Starts(ts) : j > i}
Stop(ts, i) == IF \E j \in Starts(ts) : j > i THEN Least(Later(ts, i)) ELSE Len(ts) + 1
RunAt(ts, i) == [n |-> Stop(ts, i) - i, type |-> ts[i]]
RunEntries(ts) == [i \in DOMAIN ts |-> RunAt(ts, i)]

(* The runs are the entries at the starts.                                  *)
LEMMA RunsSelected ==
  ASSUME NEW n \in Nat, NEW ts, DOMAIN ts = 1..n
  PROVE  Selected(Runs(ts), RunEntries(ts), Starts(ts)) /\ Starts(ts) \in SUBSET (1..n)
<1> DEFINE K == {i \in DOMAIN ts : i \in Starts(ts)}
<1>1. Runs(ts) = Kept(RunEntries(ts), K)
  BY Zenon DEF Runs, RunEntries, RunAt, Stop, Later, Starts
<1>2. K = Starts(ts)
  BY DEF Starts
<1>3. Starts(ts) \in SUBSET (1..n)
  BY DEF Starts
<1> HIDE DEF K
<1>4. Selected(Kept(RunEntries(ts), Starts(ts)), RunEntries(ts), Starts(ts))
  BY <1>3, KeptSelected
<1> QED BY <1>1, <1>2, <1>3, <1>4

(* A run: within it the type is that of its start, and no run starts. *)
LEMMA RunUniform ==
  ASSUME NEW n \in Nat, NEW ts, DOMAIN ts = 1..n, Len(ts) = n, NEW i \in Starts(ts)
  PROVE  /\ i \in 1..n /\ Stop(ts, i) \in Nat /\ i < Stop(ts, i) /\ Stop(ts, i) <= n + 1
         /\ \A j \in Starts(ts) : j > i => Stop(ts, i) <= j
         /\ Stop(ts, i) # n + 1 => Stop(ts, i) \in Starts(ts)
         /\ \A j \in 1..n : i <= j /\ j < Stop(ts, i) => ts[j] = ts[i]
<1> DEFINE q == Stop(ts, i)
<1>0. Starts(ts) \subseteq 1..n /\ i \in 1..n
  BY DEF Starts
<1>1. /\ q \in Nat /\ i < q /\ q <= n + 1
      /\ \A j \in Starts(ts) : j > i => q <= j
      /\ q # n + 1 => q \in Starts(ts)
  <2>1. CASE \E j \in Starts(ts) : j > i
    <3> DEFINE T == Later(ts, i)
    <3>1. T \subseteq Nat /\ T # {}
      BY <1>0, <2>1 DEF Later
    <3>2. q = Least(T)
      BY <2>1 DEF Stop
    <3>3. Least(T) \in T /\ \A y \in T : Least(T) <= y
      <4> HIDE DEF T
      <4> QED BY <3>1, LeastNat
    <3> HIDE DEF q
    <3>4. q \in Starts(ts) /\ q > i /\ \A j \in Starts(ts) : j > i => q <= j
      BY <3>2, <3>3 DEF Later
    <3> QED BY <1>0, <3>4
  <2>2. CASE ~ \E j \in Starts(ts) : j > i
    <3>1. q = n + 1
      BY <2>2 DEF Stop
    <3> HIDE DEF q
    <3> QED BY <1>0, <2>2, <3>1
  <2> QED BY <2>1, <2>2
<1> HIDE DEF q
<1>2. ASSUME NEW j \in 1..n, i <= j, j < q PROVE ts[j] = ts[i]
  <2> DEFINE B == {k \in 1..n : i <= k /\ k < q /\ ts[k] # ts[i]}
  <2>1. SUFFICES ASSUME B # {} PROVE FALSE
    BY <1>2
  <2>2. B \subseteq Nat
    OBVIOUS
  <2> DEFINE k == Least(B)
  <2>3. k \in B /\ \A y \in B : k <= y
    <3> HIDE DEF B
    <3> QED BY <2>1, <2>2, LeastNat
  <2> HIDE DEF k
  <2>4. k \in 1..n /\ i <= k /\ k < q /\ ts[k] # ts[i] /\ i # k
    BY <2>3
  <2>5. k - 1 \in 1..n /\ i <= k - 1 /\ k - 1 < q /\ ~(k <= k - 1) /\ k > i
    BY <1>0, <1>1, <2>4
  <2>6. k - 1 \notin B
    BY <2>3, <2>5
  <2>7. ts[k - 1] = ts[i]
    BY <2>5, <2>6
  <2>8. k \in Starts(ts)
    BY <2>4, <2>7 DEF Starts
  <2>9. q <= k
    BY <1>1, <2>5, <2>8
  <2> QED BY <1>1, <2>4, <2>9
<1> QED BY <1>0, <1>1, <1>2 DEF q

(* Where the first k runs end. *)
Begin(ts, k) == CHOOSE i \in Starts(ts) : Rank(Starts(ts), i) = k - 1
Bound(ts, k) == IF k = Cardinality(Starts(ts)) THEN Len(ts) ELSE Begin(ts, k + 1) - 1

(* The k-th run has k - 1 runs before it.                                   *)
LEMMA BeginFacts ==
  ASSUME NEW n \in Nat, NEW ts, DOMAIN ts = 1..n, NEW k \in 1..Cardinality(Starts(ts))
  PROVE  Begin(ts, k) \in Starts(ts) /\ Rank(Starts(ts), Begin(ts, k)) = k - 1
<1> DEFINE K == Starts(ts)
<1>1. K \in SUBSET (1..n)
  BY DEF Starts
<1> HIDE DEF K
<1>2. k \in 1..Cardinality(K)
  BY DEF K
<1>3. \E i \in K : Rank(K, i) = k - 1
  BY <1>1, <1>2, RankOnto
<1> QED BY <1>3, Zenon DEF Begin, K

(* No runs end at zero.                                                     *)
LEMMA BoundFirst ==
  ASSUME NEW n \in Nat, NEW ts, DOMAIN ts = 1..n, Len(ts) = n
  PROVE  Bound(ts, 0) = 0
<1> DEFINE K == Starts(ts)
           c == Cardinality(K)
<1>1. K \in SUBSET (1..n) /\ (n > 0 => 1 \in K)
  BY DEF Starts
<1>2. /\ IsFiniteSet(K) /\ c \in Nat /\ (\A i \in K : Rank(K, i) \in 0..(c - 1))
      /\ \A i, j \in K : i < j => Rank(K, i) < Rank(K, j)
  <2> HIDE DEF K
  <2> QED BY <1>1, RankBounds
<1>3. CASE c = 0
  <2>1. n = 0
    <3>1. \A i \in K : FALSE
      BY <1>2, <1>3
    <3> QED BY <1>1, <3>1
  <2> QED BY <1>3, <2>1 DEF Bound
<1>4. CASE c # 0
  <2> DEFINE b == Begin(ts, 0 + 1)
  <2>1. 0 + 1 \in 1..c
    BY <1>2, <1>4
  <2>2. b \in K /\ Rank(K, b) = (0 + 1) - 1
    <3> DEFINE one == 0 + 1
    <3>1. one \in 1..Cardinality(Starts(ts))
      BY <2>1
    <3> HIDE DEF one
    <3>2. Begin(ts, one) \in Starts(ts) /\ Rank(Starts(ts), Begin(ts, one)) = one - 1
      BY <3>1, BeginFacts
    <3> QED BY <3>2 DEF one
  <2> HIDE DEF b
  <2>3. b = 1
    <3>1. b \in 1..n /\ 1 \in K
      BY <1>1, <2>2
    <3>2. ~(1 < b)
      <4> HIDE DEF K, c
      <4>1. Rank(K, 1) \in Nat
        BY <1>2, <3>1
      <4> QED BY <1>2, <2>2, <3>1, <4>1
    <3> QED BY <3>1, <3>2
  <2>4. Bound(ts, 0) = b - 1
    BY <1>4 DEF Bound, b
  <2> QED BY <2>3, <2>4
<1> QED BY <1>3, <1>4

(* The k-th run is between the ends of k - 1 runs and of k runs.            *)
LEMMA BoundNext ==
  ASSUME NEW n \in Nat, NEW ts, DOMAIN ts = 1..n, Len(ts) = n, NEW k \in 1..Cardinality(Starts(ts))
  PROVE  /\ Bound(ts, k - 1) = Begin(ts, k) - 1
         /\ Bound(ts, k) = Stop(ts, Begin(ts, k)) - 1
<1> DEFINE K == Starts(ts)
           c == Cardinality(K)
           i == Begin(ts, k)
           q == Stop(ts, i)
<1>1. K \in SUBSET (1..n)
  BY DEF Starts
<1>2. /\ c \in Nat /\ (\A a \in K : Rank(K, a) \in 0..(c - 1))
      /\ \A a, b \in K : a < b => Rank(K, a) < Rank(K, b)
  <2> HIDE DEF K
  <2> QED BY <1>1, RankBounds
<1>3. i \in K /\ Rank(K, i) = k - 1
  BY BeginFacts
<1>4. Bound(ts, k - 1) = i - 1
  <2>1. k - 1 # c /\ (k - 1) + 1 = k
    BY <1>2
  <2> QED BY <2>1 DEF Bound
<1>5. /\ i \in 1..n /\ q \in Nat /\ i < q /\ q <= n + 1
      /\ \A j \in K : j > i => q <= j
      /\ q # n + 1 => q \in K
  <2>1. i \in Starts(ts)
    BY <1>3
  <2> HIDE DEF i
  <2> QED BY <2>1, RunUniform
<1>6. Bound(ts, k) = q - 1
  <2>1. CASE k = c
    <3>1. Bound(ts, k) = n
      BY <2>1 DEF Bound
    <3>2. ASSUME q \in K PROVE FALSE
      <4> HIDE DEF K, c, i, q
      <4>1. Rank(K, i) < Rank(K, q) /\ Rank(K, q) \in 0..(c - 1)
        BY <1>2, <1>3, <1>5, <3>2
      <4> QED BY <1>2, <1>3, <2>1, <4>1
    <3>3. q = n + 1
      BY <1>5, <3>2
    <3> HIDE DEF q
    <3> QED BY <3>1, <3>3
  <2>2. CASE k # c
    <3> DEFINE k1 == k + 1
               b == Begin(ts, k1)
    <3>1. k1 \in 1..Cardinality(Starts(ts)) /\ k1 - 1 = k
      BY <1>2, <2>2
    <3>2. b \in K /\ Rank(K, b) = k
      <4> HIDE DEF k1
      <4> QED BY <3>1, BeginFacts
    <3>3. Bound(ts, k) = b - 1
      BY <2>2 DEF Bound
    <3> HIDE DEF b, q, i, K, c
    <3>4. b \in 1..n /\ k \in Nat
      BY <1>1, <3>2
    <3>5. i < b
      <4>1. ~(b < i) /\ b # i
        BY <1>2, <1>3, <1>5, <3>2, <3>4
      <4> QED BY <1>5, <3>4, <4>1
    <3>6. q <= b
      BY <1>5, <3>2, <3>5
    <3>7. q \in K
      BY <1>5, <3>4, <3>6
    <3>8. ~(q < b)
      <4> SUFFICES ASSUME q < b PROVE FALSE
        OBVIOUS
      <4>1. Rank(K, i) < Rank(K, q) /\ Rank(K, q) < Rank(K, b) /\ Rank(K, q) \in 0..(c - 1)
        BY <1>2, <1>3, <1>5, <3>2, <3>7
      <4> QED BY <1>2, <1>3, <3>2, <3>4, <4>1
    <3> QED BY <1>5, <3>3, <3>4, <3>6, <3>8
  <2> QED BY <2>1, <2>2
<1> QED BY <1>4, <1>6

-----------------------------------------------------------------------------
(* Spelled out, the runs are the types again.                                *)
Prefix(ts, b) == [j \in 1..b |-> ts[j]]
RunOf(r) == [j \in 1..r.n |-> r.type]
ExpandStep(at, runs, k) == IF k = 0 THEN <<>> ELSE at[k - 1] \o [j \in 1..runs[k].n |-> runs[k].type]
ExpandWalk(at, runs) == at = [k \in 0..Len(runs) |-> ExpandStep(at, runs, k)]

(* So one more run spells out the types up to its end.                      *)
LEMMA PrefixStep ==
  ASSUME NEW n \in Nat, NEW ts, DOMAIN ts = 1..n, Len(ts) = n, NEW k \in 1..Cardinality(Starts(ts))
  PROVE  Prefix(ts, Bound(ts, k)) = Prefix(ts, Bound(ts, k - 1)) \o RunOf(RunAt(ts, Begin(ts, k)))
<1> DEFINE i == Begin(ts, k)
           q == Stop(ts, i)
           b == Bound(ts, k - 1)
           e == Bound(ts, k)
           r == RunOf(RunAt(ts, i))
           S == {ts[j] : j \in 1..n}
<1>1. b = i - 1 /\ e = q - 1
  BY BoundNext
<1>2. /\ i \in 1..n /\ q \in Nat /\ i < q /\ q <= n + 1
      /\ \A j \in 1..n : i <= j /\ j < q => ts[j] = ts[i]
  <2>1. i \in Starts(ts)
    BY BeginFacts
  <2> HIDE DEF i
  <2> QED BY <2>1, RunUniform
<1>3. r = [j \in 1..(q - i) |-> ts[i]]
  <2> DEFINE a == RunAt(ts, i)
  <2>1. a.n = q - i /\ a.type = ts[i]
    BY DEF RunAt
  <2> HIDE DEF a
  <2>2. RunOf(a) = [j \in 1..(q - i) |-> ts[i]]
    BY <2>1 DEF RunOf
  <2> QED BY <2>2 DEF a
<1> HIDE DEF i, q, b, e, r
<1>4. q - i \in Nat /\ b \in Nat /\ e \in Nat /\ b <= n /\ e <= n /\ e = b + (q - i) /\ i = b + 1
  BY <1>1, <1>2
<1> DEFINE d == q - i
           x == ts[i]
<1>5. d \in Nat /\ r = [j \in 1..d |-> x] /\ e = b + d /\ x \in S
  BY <1>2, <1>3, <1>4
<1>6. \A j \in 1..d : b + j \in 1..n /\ ts[b + j] = x
  BY <1>1, <1>2, <1>4
<1> HIDE DEF d, x
<1>7. r \in Seq(S) /\ Len(r) = d /\ \A j \in 1..d : r[j] = x
  <2> HIDE DEF S
  <2> QED BY <1>5
<1>8. Prefix(ts, b) \in Seq(S) /\ Len(Prefix(ts, b)) = b /\ \A j \in 1..b : Prefix(ts, b)[j] = ts[j]
  <2>1. \A j \in 1..b : ts[j] \in S
    BY <1>4
  <2> HIDE DEF S
  <2> QED BY <1>4, <2>1 DEF Prefix
<1> DEFINE u == Prefix(ts, b)
           v == u \o r
<1>9. /\ v \in Seq(S) /\ Len(v) = b + d
      /\ \A j \in 1..b : v[j] = u[j]
      /\ \A j \in 1..d : v[b + j] = r[j]
  <2>1. u \in Seq(S) /\ Len(u) = b /\ r \in Seq(S) /\ Len(r) = d
    BY <1>7, <1>8
  <2> HIDE DEF u, S
  <2> QED BY ONLY <2>1
<1>10. \A j \in 1..e : v[j] = ts[j]
  <2> SUFFICES ASSUME NEW j \in 1..e PROVE v[j] = ts[j]
    OBVIOUS
  <2>1. CASE j \in 1..b
    BY <1>8, <1>9, <2>1
  <2>2. CASE j \notin 1..b
    <3> DEFINE m == j - b
    <3>1. m \in 1..d /\ j = b + m
      BY <1>4, <1>5, <2>2
    <3> HIDE DEF m, v
    <3> QED BY <1>6, <1>7, <1>9, <3>1
  <2> QED BY <2>1, <2>2
<1>11. DOMAIN v = 1..e
  <2> HIDE DEF v, S
  <2> QED BY <1>5, <1>9
<1>12. v = [j \in 1..e |-> v[j]]
  <2>1. v \in Seq(S)
    BY <1>9
  <2>2. v = [j \in DOMAIN v |-> v[j]]
    <3> HIDE DEF v, S
    <3> QED BY <2>1
  <2> QED BY <1>11, <2>2, Zenon
<1> HIDE DEF v
<1>13. [j \in 1..e |-> v[j]] = [j \in 1..e |-> ts[j]]
  BY <1>10
<1>14. v = Prefix(ts, e)
  BY <1>12, <1>13, Zenon DEF Prefix
<1> QED BY <1>14 DEF v, u, b, e, r, i

(* All runs together spell out the types.                                   *)
LEMMA RunsExpand ==
  ASSUME NEW n \in Nat, NEW ts, ts = [j \in 1..n |-> ts[j]]
  PROVE  Expanded(Runs(ts)) = ts
<1> DEFINE K == Starts(ts)
           c == Cardinality(K)
           rs == Runs(ts)
           at == CHOOSE z : ExpandWalk(z, rs)
           w == [k \in 0..c |-> Prefix(ts, Bound(ts, k))]
<1>0. DOMAIN ts = 1..n /\ Len(ts) = n
  <2> DEFINE S == {ts[j] : j \in 1..n}
  <2>1. ts \in Seq(S)
    OBVIOUS
  <2> HIDE DEF S
  <2>2. DOMAIN ts = 1..n
    OBVIOUS
  <2> QED BY <2>1, <2>2
<1>1. Selected(rs, RunEntries(ts), K) /\ K \in SUBSET (1..n)
  BY <1>0, RunsSelected
<1>2. Len(rs) = c /\ c \in Nat
  BY <1>1 DEF Selected
<1>3. ASSUME NEW k \in 1..c PROVE rs[k] = RunAt(ts, Begin(ts, k))
  <2>1. Begin(ts, k) \in K /\ Rank(K, Begin(ts, k)) = k - 1
    BY <1>0, BeginFacts
  <2> DEFINE i == Begin(ts, k)
  <2> HIDE DEF i
  <2>2. i \in K /\ Rank(K, i) = k - 1
    BY <2>1 DEF i
  <2> HIDE DEF K, rs, c
  <2>3. rs[Rank(K, i) + 1] = RunEntries(ts)[i]
    BY <1>1, <2>2, Zenon DEF Selected
  <2>5. Rank(K, i) + 1 = k
    <3>1. k \in Int
      BY <1>2
    <3> DEFINE z == Rank(K, i)
    <3>2. z = k - 1
      BY <2>2
    <3> HIDE DEF z
    <3>3. z + 1 = k
      BY <3>1, <3>2
    <3> QED BY <3>3 DEF z
  <2>4. RunEntries(ts)[i] = RunAt(ts, i)
    BY <1>0, <1>1, <2>2 DEF RunEntries
  <2> QED BY <2>3, <2>4, <2>5 DEF i
<1>4. ASSUME NEW k \in 1..c
      PROVE  Prefix(ts, Bound(ts, k)) = Prefix(ts, Bound(ts, k - 1)) \o [j \in 1..rs[k].n |-> rs[k].type]
  <2>1. Prefix(ts, Bound(ts, k)) = Prefix(ts, Bound(ts, k - 1)) \o RunOf(RunAt(ts, Begin(ts, k)))
    BY <1>0, PrefixStep
  <2>2. RunOf(rs[k]) = [j \in 1..rs[k].n |-> rs[k].type]
    BY Zenon DEF RunOf
  <2> HIDE DEF rs, c
  <2> QED BY <1>3, <2>1, <2>2
<1>5. Prefix(ts, Bound(ts, 0)) = <<>>
  <2>1. Bound(ts, 0) = 0
    BY <1>0, BoundFirst
  <2> QED BY <2>1 DEF Prefix
<1>6. Expanded(rs) = at[Len(rs)]
  BY Zenon DEF Expanded, ExpandWalk, ExpandStep
<1> HIDE DEF rs, c
<1>7. ExpandWalk(at, rs)
  <2>1. ASSUME NEW k \in 0..c PROVE w[k] = ExpandStep(w, rs, k)
    <3>1. CASE k = 0
      BY <1>5, <3>1 DEF ExpandStep
    <3>2. CASE k # 0
      <4>1. k \in 1..c /\ k - 1 \in 0..c
        BY <1>2, <3>2
      <4>2. w[k] = Prefix(ts, Bound(ts, k)) /\ w[k - 1] = Prefix(ts, Bound(ts, k - 1))
        BY <4>1
      <4> HIDE DEF w
      <4> QED BY <1>4, <3>2, <4>1, <4>2, Zenon DEF ExpandStep
    <3> QED BY <3>1, <3>2
  <2>2. w = [k \in 0..c |-> w[k]]
    OBVIOUS
  <2> HIDE DEF w
  <2>3. [k \in 0..c |-> w[k]] = [k \in 0..c |-> ExpandStep(w, rs, k)]
    BY <2>1
  <2>4. ExpandWalk(w, rs)
    BY <1>2, <2>2, <2>3, Zenon DEF ExpandWalk
  <2> QED BY <2>4, Zenon
<1> HIDE DEF at, w
<1>8. \A k \in 0..c : at[k] = ExpandStep(at, rs, k)
  BY <1>2, <1>7, Zenon DEF ExpandWalk
<1>9. at[c] = Prefix(ts, Bound(ts, c))
  <2> DEFINE B == {k \in 0..c : at[k] # Prefix(ts, Bound(ts, k))}
  <2>0. c \in 0..c /\ (c \notin B => at[c] = Prefix(ts, Bound(ts, c)))
    <3>1. c \in 0..c
      BY <1>2
    <3> QED BY <3>1, Zenon DEF B
  <2>1. SUFFICES ASSUME B # {} PROVE FALSE
    <3> HIDE DEF B
    <3> QED BY <2>0
  <2>2. B \subseteq Nat
    OBVIOUS
  <2> DEFINE k == Least(B)
  <2>3. k \in B /\ \A y \in B : k <= y
    <3> HIDE DEF B
    <3> QED BY <2>1, <2>2, LeastNat
  <2> HIDE DEF k
  <2>4. k \in 0..c /\ at[k] # Prefix(ts, Bound(ts, k))
    BY <2>3
  <2>5. CASE k = 0
    <3>1. at[k] = <<>>
      BY <1>8, <2>4, <2>5 DEF ExpandStep
    <3> QED BY <1>5, <2>4, <2>5, <3>1
  <2>6. CASE k # 0
    <3>1. k \in 1..c /\ k - 1 \in 0..c /\ ~(k <= k - 1)
      BY <1>2, <2>4, <2>6
    <3>2. at[k - 1] = Prefix(ts, Bound(ts, k - 1))
      <4>1. k - 1 \notin B
        BY <2>3, <3>1
      <4> QED BY <3>1, <4>1
    <3>3. at[k] = at[k - 1] \o [j \in 1..rs[k].n |-> rs[k].type]
      BY <1>8, <2>4, <2>6, Zenon DEF ExpandStep
    <3> QED BY <1>4, <2>4, <3>1, <3>2, <3>3
  <2> QED BY <2>5, <2>6
<1>10. Bound(ts, c) = n
  BY <1>0 DEF Bound, c
<1>11. Prefix(ts, n) = ts
  BY Zenon DEF Prefix
<1> QED BY <1>2, <1>6, <1>9, <1>10, <1>11 DEF rs

-----------------------------------------------------------------------------
(* Locals.  A function that names its type repeats the parameters of it.     *)
RepeatsParameters ==
  \A f \in Fields : f.kind = "func" /\ f.type # NoName =>
     \A t \in Types : t.name = f.type => t.params = Len(f.params)

(* With that, no entries are added for parameters that are not repeated.     *)
LEMMA NothingAdded ==
  ASSUME RepeatsParameters, TextInv, NEW l \in 1..Len(funcs)
  PROVE  /\ funcs[l].src \in Fields /\ funcs[l].src.kind = "func"
         /\ Extra(funcs[l].src, decls) = 0 /\ ParamCount(funcs[l].src) = Len(funcs[l].src.params)
<1> DEFINE e == funcs[l]
           f == e.src
<1>1. /\ f \in Fields /\ f.kind = "func" /\ Denotes(e.type, f, decls, sigs) /\ decls \in Seq(Types)
  <2>1. e \in FuncSet /\ FuncRight(e, decls, sigs) /\ decls \in Seq(Types)
    BY DEF TextInv, TextTyped, FuncsRight
  <2> HIDE DEF e
  <2> QED BY <2>1 DEF FuncSet, FuncRight
<1> DEFINE t == e.type
<1>2. Denotes(t, f, decls, sigs)
  BY <1>1
<1> HIDE DEF t, f
<1>3. CASE f.type = NoName
  <2>1. Extra(f, decls) = 0 /\ ParamCount(f) = f.sig.params
    BY <1>3 DEF Extra, ParamCount
  <2>2. f.sig.params = Len(f.params)
    BY <1>1, <1>3, FieldFacts DEF f
  <2> QED BY <1>1, <2>1, <2>2 DEF f
<1>4. CASE f.type # NoName
  <2>1. t + 1 \in 1..Len(decls) /\ decls[t + 1].name = f.type
    BY <1>2, <1>4 DEF Denotes
  <2>2. ASSUME NEW d \in Types, d.name = f.type PROVE d.params = Len(f.params)
    BY <1>1, <1>4, <2>2 DEF RepeatsParameters, f
  <2>3. ParamCount(f) = Len(f.params)
    <3> DEFINE d == CHOOSE x \in Range(decls) : x.name = f.type
    <3>1. decls[t + 1] \in Range(decls)
      BY <1>1, <2>1 DEF Range
    <3>2. d \in Range(decls) /\ d.name = f.type
      BY <2>1, <3>1, Zenon
    <3>3. ParamCount(f) = d.params
      BY <1>4 DEF ParamCount
    <3> HIDE DEF d
    <3>4. d \in Types
      BY <1>1, <3>2 DEF Range
    <3> QED BY <2>2, <3>2, <3>3, <3>4
  <2>4. Extra(f, decls) = 0
    <3>1. CASE f.params = <<>>
      <4> DEFINE ns == [i \in DOMAIN decls |-> decls[i].name]
                 x == f.type
                 k == IndexOf(ns, x)
      <4>1. Extra(f, decls) = decls[k + 1].params
        BY <1>4, <3>1 DEF Extra
      <4>2. Len(decls) \in Nat /\ DOMAIN ns = 1..Len(decls) /\ \A i \in 1..Len(decls) : ns[i] = decls[i].name
        BY <1>1
      <4> HIDE DEF ns
      <4>3. ~Missing(ns, Len(decls), x)
        BY <2>1, <4>2 DEF Missing
      <4>4. Found(ns, Len(decls), x, k)
        <5> HIDE DEF x
        <5> QED BY <4>2, <4>3, Lookup
      <4> DEFINE m == k + 1
      <4>5. m \in 1..Len(decls) /\ ns[m] = f.type
        BY <4>4 DEF Found
      <4> HIDE DEF m, k
      <4>6. decls[m] \in Types /\ decls[m].name = f.type
        BY <1>1, <4>2, <4>5
      <4>7. decls[m].params = Len(f.params)
        BY <2>2, <4>6
      <4>8. Len(f.params) = 0
        BY <3>1
      <4> QED BY <4>1, <4>7, <4>8 DEF m
    <3>2. CASE f.params # <<>>
      BY <3>2 DEF Extra
    <3> QED BY <3>1, <3>2
  <2> QED BY <1>1, <2>3, <2>4 DEF f
<1> QED BY <1>3, <1>4

(* The locals of a function: its parameters, then its declared locals.      *)
Locals(e, f) ==
  /\ f \in Fields /\ f.params \in Seq(Variables) /\ f.locals \in Seq(Variables)
  /\ e.src = f /\ e.nparams = Len(f.params) /\ ParamCount(f) = Len(f.params)
  /\ e.locals \in Seq(LocalSet) /\ Len(e.locals) = Len(f.params) + Len(f.locals)
  /\ \A i \in 1..Len(f.params) : e.locals[i] = f.params[i]
  /\ \A i \in 1..Len(f.locals) : e.locals[Len(f.params) + i] = f.locals[i]

(* The locals of every function are laid out so.                            *)
LEMMA LocalsLaidOut ==
  ASSUME RepeatsParameters, TextInv, NEW l \in 1..Len(funcs)
  PROVE  Locals(funcs[l], funcs[l].src)
<1> DEFINE e == funcs[l]
           f == e.src
<1>1. f \in Fields /\ f.kind = "func" /\ Extra(f, decls) = 0 /\ ParamCount(f) = Len(f.params)
  BY NothingAdded
<1>2. e.locals = LocalsOf(f, decls) /\ e.nparams = Len(f.params) + Extra(f, decls)
  <2>1. FuncRight(e, decls, sigs)
    BY DEF TextInv, FuncsRight
  <2> HIDE DEF e
  <2> QED BY <2>1 DEF FuncRight
<1>3. f.params \in Seq(Variables) /\ f.locals \in Seq(Variables)
  <2> HIDE DEF f
  <2> QED BY <1>1, FieldFacts
<1> DEFINE n == Placeholders(f)
<1>4. FuncLocals(f) = e.locals /\ n = 0
  BY <1>1, <1>2, SameLocals
<1> HIDE DEF e, f, n
<1>5. Placeholders(f) \in Nat
  BY <1>4 DEF n
<1>6. /\ FuncLocals(f) \in Seq(LocalSet)
      /\ Len(FuncLocals(f)) = Len(f.params) + Len(f.locals) + Placeholders(f)
      /\ \A i \in 1..Len(f.params) : FuncLocals(f)[i] = f.params[i]
      /\ \A i \in 1..Len(f.locals) : FuncLocals(f)[Len(f.params) + i] = f.locals[i]
  BY <1>3, <1>5, LocalsSeq
<1>7. Len(f.params) \in Nat /\ Len(f.locals) \in Nat
  BY <1>3
<1>8. Len(e.locals) = Len(f.params) + Len(f.locals) /\ e.nparams = Len(f.params)
  BY <1>1, <1>2, <1>4, <1>6, <1>7 DEF n
<1>9. e.src = f
  BY DEF f
<1>10. Locals(e, f)
  BY <1>1, <1>3, <1>4, <1>6, <1>8, <1>9 DEF Locals
<1> QED BY <1>10 DEF e, f

(* The types of the declared locals, and the index of a name.               *)
LEMMA DeclaredTypes ==
  ASSUME NEW e, NEW f, Locals(e, f)
  PROVE  LocalTypes(e) = [i \in 1..Len(f.locals) |-> f.locals[i].type] /\ Len(f.locals) \in Nat
<1>1. /\ f.params \in Seq(Variables) /\ f.locals \in Seq(Variables) /\ e.nparams = Len(f.params)
      /\ Len(e.locals) = Len(f.params) + Len(f.locals)
      /\ \A i \in 1..Len(f.locals) : e.locals[Len(f.params) + i] = f.locals[i]
  BY DEF Locals
<1>2. Len(f.params) \in Nat /\ Len(f.locals) \in Nat
  BY <1>1
<1> DEFINE n == Len(e.locals) - e.nparams
<1>3. n = Len(f.locals)
  BY <1>1, <1>2
<1>4. LocalTypes(e) = [i \in 1..n |-> e.locals[e.nparams + i].type]
  BY DEF LocalTypes
<1> HIDE DEF n
<1>5. \A i \in 1..n : e.locals[e.nparams + i].type = f.locals[i].type
  BY <1>1, <1>3
<1>6. [i \in 1..n |-> e.locals[e.nparams + i].type] = [i \in 1..n |-> f.locals[i].type]
  BY <1>5, Zenon
<1> QED BY <1>2, <1>3, <1>4, <1>6

NameIn(p, l, np, at, x) ==
  \/ at \in DOMAIN p /\ p[at].name = x
  \/ at - np \in DOMAIN l /\ l[at - np].name = x
AtName(f, at, x) == NameIn(f.params, f.locals, ParamCount(f), at, x)

(* The domain of a sequence.                                                *)
LEMMA SeqSize ==
  ASSUME NEW S, NEW s \in Seq(S)
  PROVE  Len(s) \in Nat /\ DOMAIN s = 1..Len(s)
OBVIOUS

(* A name that is found is at its place.                                    *)
LEMMA NameFound ==
  ASSUME NEW e, NEW f, Locals(e, f), NEW x, ResolveLocal(e, x) # None
  PROVE  AtName(f, ResolveLocal(e, x) + 1, x)
<1> DEFINE s == e.locals
           p == f.params
           l == f.locals
           ns == [i \in DOMAIN s |-> s[i].name]
           j == IndexOf(ns, x)
           at == j + 1
<1>1. p \in Seq(Variables) /\ l \in Seq(Variables) /\ s \in Seq(LocalSet)
  BY DEF Locals
<1>2. /\ Len(s) = Len(p) + Len(l) /\ ParamCount(f) = Len(p)
      /\ \A i \in 1..Len(p) : s[i] = p[i]
      /\ \A i \in 1..Len(l) : s[Len(p) + i] = l[i]
  BY DEF Locals
<1>3. ResolveLocal(e, x) = j
  BY DEF ResolveLocal
<1>4. NameIn(p, l, Len(p), at, x) => AtName(f, at, x)
  BY <1>2, Zenon DEF AtName
<1> HIDE DEF s, p, l
<1>5. /\ Len(s) \in Nat /\ Len(p) \in Nat /\ Len(l) \in Nat
      /\ DOMAIN s = 1..Len(s) /\ DOMAIN p = 1..Len(p) /\ DOMAIN l = 1..Len(l)
  BY <1>1, SeqSize
<1>6. DOMAIN ns = 1..Len(s) /\ \A i \in 1..Len(s) : ns[i] = s[i].name
  BY <1>5, Zenon
<1> HIDE DEF ns
<1>7. Found(ns, Len(s), x, j)
  BY <1>3, <1>5, <1>6, Lookup
<1>8. at \in 1..Len(s) /\ s[at].name = x
  BY <1>6, <1>7 DEF Found
<1> HIDE DEF at
<1>9. NameIn(p, l, Len(p), at, x)
  <2>1. CASE at \in 1..Len(p)
    <3>1. s[at] = p[at] /\ at \in DOMAIN p
      BY <1>2, <1>5, <2>1
    <3> QED BY <1>8, <3>1 DEF NameIn
  <2>2. CASE at \notin 1..Len(p)
    <3> DEFINE m == at - Len(p)
    <3>1. m \in 1..Len(l) /\ at = Len(p) + m
      BY <1>2, <1>5, <1>8, <2>2
    <3> HIDE DEF m
    <3>2. l[m].name = x
      BY <1>2, <1>8, <3>1
    <3>3. at - Len(p) = m
      BY DEF m
    <3> QED BY <1>5, <3>1, <3>2, <3>3 DEF NameIn
  <2> QED BY <2>1, <2>2
<1> QED BY <1>3, <1>4, <1>9 DEF at

(* One function of the code section.                                        *)
LocalsKept(c) ==
  /\ Expanded(c.locals) = [j \in DOMAIN c.who.locals |-> c.who.locals[j].type]
  /\ \A k \in DOMAIN c.body : c.body[k].op = "local" => AtName(c.who, c.body[k].index + 1, c.body[k].want.name)

(* The locals of every function of the code section are kept.               *)
LEMMA CodeLocals ==
  ASSUME RepeatsParameters, Emitted, NEW i \in DOMAIN out.code
  PROVE  LocalsKept(out.code[i])
<1>0. TextInv /\ TextTyped /\ Resolved(out)
  BY DEF Emitted, TextInv
<1>1. PICK l \in LiveFuncs :
          /\ out.code[i] = EncodeCode(funcs[l])
          /\ DOMAIN out.code[i].body = DOMAIN funcs[l].body
          /\ \A k \in DOMAIN funcs[l].body : out.code[i].body[k] = EncodeInstr(funcs[l].body[k], funcs[l])
  BY CodeFrom
<1> DEFINE e == funcs[l]
           f == e.src
           c == out.code[i]
<1>2. Locals(e, f)
  <2>1. l \in 1..Len(funcs)
    BY <1>0, Sizes
  <2> QED BY <1>0, <2>1, LocalsLaidOut
<1>3. c.who = f /\ c.locals = Runs(LocalTypes(e))
  BY <1>1 DEF EncodeCode
<1>4. DOMAIN c.body = DOMAIN e.body /\ \A k \in DOMAIN e.body : c.body[k] = EncodeInstr(e.body[k], e)
  BY <1>1
<1>5. \A k \in DOMAIN c.body : c.body[k].index # None
  BY <1>0 DEF Resolved
<1> HIDE DEF e, f, c
<1>6. Expanded(c.locals) = [j \in DOMAIN f.locals |-> f.locals[j].type]
  <2> DEFINE ts == LocalTypes(e)
             n == Len(f.locals)
  <2>1. ts = [j \in 1..n |-> f.locals[j].type] /\ n \in Nat
    BY <1>2, DeclaredTypes
  <2>2. DOMAIN f.locals = 1..n
    BY <1>2 DEF Locals
  <2> HIDE DEF ts, n
  <2>3. ts = [j \in 1..n |-> ts[j]]
    BY <2>1
  <2>4. Expanded(Runs(ts)) = ts
    BY <2>1, <2>3, RunsExpand
  <2> QED BY <1>3, <2>1, <2>2, <2>4 DEF ts
<1>7. ASSUME NEW k \in DOMAIN c.body, c.body[k].op = "local"
      PROVE  AtName(f, c.body[k].index + 1, c.body[k].want.name)
  <2> DEFINE r == e.body[k]
             x == r.name
  <2>1. c.body[k] = EncodeInstr(r, e) /\ c.body[k].index # None
    BY <1>4, <1>5
  <2> HIDE DEF r
  <2>2. c.body[k].op = r.op /\ c.body[k].want = r
    BY <2>1 DEF EncodeInstr
  <2>3. r.op = "local"
    BY <1>7, <2>2
  <2>4. EncodeInstr(r, e).index = ResolveLocal(e, r.name)
    BY <2>3 DEF EncodeInstr
  <2>5. c.body[k].index = ResolveLocal(e, x) /\ ResolveLocal(e, x) # None /\ c.body[k].want.name = x
    BY <2>1, <2>2, <2>4
  <2> HIDE DEF x
  <2>6. AtName(f, ResolveLocal(e, x) + 1, x)
    BY <1>2, <2>5, NameFound
  <2> QED BY <2>5, <2>6
<1>8. LocalsKept(c)
  BY <1>3, <1>6, <1>7 DEF LocalsKept
<1> QED BY <1>8 DEF c

(* LocalsKeepTheirPlace: the runs of a function are the types of its         *)
(* declared locals, and a name is at the index its instruction has.         *)
THEOREM LocalsStay ==
  ASSUME RepeatsParameters
  PROVE  Spec => []LocalsKeepTheirPlace
<1>1. IInv => LocalsKeepTheirPlace
  <2> SUFFICES ASSUME IInv PROVE LocalsKeepTheirPlace
    OBVIOUS
  <2>1. ASSUME Written, NEW i \in DOMAIN out.code PROVE LocalsKept(out.code[i])
    BY <2>1, WrittenEmitted, CodeLocals
  <2> QED BY <2>1 DEF LocalsKeepTheirPlace, LocalsKept, AtName, NameIn
<1> QED BY <1>1, AlwaysIInv, PTL
=============================================================================
