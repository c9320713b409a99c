---------------------------- MODULE Alloc_proof ----------------------------
(***************************************************************************)
(* The heap of alloc.c is sound between any two calls, for every heap, page  *)
(* and request size that cannot wrap the 32-bit sum of heap_extend (NoWrap). *)
(*                                                                         *)
(* The invariant speaks of what the code never holds in one place: a        *)
(* partition S of the cells from the start of the heap to the break into    *)
(* blocks (start -> size), the blocks U of it that are in use, and those F   *)
(* that are on the list.  Mid(h, S, U, F) is the heap between two steps of   *)
(* an operation, when a free block may be off the list or beside another;    *)
(* Sound is the heap between two calls, when neither may be; LiveOk says     *)
(* that the program's blocks are those in use and hold its data.            *)
(*                                                                         *)
(* The argument goes bottom up: writes of a cell, the list as a chain of     *)
(* links in both directions, tags, then the four ways a partition changes    *)
(* (nothing, merged, divided, extended), each leaving alone the cells of     *)
(* every block in use that it is not about; from these free, malloc and      *)
(* realloc.  At the end the recursive walks of the model, over the headers   *)
(* and over the list, are shown to visit exactly S and F, by induction as    *)
(* the absence of a least counterexample.                                   *)
(***************************************************************************)
EXTENDS Alloc, FiniteSetTheorems, SequenceTheorems, WellFoundedInduction, NaturalsInduction, TLAPS

-----------------------------------------------------------------------------
(* Numbers, and partitions of the heap into blocks. *)

(* The cells of the largest memory there can be. *)
Top == Page * MaxPages

(* S divides the cells from Start to hi into blocks: start -> size. *)
Partition(S, hi) ==
    /\ hi \in Nat /\ Start <= hi
    /\ Start \in DOMAIN S \/ Start = hi
    /\ \A b \in DOMAIN S :
          /\ b \in Nat /\ Start <= b
          /\ S[b] \in Nat /\ Hdr + MinPayload + Ftr <= S[b]
          /\ b + S[b] <= hi
          /\ b + S[b] \in DOMAIN S \/ b + S[b] = hi
    /\ \A b, c \in DOMAIN S : b < c => b + S[b] <= c
    /\ \A c \in DOMAIN S : Start < c => \E b \in DOMAIN S : b + S[b] = c
    /\ Start < hi => \E b \in DOMAIN S : b + S[b] = hi

(* Rounding up to whole pages gives enough. *)
LEMMA RoundsUp ==
  ASSUME NEW x \in Nat, NEW P \in Nat \ {0}
  PROVE  /\ (x + P - 1) \div P \in Nat
         /\ x <= ((x + P - 1) \div P) * P
<1> DEFINE a == x + P - 1
<1>1. a \in Int
  OBVIOUS
<1>2. a = P * (a \div P) + (a % P) /\ a % P \in 0..(P - 1) /\ (a \div P) \in Int
  OBVIOUS
<1> QED BY <1>2

(* Cells rounds bytes up to whole cells. *)
LEMMA CellsFacts ==
  ASSUME NEW n \in Nat
  PROVE  Cells(n) \in Nat /\ n <= 8 * Cells(n) /\ 8 * Cells(n) <= n + 7
  BY DEF Cells

(* A product of naturals grows with its factors. *)
LEMMA ProductsGrow ==
  ASSUME NEW a \in Nat, NEW b \in Nat, NEW c \in Nat, b <= c
  PROVE  a * b \in Nat /\ a * b <= a * c
<1>1. a * (c - b) \in Nat
  OBVIOUS
<1>2. a * c = a * b + a * (c - b)
  OBVIOUS
<1> QED BY <1>1, <1>2

(* How the bounds of the heap compare, by the assumption on the constants. *)
LEMMA BoundsFacts ==
  /\ Top \in Nat /\ Page * StartPages \in Nat
  /\ Start \in Nat /\ 1 <= Start /\ Start <= Page * StartPages
  /\ Page * StartPages <= Top /\ Top < Space
  /\ 1 <= Top
  /\ Space \in Int
<1> DEFINE s == Page * StartPages
<1>1. Page \in Nat /\ StartPages \in Nat /\ MaxPages \in Nat /\ HeapBase \in Nat /\ HeapBase >= 1
  BY AllocAssumption
<1>a. StartPages <= MaxPages
  BY AllocAssumption
<1>2. s \in Nat /\ s <= Top /\ Top \in Nat
  BY <1>1, <1>a, ProductsGrow DEF Top
<1>3. HeapBase <= 8 * s
  BY <1>1, AllocAssumption
<1> HIDE DEF s
<1>4. Start \in Nat /\ 1 <= Start /\ Start <= s
  BY <1>1, <1>2, <1>3, CellsFacts DEF Start
<1> QED BY <1>2, <1>4, AllocAssumption DEF s, Top

(* The blocks from x to y become one. *)
Merged(S, x, y) ==
    [c \in {c \in DOMAIN S : c < x \/ y <= c} \cup {x} |-> IF c = x THEN y - x ELSE S[c]]

(* The tail of b behind t cells becomes a block. *)
Divided(S, b, t) ==
    [c \in DOMAIN S \cup {b + t} |-> IF c = b THEN t ELSE IF c = b + t THEN S[b] - t ELSE S[c]]

(* A block of n cells is added at the end. *)
Extended(S, hi, n) == [c \in DOMAIN S \cup {hi} |-> IF c = hi THEN n ELSE S[c]]

(* Neighbours merged: free gives blocks end to end again. *)
LEMMA MergedPartition ==
  ASSUME NEW S, NEW hi, Partition(S, hi), NEW x \in DOMAIN S, NEW y, y \in DOMAIN S \/ y = hi, x < y
  PROVE  Partition(Merged(S, x, y), hi)
<1> DEFINE T == Merged(S, x, y)
<1>0. Start \in Nat
  BY BoundsFacts
<1>1. /\ DOMAIN T = {c \in DOMAIN S : c < x \/ y <= c} \cup {x}
      /\ \A c \in DOMAIN T : T[c] = IF c = x THEN y - x ELSE S[c]
  BY DEF Merged
<1>2. y \in Nat /\ x + S[x] <= y
  BY <1>0 DEF Partition
<1> HIDE DEF T
<1>3. \A c \in DOMAIN S : c < x => c + S[c] <= x
  BY DEF Partition
<1>4. \A b \in DOMAIN T :
          /\ b \in Nat /\ Start <= b
          /\ T[b] \in Nat /\ Hdr + MinPayload + Ftr <= T[b]
          /\ b + T[b] <= hi
          /\ b + T[b] \in DOMAIN T \/ b + T[b] = hi
  BY <1>0, <1>1, <1>2, <1>3 DEF Partition, Hdr, MinPayload, Ftr
<1>5. \A b, c \in DOMAIN T : b < c => b + T[b] <= c
  BY <1>0, <1>1, <1>2, <1>3 DEF Partition
<1>6. ASSUME NEW c \in DOMAIN S \cup {hi}, Start < c, c \in DOMAIN T \/ c = hi
      PROVE  \E b \in DOMAIN T : b + T[b] = c
  <2>1. PICK b \in DOMAIN S : b + S[b] = c
    BY <1>6 DEF Partition
  <2>0. b \in Nat /\ S[b] \in Nat /\ c \in Nat /\ 1 <= S[b] /\ x \in Nat
    BY <2>1 DEF Partition, Hdr, MinPayload, Ftr
  <2>2. CASE c = y
    BY <1>1, <1>2, <2>2, <1>0 DEF Partition
  <2>3. CASE b \in DOMAIN T /\ b # x
    BY <1>1, <2>1, <2>3
  <2>4. CASE b \notin DOMAIN T \/ b = x
    <3>1. x <= b /\ b < y
      BY <1>1, <1>2, <2>4, <2>0
    <3>2. c <= y /\ x < c
      <4>1. CASE y = hi
        BY <4>1, <2>1, <2>0, <3>1 DEF Partition
      <4>2. CASE y \in DOMAIN S
        BY <4>2, <2>1, <2>0, <3>1 DEF Partition
      <4> QED BY <4>1, <4>2
    <3>3. c = y
      <4>1. CASE c = hi
        BY <4>1, <3>2, <1>2, <2>0 DEF Partition
      <4>2. CASE c \in DOMAIN T
        BY <4>2, <3>2, <1>2, <2>0, <1>1
      <4> QED BY <4>1, <4>2, <1>6
    <3> QED BY <3>3, <2>2
  <2> QED BY <2>2, <2>3, <2>4
<1>7. Start \in DOMAIN T \/ Start = hi
  BY <1>0, <1>1 DEF Partition
<1>8. hi \in Nat /\ Start <= hi
  BY DEF Partition
<1>9. \A c \in DOMAIN T : c \in DOMAIN S
  BY <1>1
<1> QED BY <1>4, <1>5, <1>6, <1>7, <1>8, <1>9 DEF Partition, T

(* A block divided: the split of malloc does, if both parts can be blocks. *)
LEMMA DividedPartition ==
  ASSUME NEW S, NEW hi, Partition(S, hi), NEW x \in DOMAIN S, NEW t \in Nat,
         Hdr + MinPayload + Ftr <= t, Hdr + MinPayload + Ftr <= S[x] - t
  PROVE  Partition(Divided(S, x, t), hi)
<1> DEFINE T == Divided(S, x, t)
<1>0. Start \in Nat
  BY BoundsFacts
<1>1. /\ DOMAIN T = DOMAIN S \cup {x + t}
      /\ \A c \in DOMAIN T : T[c] = IF c = x THEN t ELSE IF c = x + t THEN S[x] - t ELSE S[c]
  BY DEF Divided
<1> HIDE DEF T
<1>2. x \in Nat /\ S[x] \in Nat /\ x + t < x + S[x] /\ x < x + t
  BY DEF Partition, Hdr, MinPayload, Ftr
<1>3. x + t \notin DOMAIN S
  BY <1>2 DEF Partition
<1>4. \A b \in DOMAIN T :
          /\ b \in Nat /\ Start <= b
          /\ T[b] \in Nat /\ Hdr + MinPayload + Ftr <= T[b]
          /\ b + T[b] <= hi
          /\ b + T[b] \in DOMAIN T \/ b + T[b] = hi
  BY <1>0, <1>1, <1>2, <1>3 DEF Partition, Hdr, MinPayload, Ftr
<1>5. \A b, c \in DOMAIN T : b < c => b + T[b] <= c
  BY <1>0, <1>1, <1>2, <1>3 DEF Partition
<1>6. ASSUME NEW c \in DOMAIN S \cup {hi}, Start < c
      PROVE  \E b \in DOMAIN T : b + T[b] = c
  <2>1. PICK b \in DOMAIN S : b + S[b] = c
    BY <1>6 DEF Partition
  <2>2. CASE b = x
    <3>1. T[x + t] = S[x] - t /\ x + t \in DOMAIN T
      BY <1>1, <1>2
    <3>2. (x + t) + T[x + t] = c
      BY <3>1, <2>1, <2>2, <1>2
    <3> QED BY <3>1, <3>2
  <2>3. CASE b # x
    BY <1>1, <1>3, <2>1, <2>3
  <2> QED BY <2>2, <2>3
<1>7. T[x] = t /\ x \in DOMAIN T
  BY <1>1
<1>8. hi \in Nat /\ Start <= hi /\ (Start \in DOMAIN T \/ Start = hi)
  BY <1>1 DEF Partition
<1>9. \A c \in DOMAIN T : c \in DOMAIN S \/ c = x + t
  BY <1>1
<1>10. \A c \in DOMAIN T : Start < c => \E b \in DOMAIN T : b + T[b] = c
  BY <1>6, <1>7, <1>9
<1> QED BY <1>4, <1>5, <1>6, <1>10, <1>8 DEF Partition, T

(* A block added: so does a new one at the break. *)
LEMMA ExtendedPartition ==
  ASSUME NEW S, NEW hi, Partition(S, hi), NEW n \in Nat, Hdr + MinPayload + Ftr <= n
  PROVE  Partition(Extended(S, hi, n), hi + n)
<1> DEFINE T == Extended(S, hi, n)
<1>0. Start \in Nat
  BY BoundsFacts
<1>1. /\ DOMAIN T = DOMAIN S \cup {hi}
      /\ \A c \in DOMAIN T : T[c] = IF c = hi THEN n ELSE S[c]
  BY DEF Extended
<1> HIDE DEF T
<1>2. hi \in Nat /\ Start <= hi /\ hi \notin DOMAIN S /\ 1 <= n
  BY <1>0 DEF Partition, Hdr, MinPayload, Ftr
<1>4. \A b \in DOMAIN T :
          /\ b \in Nat /\ Start <= b
          /\ T[b] \in Nat /\ Hdr + MinPayload + Ftr <= T[b]
          /\ b + T[b] <= hi + n
          /\ b + T[b] \in DOMAIN T \/ b + T[b] = hi + n
  BY <1>0, <1>1, <1>2 DEF Partition, Hdr, MinPayload, Ftr
<1>5. \A b, c \in DOMAIN T : b < c => b + T[b] <= c
  BY <1>0, <1>1, <1>2 DEF Partition, Hdr, MinPayload, Ftr
<1>6. ASSUME NEW c \in DOMAIN T, Start < c
      PROVE  \E b \in DOMAIN T : b + T[b] = c
  <2>1. PICK b \in DOMAIN S : b + S[b] = c
    BY <1>6, <1>1 DEF Partition
  <2> QED BY <2>1, <1>1, <1>2
<1>7. \E b \in DOMAIN T : b + T[b] = hi + n
  BY <1>1
<1>8. hi + n \in Nat /\ Start <= hi + n /\ (Start \in DOMAIN T \/ Start = hi + n)
  BY <1>1, <1>2, <1>0 DEF Partition
<1> QED BY <1>4, <1>5, <1>6, <1>7, <1>8 DEF Partition, T

-----------------------------------------------------------------------------
(* Heaps as records, and single writes. *)

(* A heap by its fields. *)
HeapOf(i, k, e, f, M) == [inited |-> i, brk |-> k, end |-> e, head |-> f, mem |-> M]

(* It has these fields, and a cell at each address. *)
IsHeap(h) ==
    /\ h = HeapOf(h.inited, h.brk, h.end, h.head, h.mem)
    /\ h.mem = [a \in Addresses |-> h.mem[a]]

(* Nothing but the list and the memory changed. *)
SameBounds(g, h) == g.inited = h.inited /\ g.brk = h.brk /\ g.end = h.end

(* L is the list of m payloads that the links in M spell from the head. *)
Linked(M, head, m, L) ==
    /\ m \in Nat /\ L \in [1..m -> Addresses \ {Null}]
    /\ head = IF m = 0 THEN Null ELSE L[1]
    /\ \A i \in 1..m : M[L[i]] = <<"link", IF i = m THEN Null ELSE L[i + 1], IF i = 1 THEN Null ELSE L[i - 1]>>
    /\ \A i, j \in 1..m : L[i] = L[j] => i = j

(* The list with n put in front, and *)
Pushed(n, m, L) == [i \in 1..(m + 1) |-> IF i = 1 THEN n ELSE L[i - 1]]
(* without its entry k. *)
Dropped(k, m, L) == [i \in 1..(m - 1) |-> IF i < k THEN L[i] ELSE L[i + 1]]

(* The fields of such a heap, *)
LEMMA HeapOfFields ==
  ASSUME NEW i, NEW k, NEW e, NEW f, NEW M
  PROVE  /\ HeapOf(i, k, e, f, M).inited = i
         /\ HeapOf(i, k, e, f, M).brk = k
         /\ HeapOf(i, k, e, f, M).end = e
         /\ HeapOf(i, k, e, f, M).head = f
         /\ HeapOf(i, k, e, f, M).mem = M
  BY DEF HeapOf

(* which is one if its memory is. *)
LEMMA HeapOfHeap ==
  ASSUME NEW i, NEW k, NEW e, NEW f, NEW M, M = [a \in Addresses |-> M[a]]
  PROVE  IsHeap(HeapOf(i, k, e, f, M))
<1> DEFINE h == HeapOf(i, k, e, f, M)
<1>1. h.inited = i /\ h.brk = k /\ h.end = e /\ h.head = f /\ h.mem = M
  BY HeapOfFields
<1> HIDE DEF h
<1>2. h = HeapOf(h.inited, h.brk, h.end, h.head, h.mem)
  BY <1>1 DEF h
<1>3. h.mem = [a \in Addresses |-> h.mem[a]]
  BY <1>1
<1> QED BY <1>2, <1>3 DEF IsHeap, h

(* A write of one cell changes that cell. *)
LEMMA CellWrites ==
  ASSUME NEW h, IsHeap(h), NEW n \in Addresses, NEW c
  PROVE  /\ [h EXCEPT !.mem[n] = c] = HeapOf(h.inited, h.brk, h.end, h.head, [a \in Addresses |-> IF a = n THEN c ELSE h.mem[a]])
         /\ IsHeap([h EXCEPT !.mem[n] = c])
<1> DEFINE M == [a \in Addresses |-> IF a = n THEN c ELSE h.mem[a]]
<1>1. [h EXCEPT !.mem[n] = c] = HeapOf(h.inited, h.brk, h.end, h.head, [h.mem EXCEPT ![n] = c])
  BY DEF IsHeap, HeapOf
<1>2. [h.mem EXCEPT ![n] = c] = M
  BY DEF IsHeap
<1>3. M = [a \in Addresses |-> M[a]]
  OBVIOUS
<1> HIDE DEF M
<1>4. IsHeap(HeapOf(h.inited, h.brk, h.end, h.head, M))
  BY <1>3, HeapOfHeap
<1> QED BY <1>1, <1>2, <1>4 DEF M

(* A write of the head changes the head. *)
LEMMA HeadWrites ==
  ASSUME NEW h, IsHeap(h), NEW x
  PROVE  /\ [h EXCEPT !.head = x] = HeapOf(h.inited, h.brk, h.end, x, h.mem)
         /\ IsHeap([h EXCEPT !.head = x])
<1>1. [h EXCEPT !.head = x] = HeapOf(h.inited, h.brk, h.end, x, h.mem)
  BY DEF IsHeap, HeapOf
<1>2. IsHeap(HeapOf(h.inited, h.brk, h.end, x, h.mem))
  BY HeapOfHeap DEF IsHeap
<1> QED BY <1>1, <1>2

(* The next link of a cell is written without its prev, *)
LEMMA SecondWrites ==
  ASSUME NEW h, IsHeap(h), NEW n \in Addresses, NEW x, NEW y, NEW z, h.mem[n] = <<"link", x, y>>
  PROVE  [h EXCEPT !.mem[n][2] = z] = [h EXCEPT !.mem[n] = <<"link", z, y>>]
<1>1. [h EXCEPT !.mem[n][2] = z] = HeapOf(h.inited, h.brk, h.end, h.head, [h.mem EXCEPT ![n] = [h.mem[n] EXCEPT ![2] = z]])
  BY DEF IsHeap, HeapOf
<1>2. [h EXCEPT !.mem[n] = <<"link", z, y>>] = HeapOf(h.inited, h.brk, h.end, h.head, [h.mem EXCEPT ![n] = <<"link", z, y>>])
  BY DEF IsHeap, HeapOf
<1>3. [<<"link", x, y>> EXCEPT ![2] = z] = <<"link", z, y>>
  OBVIOUS
<1> QED BY <1>1, <1>2, <1>3

(* and the prev without the next. *)
LEMMA ThirdWrites ==
  ASSUME NEW h, IsHeap(h), NEW n \in Addresses, NEW x, NEW y, NEW z, h.mem[n] = <<"link", x, y>>
  PROVE  [h EXCEPT !.mem[n][3] = z] = [h EXCEPT !.mem[n] = <<"link", x, z>>]
<1>1. [h EXCEPT !.mem[n][3] = z] = HeapOf(h.inited, h.brk, h.end, h.head, [h.mem EXCEPT ![n] = [h.mem[n] EXCEPT ![3] = z]])
  BY DEF IsHeap, HeapOf
<1>2. [h EXCEPT !.mem[n] = <<"link", x, z>>] = HeapOf(h.inited, h.brk, h.end, h.head, [h.mem EXCEPT ![n] = <<"link", x, z>>])
  BY DEF IsHeap, HeapOf
<1>3. [<<"link", x, y>> EXCEPT ![3] = z] = <<"link", x, z>>
  OBVIOUS
<1> QED BY <1>1, <1>2, <1>3

(* What one write of a cell, or of the head, does to a heap. *)
Wrote(g, h, n, c) ==
    /\ IsHeap(g) /\ SameBounds(g, h) /\ g.head = h.head
    /\ \A a \in Addresses : g.mem[a] = IF a = n THEN c ELSE h.mem[a]

(* The head is x, the rest as it was. *)
Headed(g, h, x) == IsHeap(g) /\ SameBounds(g, h) /\ g.head = x /\ g.mem = h.mem

(* A cell written, as a relation of two heaps. *)
LEMMA WriteWrote ==
  ASSUME NEW h, IsHeap(h), NEW n \in Addresses, NEW c
  PROVE  Wrote([h EXCEPT !.mem[n] = c], h, n, c)
<1> DEFINE g == [h EXCEPT !.mem[n] = c]
           M == [a \in Addresses |-> IF a = n THEN c ELSE h.mem[a]]
<1>1. g = HeapOf(h.inited, h.brk, h.end, h.head, M) /\ IsHeap(g)
  BY CellWrites
<1> HIDE DEF g
<1>2. \A a \in Addresses : M[a] = IF a = n THEN c ELSE h.mem[a]
  OBVIOUS
<1> HIDE DEF M
<1>3. g.inited = h.inited /\ g.brk = h.brk /\ g.end = h.end /\ g.head = h.head /\ g.mem = M
  BY <1>1, HeapOfFields
<1>4. Wrote(g, h, n, c)
  BY <1>1, <1>2, <1>3 DEF Wrote, SameBounds
<1> QED BY <1>4 DEF g

(* The head written, likewise. *)
LEMMA HeadHeaded ==
  ASSUME NEW h, IsHeap(h), NEW x
  PROVE  Headed([h EXCEPT !.head = x], h, x)
<1> DEFINE g == [h EXCEPT !.head = x]
<1>1. g = HeapOf(h.inited, h.brk, h.end, x, h.mem) /\ IsHeap(g)
  BY HeadWrites
<1> HIDE DEF g
<1>3. g.inited = h.inited /\ g.brk = h.brk /\ g.end = h.end /\ g.head = x /\ g.mem = h.mem
  BY <1>1, HeapOfFields
<1>4. Headed(g, h, x)
  BY <1>1, <1>3 DEF Headed, SameBounds
<1> QED BY <1>4 DEF g

-----------------------------------------------------------------------------
(* The list: insertion and removal write two cells and the head. *)

(* Cells next and prev of links are written independently. *)
LEMMA TwoWrites ==
  ASSUME NEW h, IsHeap(h), NEW n, NEW c, NEW x
  PROVE  [h EXCEPT !.mem[n] = c, !.head = x] = [[h EXCEPT !.mem[n] = c] EXCEPT !.head = x]
  OBVIOUS

(* fl_insert writes the links of the block, the prev of the old head, and the head. *)
LEMMA Inserted ==
  ASSUME NEW h, IsHeap(h), NEW b, b + Hdr \in Addresses, NEW x, NEW y,
         h.head # Null => h.head \in Addresses /\ h.head # b + Hdr /\ h.mem[h.head] = <<"link", x, y>>
  PROVE  /\ IsHeap(FlInsert(h, b)) /\ SameBounds(FlInsert(h, b), h)
         /\ FlInsert(h, b).head = b + Hdr
         /\ \A a \in Addresses : FlInsert(h, b).mem[a] =
               IF a = b + Hdr THEN <<"link", h.head, Null>>
               ELSE IF a = h.head /\ h.head # Null THEN <<"link", x, b + Hdr>>
               ELSE h.mem[a]
<1> DEFINE n == b + Hdr
           h0 == [h EXCEPT !.mem[n] = <<"link", h.head, Null>>]
           h1 == [h0 EXCEPT !.head = n]
           h2 == [h1 EXCEPT !.mem[h.head] = <<"link", x, n>>]
           g == FlInsert(h, b)
<1>1. [h EXCEPT !.mem[n] = <<"link", h.head, Null>>, !.head = n] = h1
  BY TwoWrites
<1>2. g = IF h.head = Null THEN h1 ELSE [h1 EXCEPT !.mem[h.head][3] = n]
  BY <1>1 DEF FlInsert
<1>3. Wrote(h0, h, n, <<"link", h.head, Null>>)
  BY WriteWrote
<1>4. n \in Addresses
  OBVIOUS
<1> HIDE DEF g, h0, n
<1>5. Headed(h1, h0, n)
  BY <1>3, HeadHeaded DEF Wrote
<1> HIDE DEF h1
<1>6. /\ IsHeap(h1) /\ SameBounds(h1, h) /\ h1.head = n
      /\ \A a \in Addresses : h1.mem[a] = IF a = n THEN <<"link", h.head, Null>> ELSE h.mem[a]
  BY <1>3, <1>5 DEF Wrote, Headed, SameBounds
<1>7. CASE h.head = Null
  <2>1. g = h1
    BY <1>2, <1>7
  <2>2. /\ IsHeap(g) /\ SameBounds(g, h) /\ g.head = n
        /\ \A a \in Addresses : g.mem[a] = IF a = n THEN <<"link", h.head, Null>>
                                           ELSE IF a = h.head /\ h.head # Null THEN <<"link", x, n>> ELSE h.mem[a]
    BY <1>6, <2>1, <1>7
  <2> QED BY <2>2 DEF g, n
<1>8. CASE h.head # Null
  <2>1. h.head \in Addresses /\ h.head # n /\ h1.mem[h.head] = <<"link", x, y>>
    BY <1>8, <1>6 DEF n
  <2>2. g = h2
    <3>1. [h1 EXCEPT !.mem[h.head][3] = n] = h2
      BY <2>1, <1>6, ThirdWrites
    <3> QED BY <3>1, <1>2, <1>8
  <2>3. Wrote(h2, h1, h.head, <<"link", x, n>>)
    BY <2>1, <1>6, WriteWrote
  <2> HIDE DEF h2
  <2>4. /\ IsHeap(g) /\ SameBounds(g, h) /\ g.head = n
        /\ \A a \in Addresses : g.mem[a] = IF a = n THEN <<"link", h.head, Null>>
                                           ELSE IF a = h.head /\ h.head # Null THEN <<"link", x, n>> ELSE h.mem[a]
    BY <2>1, <2>2, <2>3, <1>6, <1>8 DEF Wrote, SameBounds
  <2> QED BY <2>4 DEF g, n
<1> QED BY <1>7, <1>8

(* fl_remove writes the neighbours on the list, or the head where there is none. *)
LEMMA Removed ==
  ASSUME NEW h, IsHeap(h), NEW b, b + Hdr \in Addresses, NEW nx, NEW pv, NEW nn, NEW pp,
         h.mem[b + Hdr] = <<"link", nx, pv>>,
         pv # Null => pv \in Addresses /\ h.mem[pv] = <<"link", b + Hdr, pp>>,
         nx # Null => nx \in Addresses /\ h.mem[nx] = <<"link", nn, b + Hdr>>,
         nx # Null => nx # pv
  PROVE  /\ IsHeap(FlRemove(h, b)) /\ SameBounds(FlRemove(h, b), h)
         /\ FlRemove(h, b).head = IF pv # Null THEN h.head ELSE nx
         /\ \A a \in Addresses : FlRemove(h, b).mem[a] =
               IF a = pv /\ pv # Null THEN <<"link", nx, pp>>
               ELSE IF a = nx /\ nx # Null THEN <<"link", nn, pv>>
               ELSE h.mem[a]
<1> DEFINE n == b + Hdr
           h1 == IF pv # Null THEN [h EXCEPT !.mem[pv][2] = nx] ELSE [h EXCEPT !.head = nx]
           h2 == [h1 EXCEPT !.mem[nx] = <<"link", nn, pv>>]
           g == FlRemove(h, b)
           hd == IF pv # Null THEN h.head ELSE nx
<1>1. Link(h, n).next = nx /\ Link(h, n).prev = pv
  BY DEF Link
<1>2. g = IF nx # Null THEN [h1 EXCEPT !.mem[nx][3] = pv] ELSE h1
  BY <1>1 DEF FlRemove
<1> HIDE DEF g
<1>3. /\ IsHeap(h1) /\ SameBounds(h1, h) /\ h1.head = hd
      /\ \A a \in Addresses : h1.mem[a] = IF a = pv /\ pv # Null THEN <<"link", nx, pp>> ELSE h.mem[a]
  <2>1. CASE pv = Null
    <3> DEFINE h0 == [h EXCEPT !.head = nx]
    <3>1. h1 = h0
      BY <2>1
    <3>2. Headed(h0, h, nx)
      BY HeadHeaded
    <3> HIDE DEF h0, h1
    <3> QED BY <2>1, <3>1, <3>2 DEF Headed
  <2>2. CASE pv # Null
    <3> DEFINE h0 == [h EXCEPT !.mem[pv] = <<"link", nx, pp>>]
    <3>0. pv \in Addresses /\ h.mem[pv] = <<"link", n, pp>>
      BY <2>2
    <3>1. [h EXCEPT !.mem[pv][2] = nx] = h0
      BY <3>0, SecondWrites
    <3>2. h1 = h0
      BY <2>2, <3>1
    <3>3. Wrote(h0, h, pv, <<"link", nx, pp>>)
      BY <3>0, WriteWrote
    <3> HIDE DEF h0, h1
    <3> QED BY <2>2, <3>2, <3>3 DEF Wrote
  <2> QED BY <2>1, <2>2
<1> HIDE DEF h1
<1>7. CASE nx = Null
  <2>1. g = h1
    BY <1>2, <1>7
  <2>2. /\ IsHeap(g) /\ SameBounds(g, h) /\ g.head = hd
        /\ \A a \in Addresses : g.mem[a] = IF a = pv /\ pv # Null THEN <<"link", nx, pp>>
               ELSE IF a = nx /\ nx # Null THEN <<"link", nn, pv>> ELSE h.mem[a]
    BY <1>3, <2>1, <1>7
  <2> QED BY <2>2 DEF g
<1>8. CASE nx # Null
  <2>1. nx \in Addresses /\ nx # pv /\ h1.mem[nx] = <<"link", nn, n>>
    BY <1>8, <1>3
  <2>2. g = h2
    <3>1. [h1 EXCEPT !.mem[nx][3] = pv] = h2
      BY <2>1, <1>3, ThirdWrites
    <3> QED BY <3>1, <1>2, <1>8
  <2>3. Wrote(h2, h1, nx, <<"link", nn, pv>>)
    BY <2>1, <1>3, WriteWrote
  <2> HIDE DEF h2
  <2>4. /\ IsHeap(g) /\ SameBounds(g, h) /\ g.head = hd
        /\ \A a \in Addresses : g.mem[a] = IF a = pv /\ pv # Null THEN <<"link", nx, pp>>
               ELSE IF a = nx /\ nx # Null THEN <<"link", nn, pv>> ELSE h.mem[a]
    BY <2>1, <2>2, <2>3, <1>3, <1>8 DEF Wrote, SameBounds
  <2> QED BY <2>4 DEF g
<1> QED BY <1>7, <1>8

(* After fl_insert the links spell the list with the block in front. *)
LEMMA PushedLinked ==
  ASSUME NEW h, IsHeap(h), NEW m, NEW L, Linked(h.mem, h.head, m, L),
         NEW b, b + Hdr \in Addresses \ {Null}, \A i \in 1..m : L[i] # b + Hdr
  PROVE  /\ IsHeap(FlInsert(h, b)) /\ SameBounds(FlInsert(h, b), h)
         /\ Linked(FlInsert(h, b).mem, FlInsert(h, b).head, m + 1, Pushed(b + Hdr, m, L))
         /\ \A a \in Addresses : a # b + Hdr /\ (\A i \in 1..m : a # L[i]) => FlInsert(h, b).mem[a] = h.mem[a]
<1> DEFINE n == b + Hdr
           g == FlInsert(h, b)
           P == Pushed(n, m, L)
           x == IF 1 = m THEN Null ELSE L[2]
           y == Null
<1>1. m \in Nat /\ L \in [1..m -> Addresses \ {Null}]
  BY DEF Linked
<1>2. h.head # Null => h.head = L[1] /\ m >= 1 /\ h.head \in Addresses /\ h.head # n /\ h.mem[h.head] = <<"link", x, y>>
  BY <1>1 DEF Linked
<1>3. h.head = Null => m = 0
  BY <1>1 DEF Linked
<1> HIDE DEF x, y
<1>4. /\ IsHeap(g) /\ SameBounds(g, h)
      /\ g.head = n
      /\ \A a \in Addresses : g.mem[a] =
               IF a = n THEN <<"link", h.head, Null>>
               ELSE IF a = h.head /\ h.head # Null THEN <<"link", x, n>>
               ELSE h.mem[a]
  BY <1>2, Inserted
<1> HIDE DEF g
<1>5. n \in Addresses /\ n # Null /\ \A i \in 1..m : L[i] # n
  OBVIOUS
<1> HIDE DEF n
<1>6. /\ m + 1 \in Nat
      /\ DOMAIN P = 1..(m + 1)
      /\ P[1] = n
      /\ \A i \in 1..m : P[i + 1] = L[i]
      /\ \A i \in 1..(m + 1) : i # 1 => P[i] = L[i - 1] /\ i - 1 \in 1..m
      /\ P = [i \in 1..(m + 1) |-> P[i]]
  BY <1>1 DEF Pushed
<1> HIDE DEF P
<1>7. P \in [1..(m + 1) -> Addresses \ {Null}]
  BY <1>6, <1>5, <1>1
<1>8. \A i, j \in 1..(m + 1) : P[i] = P[j] => i = j
  <2> SUFFICES ASSUME NEW i \in 1..(m + 1), NEW j \in 1..(m + 1), P[i] = P[j]
               PROVE  i = j
    OBVIOUS
  <2>1. CASE i # 1 /\ j # 1
    <3>1. i - 1 \in 1..m /\ j - 1 \in 1..m /\ L[i - 1] = L[j - 1]
      BY <2>1, <1>6
    <3>2. i - 1 = j - 1
      BY <3>1 DEF Linked
    <3> QED BY <3>2, <1>1
  <2>2. CASE i = 1 \/ j = 1
    BY <2>2, <1>6, <1>5
  <2> QED BY <2>1, <2>2
<1>9. ASSUME NEW i \in 1..(m + 1)
      PROVE  g.mem[P[i]] = <<"link", IF i = m + 1 THEN Null ELSE P[i + 1], IF i = 1 THEN Null ELSE P[i - 1]>>
  <2>1. CASE i = 1
    <3>1. P[i] = n /\ g.mem[n] = <<"link", h.head, Null>>
      BY <1>4, <1>5, <1>6, <2>1
    <3>2. h.head = IF i = m + 1 THEN Null ELSE P[i + 1]
      BY <1>1, <1>6, <2>1 DEF Linked
    <3> QED BY <3>1, <3>2, <2>1
  <2>2. CASE i # 1
    <3>1. i - 1 \in 1..m /\ P[i] = L[i - 1]
      BY <2>2, <1>6
    <3> DEFINE j == i - 1
    <3>2. j \in 1..m /\ P[i] = L[j] /\ L[j] \in Addresses /\ L[j] # n /\ i = j + 1
      BY <3>1, <1>1, <1>5
    <3> HIDE DEF j
    <3>3. h.mem[L[j]] = <<"link", IF j = m THEN Null ELSE L[j + 1], IF j = 1 THEN Null ELSE L[j - 1]>>
      BY <3>2 DEF Linked
    <3>4. (IF j = m THEN Null ELSE L[j + 1]) = (IF i = m + 1 THEN Null ELSE P[i + 1])
      BY <3>2, <1>6, <1>1
    <3>5. CASE j = 1
      <4>1. h.head # Null /\ L[j] = h.head
        BY <3>5, <1>2, <1>3, <3>2
      <4>2. g.mem[L[j]] = <<"link", x, n>>
        BY <4>1, <1>4, <3>2
      <4>3. x = IF j = m THEN Null ELSE L[j + 1]
        BY <3>5 DEF x
      <4>4. n = IF i = 1 THEN Null ELSE P[i - 1]
        BY <3>5, <3>2, <1>6
      <4> QED BY <4>2, <4>3, <4>4, <3>4, <3>2
    <3>6. CASE j # 1
      <4>1. L[j] # h.head \/ h.head = Null
        <5>1. h.head # Null => L[j] # L[1] /\ h.head = L[1]
          BY <3>6, <3>2, <1>2, <1>1 DEF Linked
        <5> QED BY <5>1
      <4>2. g.mem[L[j]] = h.mem[L[j]]
        BY <4>1, <1>4, <3>2
      <4>3. L[j - 1] = P[i - 1] /\ i # 1
        BY <3>2, <3>6, <1>6, <1>1
      <4> QED BY <4>2, <4>3, <3>3, <3>4, <3>2, <3>6
    <3> QED BY <3>5, <3>6
  <2> QED BY <2>1, <2>2
<1>10. g.head = IF m + 1 = 0 THEN Null ELSE P[1]
  BY <1>4, <1>6, <1>1
<1>11. Linked(g.mem, g.head, m + 1, P)
  BY <1>6, <1>7, <1>8, <1>9, <1>10 DEF Linked
<1>12. \A a \in Addresses : a # n /\ (\A i \in 1..m : a # L[i]) => g.mem[a] = h.mem[a]
  BY <1>4, <1>2, <1>1
<1> QED BY <1>4, <1>11, <1>12 DEF g, P, n

(* After fl_remove of the k-th they spell the list without it. *)
LEMMA DroppedLinked ==
  ASSUME NEW h, IsHeap(h), NEW m, NEW L, Linked(h.mem, h.head, m, L), NEW k \in 1..m,
         NEW b, b + Hdr = L[k]
  PROVE  /\ IsHeap(FlRemove(h, b)) /\ SameBounds(FlRemove(h, b), h)
         /\ Linked(FlRemove(h, b).mem, FlRemove(h, b).head, m - 1, Dropped(k, m, L))
         /\ \A a \in Addresses : (\A i \in 1..m : a # L[i]) => FlRemove(h, b).mem[a] = h.mem[a]
<1> DEFINE g == FlRemove(h, b)
           D == Dropped(k, m, L)
           nx == IF k = m THEN Null ELSE L[k + 1]
           pv == IF k = 1 THEN Null ELSE L[k - 1]
           nn == IF k + 1 = m THEN Null ELSE L[k + 2]
           pp == IF k - 1 = 1 THEN Null ELSE L[k - 2]
<1>1. m \in Nat /\ L \in [1..m -> Addresses \ {Null}] /\ k \in Nat /\ 1 <= k /\ k <= m
  BY DEF Linked
<1>a. \A i \in 1..m : L[i] \in Addresses /\ L[i] # Null
  BY <1>1
<1>b. \A i, j \in 1..m : L[i] = L[j] => i = j
  BY DEF Linked
<1>2. b + Hdr \in Addresses /\ h.mem[b + Hdr] = <<"link", nx, pv>>
  BY <1>1 DEF Linked
<1>3. pv # Null => pv \in Addresses /\ h.mem[pv] = <<"link", b + Hdr, pp>>
  <2> SUFFICES ASSUME pv # Null PROVE pv \in Addresses /\ h.mem[pv] = <<"link", b + Hdr, pp>>
    OBVIOUS
  <2>1. k # 1 /\ pv = L[k - 1] /\ k - 1 \in 1..m /\ k - 1 # m
    BY <1>1
  <2>2. h.mem[L[k - 1]] = <<"link", L[(k - 1) + 1], IF k - 1 = 1 THEN Null ELSE L[(k - 1) - 1]>>
    BY <2>1 DEF Linked
  <2>3. (k - 1) + 1 = k /\ (k - 1) - 1 = k - 2
    BY <1>1
  <2> QED BY <2>1, <2>2, <2>3, <1>a
<1>4. nx # Null => nx \in Addresses /\ h.mem[nx] = <<"link", nn, b + Hdr>>
  <2> SUFFICES ASSUME nx # Null PROVE nx \in Addresses /\ h.mem[nx] = <<"link", nn, b + Hdr>>
    OBVIOUS
  <2>1. k # m /\ nx = L[k + 1] /\ k + 1 \in 1..m /\ k + 1 # 1
    BY <1>1
  <2>2. h.mem[L[k + 1]] = <<"link", IF k + 1 = m THEN Null ELSE L[(k + 1) + 1], L[(k + 1) - 1]>>
    BY <2>1 DEF Linked
  <2>3. (k + 1) + 1 = k + 2 /\ (k + 1) - 1 = k
    BY <1>1
  <2> QED BY <2>1, <2>2, <2>3, <1>a
<1>5. nx # Null => nx # pv
  BY <1>1, <1>a, <1>b
<1>p. pv # Null <=> k # 1
  BY <1>1, <1>a
<1>n. nx # Null <=> k # m
  BY <1>1, <1>a
<1>6. k # 1 => k - 1 \in 1..m /\ pv = L[k - 1] /\ pp = IF k - 1 = 1 THEN Null ELSE L[k - 2]
  BY <1>1
<1>7. k # m => k + 1 \in 1..m /\ nx = L[k + 1] /\ nn = IF k + 1 = m THEN Null ELSE L[k + 2]
  BY <1>1
<1>8. (k = 1 => pv = Null) /\ (k = m => nx = Null)
  OBVIOUS
<1> HIDE DEF nx, pv, nn, pp
<1>9. /\ IsHeap(g) /\ SameBounds(g, h)
      /\ g.head = IF pv # Null THEN h.head ELSE nx
      /\ \A a \in Addresses : g.mem[a] =
               IF a = pv /\ pv # Null THEN <<"link", nx, pp>>
               ELSE IF a = nx /\ nx # Null THEN <<"link", nn, pv>>
               ELSE h.mem[a]
  BY <1>2, <1>3, <1>4, <1>5, Removed
<1> HIDE DEF g
<1>10. /\ m - 1 \in Nat
       /\ DOMAIN D = 1..(m - 1)
       /\ \A i \in 1..(m - 1) : D[i] = IF i < k THEN L[i] ELSE L[i + 1]
       /\ D = [i \in 1..(m - 1) |-> D[i]]
  BY <1>1 DEF Dropped
<1> HIDE DEF D
<1>11. D \in [1..(m - 1) -> Addresses \ {Null}]
  <2>1. \A i \in 1..(m - 1) : D[i] \in Addresses \ {Null}
    BY <1>10, <1>a, <1>1
  <2> QED BY <2>1, <1>10
<1>12. \A i, j \in 1..(m - 1) : D[i] = D[j] => i = j
  <2> SUFFICES ASSUME NEW i \in 1..(m - 1), NEW j \in 1..(m - 1), D[i] = D[j]
               PROVE  i = j
    OBVIOUS
  <2>1. i \in 1..m /\ j \in 1..m /\ i + 1 \in 1..m /\ j + 1 \in 1..m /\ i \in Nat /\ j \in Nat
    BY <1>1
  <2>2. (IF i < k THEN i ELSE i + 1) = (IF j < k THEN j ELSE j + 1)
    BY <2>1, <1>10, <1>b
  <2> QED BY <2>1, <2>2, <1>1
<1>13. ASSUME NEW i \in 1..(m - 1)
       PROVE  g.mem[D[i]] = <<"link", IF i = m - 1 THEN Null ELSE D[i + 1], IF i = 1 THEN Null ELSE D[i - 1]>>
  <2>0. i \in Nat /\ i \in 1..m /\ i + 1 \in 1..m /\ 1 <= i /\ i <= m - 1
    BY <1>1
  <2>1. CASE i = k - 1
    <3>1. k # 1 /\ D[i] = pv /\ pv \in Addresses
      BY <2>0, <2>1, <1>1, <1>6, <1>10, <1>a
    <3>2. g.mem[D[i]] = <<"link", nx, pp>>
      BY <3>1, <1>9, <1>p
    <3>3. nx = IF i = m - 1 THEN Null ELSE D[i + 1]
      <4>1. CASE k = m
        BY <4>1, <2>1, <1>8
      <4>2. CASE k # m
        BY <4>2, <2>1, <1>7, <1>10, <1>1
      <4> QED BY <4>1, <4>2
    <3>4. pp = IF i = 1 THEN Null ELSE D[i - 1]
      <4>1. CASE i = 1
        BY <4>1, <2>1, <3>1, <1>6
      <4>2. CASE i # 1
        <5>1. i - 1 \in 1..(m - 1) /\ i - 1 < k /\ i - 1 = k - 2
          BY <4>2, <2>0, <2>1, <1>1
        <5> QED BY <5>1, <4>2, <2>1, <3>1, <1>6, <1>10
      <4> QED BY <4>1, <4>2
    <3> QED BY <3>2, <3>3, <3>4
  <2>2. CASE i = k
    <3>1. k # m /\ D[i] = nx /\ nx \in Addresses
      BY <2>0, <2>2, <1>1, <1>7, <1>10, <1>a
    <3>2. g.mem[D[i]] = <<"link", nn, pv>>
      BY <3>1, <1>9, <1>n, <1>5
    <3>3. nn = IF i = m - 1 THEN Null ELSE D[i + 1]
      <4>1. CASE i = m - 1
        BY <4>1, <2>2, <3>1, <1>7, <1>1
      <4>2. CASE i # m - 1
        <5>1. i + 1 \in 1..(m - 1) /\ ~(i + 1 < k) /\ (i + 1) + 1 = k + 2 /\ k + 1 # m
          BY <4>2, <2>0, <2>2, <1>1
        <5> QED BY <5>1, <4>2, <3>1, <1>7, <1>10
      <4> QED BY <4>1, <4>2
    <3>4. pv = IF i = 1 THEN Null ELSE D[i - 1]
      <4>1. CASE i = 1
        BY <4>1, <2>2, <1>8
      <4>2. CASE i # 1
        <5>1. i - 1 \in 1..(m - 1) /\ i - 1 < k /\ i - 1 = k - 1
          BY <4>2, <2>0, <2>2, <1>1
        <5> QED BY <5>1, <4>2, <2>2, <1>6, <1>10
      <4> QED BY <4>1, <4>2
    <3> QED BY <3>2, <3>3, <3>4
  <2>3. CASE i < k - 1
    <3>1. D[i] = L[i] /\ D[i] \in Addresses
      BY <2>0, <2>3, <1>1, <1>10, <1>a
    <3>2. k # 1 => L[i] # pv
      BY <1>6, <1>b, <2>0, <2>3, <1>1
    <3>3. k # m => L[i] # nx
      BY <1>7, <1>b, <2>0, <2>3, <1>1
    <3>4. g.mem[D[i]] = h.mem[L[i]]
      BY <3>1, <3>2, <3>3, <1>9, <1>p, <1>n
    <3>5. h.mem[L[i]] = <<"link", IF i = m THEN Null ELSE L[i + 1], IF i = 1 THEN Null ELSE L[i - 1]>>
      BY <2>0 DEF Linked
    <3>6. i # m /\ i # m - 1 /\ D[i + 1] = L[i + 1]
      BY <2>0, <2>3, <1>1, <1>10
    <3>7. i # 1 => D[i - 1] = L[i - 1]
      <4>1. i # 1 => i - 1 \in 1..(m - 1) /\ i - 1 < k
        BY <2>0, <2>3, <1>1
      <4> QED BY <4>1, <1>10
    <3> QED BY <3>4, <3>5, <3>6, <3>7
  <2>4. CASE i > k
    <3>1. D[i] = L[i + 1] /\ D[i] \in Addresses
      BY <2>0, <2>4, <1>1, <1>10, <1>a
    <3>2. k # 1 => L[i + 1] # pv
      BY <1>6, <1>b, <2>0, <2>4, <1>1
    <3>3. k # m => L[i + 1] # nx
      BY <1>7, <1>b, <2>0, <2>4, <1>1
    <3>4. g.mem[D[i]] = h.mem[L[i + 1]]
      BY <3>1, <3>2, <3>3, <1>9, <1>p, <1>n
    <3>5. h.mem[L[i + 1]] = <<"link", IF i + 1 = m THEN Null ELSE L[(i + 1) + 1], IF i + 1 = 1 THEN Null ELSE L[(i + 1) - 1]>>
      BY <2>0 DEF Linked
    <3>6. i + 1 # 1 /\ i # 1 /\ (i + 1 = m <=> i = m - 1) /\ (i + 1) - 1 = i /\ D[i - 1] = L[i]
      <4>1. i - 1 \in 1..(m - 1) /\ ~(i - 1 < k) /\ (i - 1) + 1 = i
        BY <2>0, <2>4, <1>1
      <4> QED BY <4>1, <1>10, <2>0, <2>4, <1>1
    <3>7. i # m - 1 => D[i + 1] = L[(i + 1) + 1]
      <4>1. i # m - 1 => i + 1 \in 1..(m - 1) /\ ~(i + 1 < k)
        BY <2>0, <2>4, <1>1
      <4> QED BY <4>1, <1>10
    <3> QED BY <3>4, <3>5, <3>6, <3>7
  <2> QED BY <2>0, <2>1, <2>2, <2>3, <2>4, <1>1
<1>14. g.head = IF m - 1 = 0 THEN Null ELSE D[1]
  <2>0. h.head = L[1]
    BY <1>1 DEF Linked
  <2>1. CASE k = 1
    <3>1. g.head = nx
      BY <2>1, <1>9, <1>p
    <3>2. CASE m = 1
      BY <3>1, <3>2, <2>1, <1>8, <1>1
    <3>3. CASE m # 1
      <4>1. 1 \in 1..(m - 1) /\ ~(1 < k)
        BY <3>3, <2>1, <1>1
      <4> QED BY <4>1, <3>1, <3>3, <2>1, <1>7, <1>10, <1>1
    <3> QED BY <3>2, <3>3
  <2>2. CASE k # 1
    <3>1. g.head = L[1]
      BY <2>0, <2>2, <1>9, <1>p
    <3>2. 1 \in 1..(m - 1) /\ 1 < k
      BY <2>2, <1>1
    <3> QED BY <3>1, <3>2, <1>10, <1>1
  <2> QED BY <2>1, <2>2
<1>15. Linked(g.mem, g.head, m - 1, D)
  BY <1>10, <1>11, <1>12, <1>13, <1>14 DEF Linked
<1>16. \A a \in Addresses : (\A i \in 1..m : a # L[i]) => g.mem[a] = h.mem[a]
  BY <1>9, <1>6, <1>7, <1>p, <1>n
<1> QED BY <1>9, <1>15, <1>16 DEF g, D

-----------------------------------------------------------------------------
(* The heap between two steps of an operation. *)

(* The tag of block c, *)
Tag(S, U, c) == <<"tag", S[c], IF c \in U THEN 1 ELSE 0>>
(* at both ends of each block. *)
Tags(M, S, U) == \A c \in DOMAIN S : M[c] = Tag(S, U, c) /\ M[c + S[c] - Ftr] = Tag(S, U, c)

(* L has the payload of each block of F once. *)
Listed(F, m, L) ==
    /\ \A i \in 1..m : L[i] - Hdr \in F
    /\ \A c \in F : \E i \in 1..m : L[i] = c + Hdr

(* The links spell a list of just the blocks of F. *)
Chain(h, F) == \E m, L : Linked(h.mem, h.head, m, L) /\ Listed(F, m, L)

(* The heap between two steps: tagged blocks end to end, of which F are on the list. *)
Mid(h, S, U, F) ==
    /\ IsHeap(h) /\ h.inited = TRUE
    /\ Partition(S, h.brk) /\ h.end \in Nat /\ h.brk <= h.end /\ h.end <= Top
    /\ Tags(h.mem, S, U)
    /\ U \subseteq DOMAIN S /\ F \subseteq DOMAIN S \ U
    /\ Chain(h, F)

(* A block is within memory, and its links are. *)
LEMMA BlockCells ==
  ASSUME NEW S, NEW hi, Partition(S, hi), hi <= Top, NEW c \in DOMAIN S
  PROVE  /\ c \in Nat /\ S[c] \in Nat /\ hi \in Nat /\ 4 <= S[c] /\ c >= 1 /\ c + S[c] <= hi
         /\ c \in Addresses /\ c + Hdr \in Addresses /\ c + Hdr # Null /\ c + S[c] - Ftr \in Addresses
         /\ \A a \in c..(c + S[c] - 1) : a \in Addresses
<1>1. Top \in Nat /\ Start \in Nat /\ 1 <= Start
  BY BoundsFacts
<1>2. c \in Nat /\ S[c] \in Nat /\ hi \in Nat /\ 4 <= S[c] /\ c >= 1 /\ c + S[c] <= hi
  BY <1>1 DEF Partition, Hdr, MinPayload, Ftr
<1>3. Addresses = 0..(Top - 1)
  BY DEF Addresses, Top
<1>4. c \in Addresses /\ c + Hdr \in Addresses /\ c + Hdr # Null /\ c + S[c] - Ftr \in Addresses
  BY <1>1, <1>2, <1>3 DEF Hdr, Ftr, Null
<1>5. \A a \in c..(c + S[c] - 1) : a \in Addresses
  BY <1>1, <1>2, <1>3
<1> QED BY <1>2, <1>4, <1>5

(* Two blocks have no cell in common. *)
LEMMA BlocksApart ==
  ASSUME NEW S, NEW hi, Partition(S, hi), NEW c \in DOMAIN S, NEW d \in DOMAIN S, c # d
  PROVE  c + S[c] <= d \/ d + S[d] <= c
<1>1. c \in Nat /\ d \in Nat
  BY DEF Partition
<1> QED BY <1>1 DEF Partition

(* A heap with other tags and the same links is one too. *)
LEMMA RestIsMid ==
  ASSUME NEW h, NEW S, NEW U, NEW F, Mid(h, S, U, F), NEW g, NEW T, NEW V,
         IsHeap(g), g.inited = TRUE, g.head = h.head,
         Partition(T, g.brk), g.end \in Nat, g.brk <= g.end, g.end <= Top,
         Tags(g.mem, T, V), V \subseteq DOMAIN T, F \subseteq DOMAIN T \ V,
         \A c \in F : g.mem[c + Hdr] = h.mem[c + Hdr]
  PROVE  Mid(g, T, V, F)
<1>1. PICK m, L : Linked(h.mem, h.head, m, L) /\ Listed(F, m, L)
  BY DEF Mid, Chain
<1>3. \A i \in 1..m : g.mem[L[i]] = h.mem[L[i]]
  <2> SUFFICES ASSUME NEW i \in 1..m PROVE g.mem[L[i]] = h.mem[L[i]]
    OBVIOUS
  <2>1. L[i] - Hdr \in F /\ L[i] \in Int
    <3>1. L[i] \in Addresses
      BY <1>1 DEF Linked
    <3> QED BY <3>1, <1>1 DEF Listed, Addresses
  <2>2. (L[i] - Hdr) + Hdr = L[i]
    BY <2>1 DEF Hdr
  <2> QED BY <2>1, <2>2
<1>4. Linked(g.mem, g.head, m, L)
  BY <1>1, <1>3 DEF Linked
<1>5. Chain(g, F)
  BY <1>1, <1>4 DEF Chain
<1> QED BY <1>5 DEF Mid

(* Links are inside free blocks, away from the tags. *)
LEMMA LinksAreInside ==
  ASSUME NEW S, NEW hi, Partition(S, hi), hi <= Top, NEW c \in DOMAIN S, NEW d \in DOMAIN S
  PROVE  c # d + Hdr /\ c + S[c] - Ftr # d + Hdr
<1>1. c \in Nat /\ d \in Nat /\ S[c] \in Nat /\ S[d] \in Nat /\ S[c] >= 4 /\ S[d] >= 4
  BY BlockCells
<1>2. CASE c = d
  BY <1>1, <1>2 DEF Hdr, Ftr
<1>3. CASE c # d
  BY <1>1, <1>3, BlocksApart DEF Hdr, Ftr
<1> QED BY <1>2, <1>3

(* Only the links of the blocks F were written. *)
LinksOnly(g, h, F) == \A a \in Addresses : (\A c \in F : a # c + Hdr) => g.mem[a] = h.mem[a]

(* b is off the list, and *)
MidRemovedTo(g, h, S, U, F, b) == Mid(g, S, U, F \ {b}) /\ SameBounds(g, h) /\ LinksOnly(g, h, F)
(* b is on it; only links were written. *)
MidInsertedTo(g, h, S, U, F, b) == Mid(g, S, U, F \cup {b}) /\ SameBounds(g, h) /\ LinksOnly(g, h, F \cup {b})

(* fl_remove takes a block off the list and writes links alone. *)
LEMMA MidRemoved ==
  ASSUME NEW h, NEW S, NEW U, NEW F, Mid(h, S, U, F), NEW b \in F
  PROVE  MidRemovedTo(FlRemove(h, b), h, S, U, F, b)
<1> DEFINE g == FlRemove(h, b)
<1>1. PICK m, L : Linked(h.mem, h.head, m, L) /\ Listed(F, m, L)
  BY DEF Mid, Chain
<1>2. PICK k \in 1..m : L[k] = b + Hdr
  BY <1>1 DEF Listed
<1>3. IsHeap(h) /\ Partition(S, h.brk) /\ h.brk <= Top /\ h.brk \in Nat /\ h.end \in Nat
  BY BoundsFacts DEF Mid, Partition
<1>4. /\ IsHeap(g) /\ SameBounds(g, h)
      /\ Linked(g.mem, g.head, m - 1, Dropped(k, m, L))
      /\ \A a \in Addresses : (\A i \in 1..m : a # L[i]) => g.mem[a] = h.mem[a]
  BY <1>1, <1>2, <1>3, DroppedLinked
<1> HIDE DEF g
<1>5. \A c \in F : c \in DOMAIN S /\ c \in Nat
  BY <1>3, BlockCells DEF Mid
<1>6. m \in Nat /\ \A i \in 1..m : L[i] \in Int
  BY <1>1 DEF Linked, Addresses
<1>7. ASSUME NEW a \in Addresses, \A c \in F : a # c + Hdr
      PROVE  g.mem[a] = h.mem[a]
  <2>1. \A i \in 1..m : a # L[i]
    <3> SUFFICES ASSUME NEW i \in 1..m PROVE a # L[i]
      OBVIOUS
    <3>1. L[i] - Hdr \in F /\ L[i] = (L[i] - Hdr) + Hdr
      BY <1>1, <1>6 DEF Listed, Hdr
    <3> QED BY <3>1, <1>7
  <2> QED BY <2>1, <1>4
<1>8. Tags(g.mem, S, U)
  <2> SUFFICES ASSUME NEW c \in DOMAIN S
               PROVE  g.mem[c] = Tag(S, U, c) /\ g.mem[c + S[c] - Ftr] = Tag(S, U, c)
    BY DEF Tags
  <2>1. c \in Addresses /\ c + S[c] - Ftr \in Addresses
    BY <1>3, BlockCells
  <2>2. \A d \in F : c # d + Hdr /\ c + S[c] - Ftr # d + Hdr
    BY <1>3, <1>5, LinksAreInside
  <2>3. h.mem[c] = Tag(S, U, c) /\ h.mem[c + S[c] - Ftr] = Tag(S, U, c)
    BY DEF Mid, Tags
  <2> QED BY <2>1, <2>2, <2>3, <1>7
<1> DEFINE D == Dropped(k, m, L)
<1>9. \A i \in 1..(m - 1) : D[i] = IF i < k THEN L[i] ELSE L[i + 1]
  BY DEF Dropped
<1>10. Listed(F \ {b}, m - 1, D)
  <2>1. ASSUME NEW i \in 1..(m - 1) PROVE D[i] - Hdr \in F \ {b}
    <3>1. D[i] - Hdr \in F
      BY <1>1, <1>6, <1>9 DEF Listed
    <3>2. D[i] # L[k]
      <4>2. \A p, q \in 1..m : L[p] = L[q] => p = q
        BY <1>1 DEF Linked
      <4> QED BY <4>2, <1>9, <1>6
    <3>3. D[i] \in Int /\ b \in Int
      BY <1>6, <1>9, <1>5
    <3>4. D[i] - Hdr # b
      BY <3>2, <3>3, <1>2 DEF Hdr
    <3> QED BY <3>1, <3>4
  <2>2. ASSUME NEW c \in F \ {b} PROVE \E i \in 1..(m - 1) : D[i] = c + Hdr
    <3>1. PICK j \in 1..m : L[j] = c + Hdr
      BY <1>1 DEF Listed
    <3>2. j # k
      BY <3>1, <1>2, <1>5 DEF Hdr
    <3>3. CASE j < k
      <4>1. j \in 1..(m - 1)
        BY <3>3, <1>6
      <4> QED BY <4>1, <3>3, <3>1, <1>9
    <3>4. CASE j > k
      <4>1. j - 1 \in 1..(m - 1) /\ ~(j - 1 < k) /\ (j - 1) + 1 = j
        BY <3>4, <1>6
      <4> QED BY <4>1, <3>1, <1>9
    <3> QED BY <3>2, <3>3, <3>4, <1>6
  <2> QED BY <2>1, <2>2 DEF Listed
<1>11. Chain(g, F \ {b})
  BY <1>4, <1>10 DEF Chain
<1>12. Mid(g, S, U, F \ {b})
  BY <1>4, <1>8, <1>11 DEF Mid, SameBounds
<1>13. LinksOnly(g, h, F)
  BY <1>7 DEF LinksOnly
<1> QED BY <1>4, <1>13, <1>12 DEF g, MidRemovedTo

(* fl_insert puts a free block on it and writes links alone. *)
LEMMA MidInserted ==
  ASSUME NEW h, NEW S, NEW U, NEW F, Mid(h, S, U, F), NEW b \in DOMAIN S, b \notin U, b \notin F
  PROVE  MidInsertedTo(FlInsert(h, b), h, S, U, F, b)
<1> DEFINE g == FlInsert(h, b)
<1>1. PICK m, L : Linked(h.mem, h.head, m, L) /\ Listed(F, m, L)
  BY DEF Mid, Chain
<1>3. IsHeap(h) /\ Partition(S, h.brk) /\ h.brk <= Top /\ h.brk \in Nat /\ h.end \in Nat
  BY BoundsFacts DEF Mid, Partition
<1>5. \A c \in F \cup {b} : c \in DOMAIN S /\ c \in Nat
  BY <1>3, BlockCells DEF Mid
<1>6. m \in Nat /\ \A i \in 1..m : L[i] \in Int
  BY <1>1 DEF Linked, Addresses
<1>2. b + Hdr \in Addresses \ {Null} /\ \A i \in 1..m : L[i] # b + Hdr
  <2>1. b + Hdr \in Addresses \ {Null}
    BY <1>3, BlockCells
  <2>2. ASSUME NEW i \in 1..m PROVE L[i] # b + Hdr
    <3>1. L[i] - Hdr \in F /\ L[i] \in Int /\ b \in Int
      BY <1>1, <1>6, <1>5 DEF Listed
    <3>2. L[i] - Hdr # b
      BY <3>1
    <3> QED BY <3>1, <3>2 DEF Hdr
  <2> QED BY <2>1, <2>2
<1>4. /\ IsHeap(g) /\ SameBounds(g, h)
      /\ Linked(g.mem, g.head, m + 1, Pushed(b + Hdr, m, L))
      /\ \A a \in Addresses : a # b + Hdr /\ (\A i \in 1..m : a # L[i]) => g.mem[a] = h.mem[a]
  BY <1>1, <1>2, <1>3, PushedLinked
<1> HIDE DEF g
<1>7. ASSUME NEW a \in Addresses, \A c \in F \cup {b} : a # c + Hdr
      PROVE  g.mem[a] = h.mem[a]
  <2>1. \A i \in 1..m : a # L[i]
    <3> SUFFICES ASSUME NEW i \in 1..m PROVE a # L[i]
      OBVIOUS
    <3>1. L[i] - Hdr \in F /\ L[i] = (L[i] - Hdr) + Hdr
      BY <1>1, <1>6 DEF Listed, Hdr
    <3> QED BY <3>1, <1>7
  <2> QED BY <2>1, <1>4, <1>7
<1>8. Tags(g.mem, S, U)
  <2> SUFFICES ASSUME NEW c \in DOMAIN S
               PROVE  g.mem[c] = Tag(S, U, c) /\ g.mem[c + S[c] - Ftr] = Tag(S, U, c)
    BY DEF Tags
  <2>1. c \in Addresses /\ c + S[c] - Ftr \in Addresses
    BY <1>3, BlockCells
  <2>2. \A d \in F \cup {b} : c # d + Hdr /\ c + S[c] - Ftr # d + Hdr
    BY <1>3, <1>5, LinksAreInside
  <2>3. h.mem[c] = Tag(S, U, c) /\ h.mem[c + S[c] - Ftr] = Tag(S, U, c)
    BY DEF Mid, Tags
  <2> QED BY <2>1, <2>2, <2>3, <1>7
<1> DEFINE D == Pushed(b + Hdr, m, L)
<1>9. \A i \in 1..(m + 1) : D[i] = IF i = 1 THEN b + Hdr ELSE L[i - 1]
  BY DEF Pushed
<1>10. Listed(F \cup {b}, m + 1, D)
  <2>1. ASSUME NEW i \in 1..(m + 1) PROVE D[i] - Hdr \in F \cup {b}
    <3>1. CASE i = 1
      BY <3>1, <1>9, <1>5 DEF Hdr
    <3>2. CASE i # 1
      <4>1. i - 1 \in 1..m /\ D[i] = L[i - 1]
        BY <3>2, <1>6, <1>9
      <4> QED BY <4>1, <1>1 DEF Listed
    <3> QED BY <3>1, <3>2
  <2>2. ASSUME NEW c \in F \cup {b} PROVE \E i \in 1..(m + 1) : D[i] = c + Hdr
    <3>1. CASE c = b
      <4>1. 1 \in 1..(m + 1)
        BY <1>6
      <4> QED BY <4>1, <3>1, <1>9
    <3>2. CASE c \in F
      <4>1. PICK j \in 1..m : L[j] = c + Hdr
        BY <1>1, <3>2 DEF Listed
      <4>2. j + 1 \in 1..(m + 1) /\ j + 1 # 1 /\ (j + 1) - 1 = j
        BY <1>6
      <4> QED BY <4>1, <4>2, <1>9
    <3> QED BY <3>1, <3>2
  <2> QED BY <2>1, <2>2 DEF Listed
<1>11. Chain(g, F \cup {b})
  BY <1>4, <1>10 DEF Chain
<1>12. Mid(g, S, U, F \cup {b})
  BY <1>4, <1>8, <1>11 DEF Mid, SameBounds
<1>13. LinksOnly(g, h, F \cup {b})
  BY <1>7 DEF LinksOnly
<1> QED BY <1>4, <1>13, <1>12 DEF g, MidInsertedTo

-----------------------------------------------------------------------------
(* Tags: blocks merged, divided and added at the break. *)

(* A write of many cells at once. *)
Rewritten(g, h, M) == IsHeap(g) /\ SameBounds(g, h) /\ g.head = h.head /\ g.mem = M

(* Writing the memory keeps the rest. *)
LEMMA MemWrites ==
  ASSUME NEW h, IsHeap(h), NEW M, M = [a \in Addresses |-> M[a]]
  PROVE  Rewritten([h EXCEPT !.mem = M], h, M)
<1> DEFINE g == [h EXCEPT !.mem = M]
<1>1. g = HeapOf(h.inited, h.brk, h.end, h.head, M)
  BY DEF IsHeap, HeapOf
<1> HIDE DEF g
<1>2. IsHeap(g)
  BY <1>1, HeapOfHeap
<1>3. g.inited = h.inited /\ g.brk = h.brk /\ g.end = h.end /\ g.head = h.head /\ g.mem = M
  BY <1>1, HeapOfFields
<1>4. Rewritten(g, h, M)
  BY <1>2, <1>3 DEF Rewritten, SameBounds
<1> QED BY <1>4 DEF g

(* A heap has a cell at each address. *)
LEMMA HeapDomain == ASSUME NEW h, IsHeap(h) PROVE DOMAIN h.mem = Addresses
  BY DEF IsHeap

(* The block has the tag at both ends, and no cell outside of it changed. *)
Retagged(g, h, b, size, used) ==
    /\ IsHeap(g) /\ SameBounds(g, h) /\ g.head = h.head
    /\ \A a \in Addresses : g.mem[a] =
          IF a = b \/ a = b + size - Ftr THEN <<"tag", size, used>>
          ELSE IF a \in b..(b + size - 1) THEN Junk ELSE h.mem[a]

(* That is what blk_set does. *)
LEMMA Tagged ==
  ASSUME NEW h, IsHeap(h), NEW b, NEW size, NEW used
  PROVE  Retagged(BlkSet(h, b, size, used), h, b, size, used)
<1> DEFINE M == [a \in Addresses |->
                    IF a \in {b, b + size - Ftr} THEN <<"tag", size, used>>
                    ELSE IF a \in b..(b + size - 1) THEN Junk ELSE h.mem[a]]
           g == BlkSet(h, b, size, used)
<1>1. g = [h EXCEPT !.mem = M]
  <2>1. DOMAIN h.mem = Addresses
    BY HeapDomain
  <2>2. g = [h EXCEPT !.mem = [a \in DOMAIN h.mem |->
                    IF a \in {b, b + size - Ftr} THEN <<"tag", size, used>>
                    ELSE IF a \in b..(b + size - 1) THEN Junk ELSE h.mem[a]]]
    BY Zenon DEF BlkSet
  <2> QED BY <2>1, <2>2
<1>2. M = [a \in Addresses |-> M[a]]
  OBVIOUS
<1>3. \A a \in Addresses : M[a] = IF a = b \/ a = b + size - Ftr THEN <<"tag", size, used>>
                                  ELSE IF a \in b..(b + size - 1) THEN Junk ELSE h.mem[a]
  OBVIOUS
<1> HIDE DEF M, g
<1>4. Rewritten(g, h, M)
  BY <1>1, <1>2, MemWrites
<1>5. Retagged(g, h, b, size, used)
  BY <1>3, <1>4 DEF Rewritten, Retagged
<1> QED BY <1>5 DEF g

(* The blocks before x and from y on. *)
Outside(U, x, y) == {c \in U : c < x \/ y <= c}
(* Block x joins those in use if its tag says so. *)
TaggedUsed(U, x, u) == U \cup (IF u = 1 THEN {x} ELSE {})

(* The blocks from x to y are one, the others as they were. *)
MergedTo(g, h, S, U, F, x, y, u) ==
    /\ Mid(g, Merged(S, x, y), TaggedUsed(Outside(U, x, y), x, u), F)
    /\ SameBounds(g, h)
    /\ \A a \in Addresses : a \notin x..(y - 1) => g.mem[a] = h.mem[a]

(* blk_set over neighbours that are off the list merges them. *)
LEMMA MidMerged ==
  ASSUME NEW h, NEW S, NEW U, NEW F, Mid(h, S, U, F), NEW x \in DOMAIN S,
         NEW y, y \in DOMAIN S \/ y = h.brk, x < y, NEW u \in {0, 1}, NEW size, size = y - x,
         \A c \in DOMAIN S : x <= c /\ c < y => c \notin F
  PROVE  MergedTo(BlkSet(h, x, size, u), h, S, U, F, x, y, u)
<1> DEFINE g == BlkSet(h, x, size, u)
           T == Merged(S, x, y)
           V == TaggedUsed(Outside(U, x, y), x, u)
<1>1. IsHeap(h) /\ Partition(S, h.brk) /\ h.brk <= Top /\ h.brk \in Nat /\ h.end \in Nat
  BY BoundsFacts DEF Mid, Partition
<1>2. x \in Nat /\ S[x] \in Nat /\ 4 <= S[x] /\ x + S[x] <= y /\ y \in Nat /\ size \in Nat /\ x + size = y
  <2>1. x \in Nat /\ S[x] \in Nat /\ 4 <= S[x] /\ x + S[x] <= h.brk
    BY <1>1, BlockCells
  <2>2. y \in DOMAIN S => y \in Nat /\ x + S[x] <= y
    BY <1>1 DEF Partition
  <2> QED BY <2>1, <2>2, <1>1
<1>3. /\ IsHeap(g) /\ SameBounds(g, h) /\ g.head = h.head
      /\ \A a \in Addresses : g.mem[a] =
                IF a = x \/ a = x + size - Ftr THEN <<"tag", size, u>>
                ELSE IF a \in x..(x + size - 1) THEN Junk ELSE h.mem[a]
  <2>1. Retagged(g, h, x, size, u)
    BY <1>1, Tagged
  <2> HIDE DEF g
  <2> QED BY <2>1 DEF Retagged
<1>4. /\ DOMAIN T = {c \in DOMAIN S : c < x \/ y <= c} \cup {x}
      /\ \A c \in DOMAIN T : T[c] = IF c = x THEN y - x ELSE S[c]
  BY DEF Merged
<1>5. Partition(T, h.brk)
  BY <1>1, MergedPartition
<1> HIDE DEF g, T
<1>6. ASSUME NEW a \in Addresses, a \notin x..(y - 1)
      PROVE  g.mem[a] = h.mem[a]
  <2>1. a # x /\ a # x + size - Ftr
    BY <1>6, <1>2 DEF Ftr
  <2> QED BY <2>1, <1>6, <1>3, <1>2
<1>7. \A c \in DOMAIN T : c # x => c \in DOMAIN S /\ T[c] = S[c] /\ (c < x \/ y <= c) /\ c \in Nat
  BY <1>4, <1>1, BlockCells
<1>8. V \subseteq DOMAIN T
  BY <1>4 DEF TaggedUsed, Outside, Mid
<1>9. \A c \in DOMAIN T : c # x => (c \in V <=> c \in U)
  BY <1>7 DEF TaggedUsed, Outside
<1>10. (IF x \in V THEN 1 ELSE 0) = u
  BY <1>2 DEF TaggedUsed, Outside
<1> HIDE DEF V
<1>11. Tags(g.mem, T, V)
  <2> SUFFICES ASSUME NEW c \in DOMAIN T
               PROVE  g.mem[c] = Tag(T, V, c) /\ g.mem[c + T[c] - Ftr] = Tag(T, V, c)
    BY DEF Tags
  <2>1. c \in Addresses /\ c + T[c] - Ftr \in Addresses /\ c \in Nat /\ T[c] \in Nat /\ 4 <= T[c]
    BY <1>1, <1>5, BlockCells
  <2>2. CASE c = x
    <3>1. T[c] = size /\ Tag(T, V, c) = <<"tag", size, u>>
      BY <2>2, <1>4, <1>10 DEF Tag
    <3> QED BY <2>1, <2>2, <3>1, <1>3
  <2>3. CASE c # x
    <3>1. c \in DOMAIN S /\ T[c] = S[c] /\ Tag(T, V, c) = Tag(S, U, c)
      BY <2>3, <1>7, <1>9 DEF Tag
    <3>2. h.mem[c] = Tag(S, U, c) /\ h.mem[c + S[c] - Ftr] = Tag(S, U, c)
      BY <3>1 DEF Mid, Tags
    <3>3. c \notin x..(y - 1) /\ c + T[c] - Ftr \notin x..(y - 1)
      <4>1. CASE c < x
        <5>1. c + S[c] <= x
          BY <4>1, <3>1, <1>1 DEF Partition
        <5> QED BY <5>1, <3>1, <4>1, <2>1, <1>2 DEF Ftr
      <4>2. CASE y <= c
        BY <4>2, <2>1, <1>2 DEF Ftr
      <4> QED BY <4>1, <4>2, <2>3, <1>7
    <3> QED BY <2>1, <3>1, <3>2, <3>3, <1>6
  <2> QED BY <2>2, <2>3
<1>12. \A c \in F : c \in DOMAIN S /\ c \notin U /\ c \in DOMAIN T /\ c # x /\ c \notin V
  BY <1>4, <1>2, <1>1, <1>7, <1>9 DEF Mid, Partition
<1>13. \A c \in F : g.mem[c + Hdr] = h.mem[c + Hdr]
  <2> SUFFICES ASSUME NEW c \in F PROVE g.mem[c + Hdr] = h.mem[c + Hdr]
    OBVIOUS
  <2>1. c \in DOMAIN S /\ c # x /\ c \in DOMAIN T /\ T[c] = S[c]
    BY <1>12, <1>7
  <2>2. c + Hdr \in Addresses /\ c \in Nat /\ S[c] \in Nat /\ 4 <= S[c]
    BY <2>1, <1>1, BlockCells
  <2>3. c + Hdr \notin x..(y - 1)
    <3>1. CASE c < x
      <4>1. c + S[c] <= x
        BY <3>1, <2>1, <1>1 DEF Partition
      <4> QED BY <4>1, <2>2, <1>2 DEF Hdr
    <3>2. CASE y <= c
      BY <3>2, <2>2, <1>2 DEF Hdr
    <3> QED BY <3>1, <3>2, <2>1, <1>7
  <2> QED BY <2>2, <2>3, <1>6
<1>14. Mid(g, T, V, F)
  <2>1. g.inited = TRUE /\ g.head = h.head /\ g.brk = h.brk /\ g.end = h.end
    BY <1>3 DEF Mid, SameBounds
  <2>2. h.end \in Nat /\ h.brk <= h.end /\ h.end <= Top
    BY DEF Mid
  <2> QED BY <2>1, <2>2, <1>3, <1>5, <1>8, <1>11, <1>12, <1>13, RestIsMid
<1> QED BY <1>14, <1>3, <1>6 DEF g, T, V, MergedTo

(* Block x is two, the first in use; the others as they were. *)
DividedTo(g, h, S, U, F, x, t, y) ==
    /\ Mid(g, Divided(S, x, t), U \cup {x}, F)
    /\ SameBounds(g, h)
    /\ \A a \in Addresses : a \notin x..(y - 1) => g.mem[a] = h.mem[a]
    /\ x + t \notin DOMAIN S

(* blk_set of a part and of the rest divides a block. *)
LEMMA MidDivided ==
  ASSUME NEW h, NEW S, NEW U, NEW F, Mid(h, S, U, F), NEW x \in DOMAIN S, x \notin F, x \notin U,
         NEW t \in Nat, NEW rest, rest = S[x] - t,
         Hdr + MinPayload + Ftr <= t, Hdr + MinPayload + Ftr <= rest,
         NEW f, f = BlkSet(h, x, t, 1), NEW g, g = BlkSet(f, x + t, rest, 0),
         NEW y, y = x + S[x]
  PROVE  DividedTo(g, h, S, U, F, x, t, y)
<1> DEFINE T == Divided(S, x, t)
           V == U \cup {x}
<1>1. IsHeap(h) /\ Partition(S, h.brk) /\ h.brk <= Top /\ h.brk \in Nat /\ h.end \in Nat
  BY BoundsFacts DEF Mid, Partition
<1>2. /\ x \in Nat /\ S[x] \in Nat /\ 4 <= S[x] /\ y \in Nat /\ y <= h.brk
      /\ rest \in Nat /\ 4 <= t /\ 4 <= rest /\ (x + t) + rest = y /\ t <= S[x]
  <2>1. x \in Nat /\ S[x] \in Nat /\ 4 <= S[x] /\ x + S[x] <= h.brk
    BY <1>1, BlockCells
  <2> QED BY <2>1, <1>1 DEF Hdr, MinPayload, Ftr
<1>3. Retagged(f, h, x, t, 1)
  BY <1>1, Tagged, Zenon
<1>4. IsHeap(f)
  BY <1>3 DEF Retagged
<1>5. Retagged(g, f, x + t, rest, 0)
  BY <1>4, Tagged, Zenon
<1>6. /\ DOMAIN T = DOMAIN S \cup {x + t}
      /\ \A c \in DOMAIN T : T[c] = IF c = x THEN t ELSE IF c = x + t THEN S[x] - t ELSE S[c]
  BY DEF Divided
<1>7. Partition(T, h.brk)
  BY <1>1, DividedPartition
<1> HIDE DEF T
<1>8. x + t \notin DOMAIN S
  <2> SUFFICES ASSUME x + t \in DOMAIN S PROVE FALSE
    OBVIOUS
  <2>1. x < x + t
    BY <1>2
  <2>2. x + S[x] <= x + t
    BY <2>1, <1>1 DEF Partition
  <2> QED BY <2>2, <1>2
<1>9. /\ IsHeap(g) /\ SameBounds(g, h) /\ g.head = h.head
      /\ \A a \in Addresses : a \notin x..(y - 1) => g.mem[a] = h.mem[a]
  <2>1. IsHeap(g) /\ SameBounds(g, h) /\ g.head = h.head
    BY <1>3, <1>5 DEF Retagged, SameBounds
  <2>2. ASSUME NEW a \in Addresses, a \notin x..(y - 1) PROVE g.mem[a] = h.mem[a]
    <3>0. a \in Int
      BY DEF Addresses
    <3>1. /\ a # x /\ a # x + t - Ftr /\ a \notin x..(x + t - 1)
          /\ a # x + t /\ a # (x + t) + rest - Ftr /\ a \notin (x + t)..((x + t) + rest - 1)
      BY <2>2, <3>0, <1>2 DEF Ftr
    <3>2. g.mem[a] = f.mem[a]
      BY <3>1, <1>5 DEF Retagged
    <3>3. f.mem[a] = h.mem[a]
      BY <3>1, <1>3 DEF Retagged
    <3> QED BY <3>2, <3>3
  <2> QED BY <2>1, <2>2
<1>10. \A c \in DOMAIN S : c # x => c \in DOMAIN T /\ T[c] = S[c] /\ c \in Nat /\ S[c] \in Nat /\ 4 <= S[c]
                                    /\ c + Hdr \in Addresses /\ (c + S[c] <= x \/ y <= c)
  <2> SUFFICES ASSUME NEW c \in DOMAIN S, c # x
               PROVE  c \in DOMAIN T /\ T[c] = S[c] /\ c \in Nat /\ S[c] \in Nat /\ 4 <= S[c]
                      /\ c + Hdr \in Addresses /\ (c + S[c] <= x \/ y <= c)
    OBVIOUS
  <2>1. c \in DOMAIN T /\ T[c] = S[c]
    BY <1>6, <1>8
  <2>2. c \in Nat /\ S[c] \in Nat /\ 4 <= S[c] /\ c + Hdr \in Addresses
    BY <1>1, BlockCells
  <2>3. c + S[c] <= x \/ y <= c
    BY <1>1, BlocksApart
  <2> QED BY <2>1, <2>2, <2>3
<1>11. V \subseteq DOMAIN T /\ x + t \notin V
  BY <1>6, <1>8, <1>2 DEF Mid
<1>12. Tags(g.mem, T, V)
  <2> SUFFICES ASSUME NEW c \in DOMAIN T
               PROVE  g.mem[c] = Tag(T, V, c) /\ g.mem[c + T[c] - Ftr] = Tag(T, V, c)
    BY DEF Tags
  <2>1. c \in Addresses /\ c + T[c] - Ftr \in Addresses /\ c \in Nat /\ T[c] \in Nat /\ 4 <= T[c]
    BY <1>1, <1>7, BlockCells
  <2>2. CASE c = x + t
    <3>1. T[c] = rest /\ Tag(T, V, c) = <<"tag", rest, 0>>
      BY <2>2, <1>6, <1>2, <1>11 DEF Tag
    <3> QED BY <2>1, <2>2, <3>1, <1>5 DEF Retagged
  <2>3. CASE c = x
    <3>1. T[c] = t /\ Tag(T, V, c) = <<"tag", t, 1>>
      BY <2>3, <1>6 DEF Tag
    <3>2. f.mem[c] = <<"tag", t, 1>> /\ f.mem[c + T[c] - Ftr] = <<"tag", t, 1>>
      BY <2>1, <2>3, <3>1, <1>3 DEF Retagged
    <3>3. \A a \in {c, c + T[c] - Ftr} : a # x + t /\ a # (x + t) + rest - Ftr /\ a \notin (x + t)..((x + t) + rest - 1)
      BY <2>3, <3>1, <1>2 DEF Ftr
    <3> QED BY <2>1, <3>1, <3>2, <3>3, <1>5 DEF Retagged
  <2>4. CASE c # x /\ c # x + t
    <3>1. c \in DOMAIN S /\ T[c] = S[c] /\ (c + S[c] <= x \/ y <= c)
      BY <2>4, <1>6, <1>10
    <3>2. Tag(T, V, c) = Tag(S, U, c)
      BY <2>4, <3>1 DEF Tag
    <3>3. h.mem[c] = Tag(S, U, c) /\ h.mem[c + S[c] - Ftr] = Tag(S, U, c)
      BY <3>1 DEF Mid, Tags
    <3>4. c \notin x..(y - 1) /\ c + T[c] - Ftr \notin x..(y - 1)
      BY <3>1, <2>1, <1>2 DEF Ftr
    <3> QED BY <2>1, <3>1, <3>2, <3>3, <3>4, <1>9
  <2> QED BY <2>2, <2>3, <2>4
<1>13. \A c \in F : c \in DOMAIN S /\ c # x /\ c \in DOMAIN T /\ c \notin V
  BY <1>10 DEF Mid
<1>14. \A c \in F : g.mem[c + Hdr] = h.mem[c + Hdr]
  <2> SUFFICES ASSUME NEW c \in F PROVE g.mem[c + Hdr] = h.mem[c + Hdr]
    OBVIOUS
  <2>1. c \in Nat /\ S[c] \in Nat /\ 4 <= S[c] /\ c + Hdr \in Addresses /\ (c + S[c] <= x \/ y <= c)
    BY <1>13, <1>10
  <2>2. c + Hdr \notin x..(y - 1)
    BY <2>1, <1>2 DEF Hdr
  <2> QED BY <2>1, <2>2, <1>9
<1>15. Mid(g, T, V, F)
  <2>1. g.inited = TRUE /\ g.head = h.head /\ g.brk = h.brk /\ g.end = h.end
    BY <1>9 DEF Mid, SameBounds
  <2>2. h.end \in Nat /\ h.brk <= h.end /\ h.end <= Top
    BY DEF Mid
  <2>3. F \subseteq DOMAIN T \ V
    BY <1>13
  <2> HIDE DEF V
  <2> QED BY <2>1, <2>2, <2>3, <1>9, <1>7, <1>11, <1>12, <1>14, RestIsMid
<1>16. Mid(g, Divided(S, x, t), U \cup {x}, F)
  BY <1>15 DEF T
<1> QED BY <1>8, <1>9, <1>16 DEF DividedTo

(* There is a block in use at the old break. *)
ExtendedTo(g, h, S, U, F, k, n) ==
    /\ Mid(g, Extended(S, k, n), U \cup {k}, F)
    /\ \A a \in Addresses : a < k => g.mem[a] = h.mem[a]
    /\ k \notin DOMAIN S

(* blk_set behind the old break adds a block. *)
LEMMA MidExtended ==
  ASSUME NEW h, NEW S, NEW U, NEW F, Mid(h, S, U, F), NEW n \in Nat, Hdr + MinPayload + Ftr <= n,
         NEW e, IsHeap(e), e.inited = TRUE, e.head = h.head, e.mem = h.mem, e.brk = h.brk + n,
         e.end \in Nat, e.brk <= e.end, e.end <= Top, NEW k, k = h.brk
  PROVE  ExtendedTo(BlkSet(e, k, n, 1), h, S, U, F, k, n)
<1> DEFINE g == BlkSet(e, k, n, 1)
           T == Extended(S, k, n)
           V == U \cup {k}
<1>1. Partition(S, k) /\ k <= Top /\ k \in Nat /\ h.end \in Nat
  BY BoundsFacts DEF Mid, Partition
<1>2. e.brk = k + n /\ 4 <= n /\ e.mem = h.mem
  BY DEF Hdr, MinPayload, Ftr
<1>3. Retagged(g, e, k, n, 1)
  BY Tagged
<1>4. /\ DOMAIN T = DOMAIN S \cup {k}
      /\ \A c \in DOMAIN T : T[c] = IF c = k THEN n ELSE S[c]
  BY DEF Extended
<1>5. Partition(T, k + n)
  BY <1>1, ExtendedPartition
<1> HIDE DEF g, T
<1>6. \A c \in DOMAIN S : c # k /\ c \in DOMAIN T /\ T[c] = S[c] /\ c \in Nat /\ S[c] \in Nat /\ 4 <= S[c] /\ c + S[c] <= k
                          /\ c + Hdr \in Addresses
  <2> SUFFICES ASSUME NEW c \in DOMAIN S
               PROVE  c # k /\ c \in DOMAIN T /\ T[c] = S[c] /\ c \in Nat /\ S[c] \in Nat /\ 4 <= S[c] /\ c + S[c] <= k
                      /\ c + Hdr \in Addresses
    OBVIOUS
  <2>1. c \in Nat /\ S[c] \in Nat /\ 4 <= S[c] /\ c + S[c] <= k /\ c + Hdr \in Addresses
    BY <1>1, BlockCells
  <2>2. c # k
    BY <2>1, <1>1
  <2> QED BY <2>1, <2>2, <1>4
<1>7. k \notin DOMAIN S
  BY <1>6
<1>8. ASSUME NEW a \in Addresses, a < k PROVE g.mem[a] = h.mem[a]
  <2>1. a # k /\ a # k + n - Ftr /\ a \notin k..(k + n - 1)
    BY <1>8, <1>1, <1>2 DEF Ftr, Addresses
  <2> QED BY <2>1, <1>3, <1>2 DEF Retagged
<1>9. V \subseteq DOMAIN T
  BY <1>4 DEF Mid
<1>10. Tags(g.mem, T, V)
  <2> SUFFICES ASSUME NEW c \in DOMAIN T
               PROVE  g.mem[c] = Tag(T, V, c) /\ g.mem[c + T[c] - Ftr] = Tag(T, V, c)
    BY DEF Tags
  <2>1. c \in Addresses /\ c + T[c] - Ftr \in Addresses /\ c \in Nat /\ T[c] \in Nat /\ 4 <= T[c]
    <3> DEFINE top == e.brk
    <3>1. top <= Top
      BY <1>1, <1>2, BoundsFacts
    <3>2. Partition(T, top)
      BY <1>2, <1>5
    <3>3. c \in DOMAIN T
      OBVIOUS
    <3> HIDE DEF top
    <3> QED BY ONLY <3>1, <3>2, <3>3, BlockCells
  <2>2. CASE c = k
    <3>1. T[c] = n /\ Tag(T, V, c) = <<"tag", n, 1>>
      BY <2>2, <1>4 DEF Tag
    <3> QED BY <2>1, <2>2, <3>1, <1>3 DEF Retagged
  <2>3. CASE c # k
    <3>1. c \in DOMAIN S /\ T[c] = S[c] /\ c + S[c] <= k
      BY <2>3, <1>4, <1>6
    <3>2. Tag(T, V, c) = Tag(S, U, c)
      BY <2>3, <3>1 DEF Tag
    <3>3. h.mem[c] = Tag(S, U, c) /\ h.mem[c + S[c] - Ftr] = Tag(S, U, c)
      BY <3>1 DEF Mid, Tags
    <3>4. c < k /\ c + T[c] - Ftr < k
      BY <3>1, <2>1, <1>1 DEF Ftr
    <3> QED BY <2>1, <3>1, <3>2, <3>3, <3>4, <1>8
  <2> QED BY <2>2, <2>3
<1>11. \A c \in F : c \in DOMAIN S /\ c \in DOMAIN T /\ c \notin V
  BY <1>6 DEF Mid
<1>12. \A c \in F : g.mem[c + Hdr] = h.mem[c + Hdr]
  <2> SUFFICES ASSUME NEW c \in F PROVE g.mem[c + Hdr] = h.mem[c + Hdr]
    OBVIOUS
  <2>1. c \in Nat /\ S[c] \in Nat /\ 4 <= S[c] /\ c + S[c] <= k /\ c + Hdr \in Addresses
    BY <1>11, <1>6
  <2>2. c + Hdr < k
    BY <2>1, <1>1 DEF Hdr
  <2> QED BY <2>1, <2>2, <1>8
<1>13. Mid(g, T, V, F)
  <2>1. IsHeap(g) /\ g.inited = TRUE /\ g.head = h.head /\ g.brk = k + n /\ g.end = e.end
    BY <1>3, <1>2 DEF Retagged, SameBounds
  <2>2. F \subseteq DOMAIN T \ V
    BY <1>11
  <2>3. g.end \in Nat /\ g.brk <= g.end /\ g.end <= Top
    BY <2>1, <1>2
  <2> HIDE DEF V
  <2>4. Partition(T, g.brk)
    BY <2>1, <1>5
  <2> QED BY <2>1, <2>2, <2>3, <2>4, <1>9, <1>10, <1>12, RestIsMid
<1>14. ExtendedTo(g, h, S, U, F, k, n)
  BY <1>13, <1>7, <1>8 DEF T, ExtendedTo
<1> QED BY <1>14 DEF g

-----------------------------------------------------------------------------
(* free. *)

(* No two free blocks touch. *)
Apart(S, U) == \A c \in DOMAIN S : c \notin U /\ c + S[c] \in DOMAIN S => c + S[c] \in U

(* The heap between two calls. *)
Sound(h, S, U) == Mid(h, S, U, DOMAIN S \ U) /\ Apart(S, U)

(* The cells of the blocks in K are as they were. *)
Undisturbed(g, h, S, K) == \A c \in K : \A a \in c..(c + S[c] - 1) : g.mem[a] = h.mem[a]

(* The blocks K are blocks still, of the same size. *)
Kept(T, S, K) == K \subseteq DOMAIN T /\ \A c \in K : T[c] = S[c]

(* Writing links of free blocks changes no block in use. *)
LEMMA LinksDisturbNothing ==
  ASSUME NEW S, NEW hi, Partition(S, hi), hi <= Top, NEW K, K \subseteq DOMAIN S,
         NEW F, F \subseteq DOMAIN S, \A c \in K : c \notin F, NEW g, NEW h,
         LinksOnly(g, h, F)
  PROVE  Undisturbed(g, h, S, K)
<1> SUFFICES ASSUME NEW c \in K, NEW a \in c..(c + S[c] - 1) PROVE g.mem[a] = h.mem[a]
  BY DEF Undisturbed
<1>1. c \in DOMAIN S /\ c \in Nat /\ S[c] \in Nat /\ a \in Addresses
  BY BlockCells
<1>2. ASSUME NEW d \in F PROVE a # d + Hdr
  <2>1. d \in DOMAIN S /\ d # c
    BY <1>2
  <2>2. d \in Nat /\ S[d] \in Nat /\ 4 <= S[d]
    BY <2>1, BlockCells
  <2>3. c + S[c] <= d \/ d + S[d] <= c
    BY <2>1, <1>1, BlocksApart
  <2> QED BY <2>2, <2>3, <1>1 DEF Hdr
<1> QED BY <1>1, <1>2 DEF LinksOnly

(* Writing a region changes no block outside of it. *)
LEMMA RegionDisturbsNothing ==
  ASSUME NEW S, NEW hi, Partition(S, hi), hi <= Top, NEW K, K \subseteq DOMAIN S,
         NEW x \in Nat, NEW y \in Nat, \A c \in K : c + S[c] <= x \/ y <= c, NEW g, NEW h,
         \A a \in Addresses : a \notin x..(y - 1) => g.mem[a] = h.mem[a]
  PROVE  Undisturbed(g, h, S, K)
<1> SUFFICES ASSUME NEW c \in K, NEW a \in c..(c + S[c] - 1) PROVE g.mem[a] = h.mem[a]
  BY DEF Undisturbed
<1>1. c \in DOMAIN S /\ c \in Nat /\ S[c] \in Nat /\ a \in Addresses
  BY BlockCells
<1>2. a \notin x..(y - 1)
  BY <1>1
<1> QED BY <1>1, <1>2

(* What two steps leave alone, both together do. *)
LEMMA UndisturbedChains ==
  ASSUME NEW f, NEW g, NEW h, NEW S, NEW K, Undisturbed(f, g, S, K), Undisturbed(g, h, S, K)
  PROVE  Undisturbed(f, h, S, K)
  BY DEF Undisturbed

(* The blocks from x to y, of which only b is in use, and what is beside them is. *)
Region(S, U, hi, b, x, y) ==
    /\ x \in DOMAIN S /\ (y \in DOMAIN S \/ y = hi) /\ x <= b /\ b < y
    /\ \A c \in DOMAIN S : x <= c /\ c < y /\ c # b => c \notin U
    /\ y \in DOMAIN S => y \in U
    /\ \A c \in DOMAIN S : c + S[c] = x => c \in U

(* All free blocks but those of the region. *)
FreeOutside(F, S, U, x, y) == F = Outside(DOMAIN S \ U, x, y)

(* b is free, and every other block in use as it was. *)
Freed(g, h, S, U, b) ==
    \E T : /\ Sound(g, T, U \ {b}) /\ SameBounds(g, h)
           /\ Kept(T, S, U \ {b}) /\ Undisturbed(g, h, S, U \ {b})

(* The region merged and put on the list: the heap is sound, no two free blocks touch. *)
LEMMA RegionFreed ==
  ASSUME NEW h, NEW S, NEW U, Sound(h, S, U), NEW b \in U, NEW x, NEW y, Region(S, U, h.brk, b, x, y),
         NEW F, FreeOutside(F, S, U, x, y),
         NEW k, Mid(k, S, U, F), SameBounds(k, h), Undisturbed(k, h, S, U),
         NEW size, size = y - x
  PROVE  Freed(FlInsert(BlkSet(k, x, size, 0), x), h, S, U, b)
<1> DEFINE T == Merged(S, x, y)
           V == U \ {b}
           W == TaggedUsed(Outside(U, x, y), x, 0)
           g == BlkSet(k, x, size, 0)
           f == FlInsert(g, x)
<1>1. Partition(S, h.brk) /\ h.brk <= Top /\ h.brk \in Nat /\ U \subseteq DOMAIN S /\ k.brk = h.brk /\ h.end \in Nat
  BY BoundsFacts DEF Mid, Partition, Sound, SameBounds
<1>2. /\ x \in DOMAIN S /\ (y \in DOMAIN S \/ y = k.brk) /\ x <= b /\ b < y
      /\ \A c \in DOMAIN S : x <= c /\ c < y /\ c # b => c \notin U
      /\ b \in DOMAIN S
  BY <1>1 DEF Region
<1>3. /\ \A c \in DOMAIN S : c \in Nat /\ S[c] \in Nat /\ 4 <= S[c]
      /\ x \in Nat /\ y \in Nat /\ b \in Nat
  <2>1. \A c \in DOMAIN S : c \in Nat /\ S[c] \in Nat /\ 4 <= S[c]
    BY <1>1, BlockCells
  <2> QED BY <2>1, <1>1, <1>2
<1>4. x < y /\ \A c \in DOMAIN S : x <= c /\ c < y => c \notin F
  BY <1>2, <1>3 DEF Outside, FreeOutside
<1>f. /\ \A c \in F : c \in DOMAIN S /\ c \notin U /\ (c < x \/ y <= c)
      /\ \A c \in DOMAIN S : c \notin U /\ (c < x \/ y <= c) => c \in F
  BY DEF Outside, FreeOutside
<1>5. W = V
  <2>1. ASSUME NEW c \in V PROVE c \in W
    <3>1. c \in DOMAIN S /\ c \in U /\ c # b
      BY <1>1
    <3>2. ~(x <= c /\ c < y)
      BY <3>1, <1>2
    <3> QED BY <3>1, <3>2, <1>3 DEF TaggedUsed, Outside
  <2>2. ASSUME NEW c \in W PROVE c \in V
    <3>1. c \in U /\ (c < x \/ y <= c)
      BY DEF TaggedUsed, Outside
    <3> QED BY <3>1, <1>1, <1>2, <1>3
  <2> QED BY <2>1, <2>2
<1>6. /\ Mid(g, T, W, F)
      /\ SameBounds(g, k)
      /\ \A a \in Addresses : a \notin x..(y - 1) => g.mem[a] = k.mem[a]
  <2>1. 0 \in {0, 1}
    OBVIOUS
  <2>2. MergedTo(g, k, S, U, F, x, y, 0)
    BY <2>1, <1>2, <1>4, MidMerged, Zenon
  <2> HIDE DEF g
  <2> QED BY <2>2 DEF MergedTo
<1>7. /\ DOMAIN T = {c \in DOMAIN S : c < x \/ y <= c} \cup {x}
      /\ \A c \in DOMAIN T : T[c] = IF c = x THEN y - x ELSE S[c]
  BY DEF Merged
<1> HIDE DEF W, T, g
<1>8. Mid(g, T, V, F) /\ x \in DOMAIN T /\ x \notin V /\ x \notin F
  <2>1. x \notin V
    BY <1>2, <1>3
  <2>2. x \notin F
    BY <1>2, <1>3, <1>4
  <2> QED BY <2>1, <2>2, <1>5, <1>6, <1>7
<1> HIDE DEF V
<1>9. Mid(f, T, V, F \cup {x}) /\ SameBounds(f, g) /\ LinksOnly(f, g, F \cup {x})
  <2>1. MidInsertedTo(f, g, T, V, F, x)
    BY <1>8, MidInserted, Zenon
  <2> HIDE DEF f
  <2> QED BY <2>1 DEF MidInsertedTo
<1> HIDE DEF f
<1>10. F \cup {x} = DOMAIN T \ V
  <2>1. ASSUME NEW c \in F PROVE c \in DOMAIN T \ V
    BY <1>7, <1>f DEF V
  <2>2. ASSUME NEW c \in DOMAIN T, c \notin V PROVE c \in F \cup {x}
    <3>1. CASE c = x
      BY <3>1
    <3>2. CASE c # x
      <4>1. c \in DOMAIN S /\ (c < x \/ y <= c) /\ c # b
        BY <3>2, <1>2, <1>3, <1>7
      <4>2. c \notin U
        BY <4>1, <2>2 DEF V
      <4> QED BY <4>1, <4>2, <1>f
    <3> QED BY <3>1, <3>2
  <2> QED BY <2>1, <2>2, <1>8
<1>11. Kept(T, S, V)
  <2> SUFFICES ASSUME NEW c \in V PROVE c \in DOMAIN T /\ T[c] = S[c]
    BY DEF Kept
  <2>1. c \in DOMAIN S /\ c \in U /\ c # b /\ c # x
    BY <1>1, <1>8 DEF V
  <2>2. c < x \/ y <= c
    BY <2>1, <1>2, <1>3
  <2> QED BY <2>1, <2>2, <1>7
<1>12. Apart(T, V)
  <2> SUFFICES ASSUME NEW c \in DOMAIN T, c \notin V, c + T[c] \in DOMAIN T PROVE c + T[c] \in V
    BY DEF Apart
  <2>1. CASE c = x
    <3>1. c + T[c] = y
      BY <2>1, <1>7, <1>3
    <3>2. y \in DOMAIN S /\ y # b
      BY <3>1, <1>7, <1>3, <1>2
    <3> QED BY <3>1, <3>2 DEF Region, V
  <2>2. CASE c # x
    <3>1. c \in DOMAIN S /\ T[c] = S[c] /\ (c < x \/ y <= c) /\ c # b /\ c \notin U
      BY <2>2, <1>7, <1>2, <1>3 DEF V
    <3>2. c + S[c] \in DOMAIN S
      BY <3>1, <1>7, <1>2
    <3>3. c + S[c] \in U
      BY <3>1, <3>2 DEF Sound, Apart
    <3>4. c + S[c] # b
      <4>1. SUFFICES ASSUME c + S[c] = b PROVE FALSE
        OBVIOUS
      <4>2. b = x
        BY <4>1, <3>1, <1>7, <1>2, <1>3
      <4> QED BY <4>1, <4>2, <3>1 DEF Region
    <3> QED BY <3>1, <3>3, <3>4 DEF V
  <2> QED BY <2>1, <2>2
<1>13. Sound(f, T, V)
  BY <1>9, <1>10, <1>12 DEF Sound
<1>14. SameBounds(f, h)
  BY <1>9, <1>6 DEF SameBounds
<1>15. Undisturbed(f, h, S, V)
  <2>1. V \subseteq DOMAIN S /\ V \subseteq U
    BY <1>1 DEF V
  <2>2. Undisturbed(k, h, S, V)
    BY <2>1 DEF Undisturbed
  <2>3. Undisturbed(g, k, S, V)
    <3>1. \A c \in V : c + S[c] <= x \/ y <= c
      <4> SUFFICES ASSUME NEW c \in V PROVE c + S[c] <= x \/ y <= c
        OBVIOUS
      <4>1. c \in DOMAIN S /\ c \in U /\ c # b /\ c # x
        BY <1>1, <1>8 DEF V
      <4>2. c < x \/ y <= c
        BY <4>1, <1>2, <1>3
      <4> QED BY <4>1, <4>2, <1>1, <1>2, <1>3 DEF Partition
    <3> QED BY <3>1, <2>1, <1>1, <1>3, <1>6, RegionDisturbsNothing
  <2>4. Undisturbed(f, g, S, V)
    <3>1. F \cup {x} \subseteq DOMAIN S /\ \A c \in V : c \notin F \cup {x}
      BY <1>2, <1>10, <1>f
    <3> DEFINE FF == F \cup {x}
    <3> HIDE DEF FF
    <3>2. FF \subseteq DOMAIN S /\ \A c \in V : c \notin FF
      BY <3>1 DEF FF
    <3>3. LinksOnly(f, g, FF)
      BY <1>9 DEF FF
    <3> QED BY <3>2, <3>3, <2>1, <1>1, LinksDisturbNothing
  <2> QED BY <2>2, <2>3, <2>4, UndisturbedChains
<1>16. Freed(f, h, S, U, b)
  BY <1>11, <1>13, <1>14, <1>15 DEF Freed, V
<1> QED BY <1>16 DEF f, g

(* Both tags of a block tell its size and whether it is in use. *)
LEMMA TagsRead ==
  ASSUME NEW h, NEW S, NEW U, NEW F, Mid(h, S, U, F), NEW c \in DOMAIN S
  PROVE  /\ Size(h, c) = S[c] /\ Size(h, c + S[c] - Ftr) = S[c]
         /\ Used(h, c) <=> c \in U
         /\ Used(h, c + S[c] - Ftr) <=> c \in U
<1>1. h.mem[c] = <<"tag", S[c], IF c \in U THEN 1 ELSE 0>> /\ h.mem[c + S[c] - Ftr] = <<"tag", S[c], IF c \in U THEN 1 ELSE 0>>
  BY DEF Mid, Tags, Tag
<1> DEFINE n == IF c \in U THEN 1 ELSE 0
<1>2. n = 1 <=> c \in U
  OBVIOUS
<1>3. h.mem[c] = <<"tag", S[c], n>> /\ h.mem[c + S[c] - Ftr] = <<"tag", S[c], n>>
  BY <1>1
<1> HIDE DEF n
<1> QED BY <1>2, <1>3 DEF Size, Used

(* The bounds and the blocks of such a heap. *)
LEMMA MidFacts ==
  ASSUME NEW h, NEW S, NEW U, NEW F, Mid(h, S, U, F)
  PROVE  /\ Partition(S, h.brk) /\ h.brk <= Top /\ h.brk \in Nat /\ h.end \in Nat /\ h.brk <= h.end /\ h.end <= Top
         /\ U \subseteq DOMAIN S /\ F \subseteq DOMAIN S /\ IsHeap(h)
         /\ Start \in Nat /\ Start <= h.brk
         /\ \A c \in DOMAIN S : c \in Nat /\ S[c] \in Nat /\ 4 <= S[c] /\ Start <= c /\ c + S[c] <= h.brk
                                /\ (c + S[c] \in DOMAIN S \/ c + S[c] = h.brk)
<1>1. /\ Partition(S, h.brk) /\ h.brk <= Top /\ h.brk \in Nat /\ h.end \in Nat /\ h.brk <= h.end /\ h.end <= Top
      /\ U \subseteq DOMAIN S /\ F \subseteq DOMAIN S /\ IsHeap(h) /\ Start \in Nat /\ Start <= h.brk
  BY BoundsFacts DEF Mid, Partition
<1>2. \A c \in DOMAIN S : c \in Nat /\ S[c] \in Nat /\ 4 <= S[c]
  BY <1>1, BlockCells
<1>3. \A c \in DOMAIN S : Start <= c /\ c + S[c] <= h.brk /\ (c + S[c] \in DOMAIN S \/ c + S[c] = h.brk)
  BY <1>1 DEF Partition
<1> QED BY <1>1, <1>2, <1>3

(* The heap once the free block at n, if it is one, is off the list. *)
LEMMA ForwardRemoved ==
  ASSUME NEW h, NEW S, NEW U, NEW F, Mid(h, S, U, F), NEW n \in F, NEW k, k = FlRemove(h, n)
  PROVE  Mid(k, S, U, F \ {n}) /\ SameBounds(k, h) /\ Undisturbed(k, h, S, U)
<1>1. MidRemovedTo(k, h, S, U, F, n)
  BY MidRemoved, Zenon
<1>2. Mid(k, S, U, F \ {n}) /\ SameBounds(k, h) /\ LinksOnly(k, h, F)
  BY <1>1 DEF MidRemovedTo
<1>3. Partition(S, h.brk) /\ h.brk <= Top /\ U \subseteq DOMAIN S /\ F \subseteq DOMAIN S
  BY MidFacts
<1>4. \A c \in U : c \notin F
  BY DEF Mid
<1>5. Undisturbed(k, h, S, U)
  BY <1>2, <1>3, <1>4, LinksDisturbNothing
<1> QED BY <1>2, <1>5

(* The names of DoFree, *)
FreeParts(h, p, b, s, n, m, k, z, j, c) ==
    /\ b = p - Hdr /\ s = Size(h, b) /\ n = b + s
    /\ m = (n < h.brk /\ ~Used(h, n)) /\ k = (IF m THEN FlRemove(h, n) ELSE h)
    /\ z = s + (IF m THEN Size(h, n) ELSE 0)
    /\ j = (b > Start /\ ~Used(k, b - Ftr))
    /\ c = b - Size(k, b - Ftr)

(* and what it is in terms of them. *)
FreeSteps(h, p, b, k, z, j, c) ==
    DoFree(h, p) = IF j THEN FlInsert(BlkSet(FlRemove(k, c), c, z + Size(k, b - Ftr), 0), c)
                   ELSE FlInsert(BlkSet(k, b, z, 0), b)

(* DoFree by its steps. *)
LEMMA DoFreeSteps ==
  ASSUME NEW h, NEW p, NEW b, NEW s, NEW n, NEW m, NEW k, NEW z, NEW j, NEW c,
         FreeParts(h, p, b, s, n, m, k, z, j, c)
  PROVE  FreeSteps(h, p, b, k, z, j, c)
  BY Zenon DEF DoFree, FreeParts, FreeSteps

(* free gives back its block alone, whichever neighbours it merges with. *)
LEMMA FreeFreed ==
  ASSUME NEW h, NEW S, NEW U, Sound(h, S, U), NEW b \in U, NEW p, p = b + Hdr
  PROVE  Freed(DoFree(h, p), h, S, U, b)
<1> DEFINE F0 == DOMAIN S \ U
           n == b + S[b]
           m == n < h.brk /\ ~Used(h, n)
           k == IF m THEN FlRemove(h, n) ELSE h
           z == S[b] + (IF m THEN Size(h, n) ELSE 0)
           j == b > Start /\ ~Used(k, b - Ftr)
           c == b - Size(k, b - Ftr)
           y == IF m THEN n + S[n] ELSE n
           F1 == IF m THEN F0 \ {n} ELSE F0
<1>1. Mid(h, S, U, F0)
  BY DEF Sound
<1>2. /\ Partition(S, h.brk) /\ h.brk <= Top /\ h.brk \in Nat /\ h.end \in Nat
      /\ U \subseteq DOMAIN S /\ F0 \subseteq DOMAIN S /\ IsHeap(h)
      /\ Start \in Nat /\ Start <= h.brk
      /\ \A d \in DOMAIN S : d \in Nat /\ S[d] \in Nat /\ 4 <= S[d] /\ Start <= d /\ d + S[d] <= h.brk
                             /\ (d + S[d] \in DOMAIN S \/ d + S[d] = h.brk)
  BY <1>1, MidFacts
<1>3. b \in DOMAIN S /\ b \in Nat /\ S[b] \in Nat /\ 4 <= S[b] /\ n \in Nat /\ b < n /\ (n \in DOMAIN S \/ n = h.brk)
  BY <1>2
<1>4. m <=> n \in DOMAIN S /\ n \notin U
  <2>1. n \in DOMAIN S => n < h.brk
    BY <1>2
  <2>2. n \in DOMAIN S => (Used(h, n) <=> n \in U)
    BY <1>1, TagsRead
  <2> QED BY <2>1, <2>2, <1>3, <1>2
<1>5. /\ Mid(k, S, U, F1) /\ SameBounds(k, h) /\ Undisturbed(k, h, S, U)
  <2>1. CASE m
    <3>1. n \in F0
      BY <1>4, <2>1
    <3>2. k = FlRemove(h, n) /\ F1 = F0 \ {n}
      BY <2>1
    <3> HIDE DEF k, F0, F1, n, m
    <3> QED BY <3>1, <3>2, <1>1, ForwardRemoved
  <2>2. CASE ~m
    BY <2>2, <1>1 DEF SameBounds, Undisturbed
  <2> QED BY <2>1, <2>2
<1>6. /\ z = y - b /\ y \in Nat /\ b < y
      /\ y \in DOMAIN S \/ y = h.brk
      /\ y \in DOMAIN S => y \in U
      /\ \A d \in DOMAIN S : b < d /\ d < y => d \notin U
      /\ \A d \in DOMAIN S : d \in F1 <=> d \notin U /\ ~(b <= d /\ d < y)
  <2>0. \A d \in DOMAIN S : b < d => n <= d
    BY <1>2, <1>3 DEF Partition
  <2>1. CASE m
    <3>1. n \in DOMAIN S /\ n \notin U /\ S[n] \in Nat /\ 4 <= S[n]
      BY <2>1, <1>4, <1>2
    <3>2. Size(h, n) = S[n]
      BY <3>1, <1>1, TagsRead
    <3>3. y = n + S[n] /\ F1 = F0 \ {n} /\ z = S[b] + S[n]
      BY <2>1, <3>2
    <3> HIDE DEF y, F1, m, z
    <3>4. \A d \in DOMAIN S : n < d => y <= d
      BY <3>1, <3>3, <1>2 DEF Partition
    <3>5. y \in DOMAIN S => y \in U
      BY <3>1, <3>3 DEF Sound, Apart
    <3>6. z = y - b /\ y \in Nat /\ b < y /\ (y \in DOMAIN S \/ y = h.brk)
      BY <3>1, <3>3, <1>3, <1>2
    <3>7. \A d \in DOMAIN S : b < d /\ d < y => d \notin U
      <4> SUFFICES ASSUME NEW d \in DOMAIN S, b < d, d < y PROVE d \notin U
        OBVIOUS
      <4>1. d \in Nat /\ n <= d /\ ~(n < d)
        <5>1. d \in Nat
          BY <1>2
        <5>2. n <= d /\ (n < d => y <= d)
          BY <2>0, <3>4
        <5> HIDE DEF n
        <5> QED BY ONLY <5>1, <5>2, <3>6, d < y
      <4>2. d = n
        BY <4>1, <1>3
      <4> QED BY <4>2, <3>1
    <3>8. \A d \in DOMAIN S : d \in F1 <=> d \notin U /\ ~(b <= d /\ d < y)
      <4> SUFFICES ASSUME NEW d \in DOMAIN S PROVE d \in F1 <=> d \notin U /\ ~(b <= d /\ d < y)
        OBVIOUS
      <4>0. d \in Nat
        BY <1>2
      <4>1. CASE d = n
        BY <4>1, <3>1, <3>3, <1>3
      <4>2. CASE d # n
        <5>1. ~(b < d /\ d < y)
          BY <4>0, <4>2, <2>0, <3>4, <3>6, <1>3
        <5>2. d = b => d \in U
          OBVIOUS
        <5>3. d \in F1 <=> d \notin U
          BY <4>2, <3>3
        <5> QED BY <5>1, <5>2, <5>3, <4>0, <1>3
      <4> QED BY <4>1, <4>2
    <3> QED BY <3>5, <3>6, <3>7, <3>8
  <2>2. CASE ~m
    <3>1. y = n /\ F1 = F0 /\ z = S[b]
      BY <2>2, <1>3
    <3>2. n \in DOMAIN S => n \in U
      BY <2>2, <1>4
    <3> HIDE DEF y, F1, m, z
    <3>3. \A d \in DOMAIN S : d \in F1 <=> d \notin U /\ ~(b <= d /\ d < y)
      <4> SUFFICES ASSUME NEW d \in DOMAIN S PROVE d \in F1 <=> d \notin U /\ ~(b <= d /\ d < y)
        OBVIOUS
      <4>0. d \in Nat
        BY <1>2
      <4>1. ~(b < d /\ d < y)
        BY <4>0, <2>0, <3>1, <1>3
      <4>2. d = b => d \in U
        OBVIOUS
      <4>3. d \in F1 <=> d \notin U
        BY <3>1
      <4> QED BY <4>1, <4>2, <4>3, <4>0, <1>3
    <3>4. \A d \in DOMAIN S : b < d /\ d < y => d \notin U
      BY <2>0, <3>1, <1>2, <1>3
    <3> QED BY <3>1, <3>2, <3>3, <3>4, <1>3
  <2> QED BY <2>1, <2>2
<1>7. DoFree(h, p) = IF j THEN FlInsert(BlkSet(FlRemove(k, c), c, z + Size(k, b - Ftr), 0), c)
                     ELSE FlInsert(BlkSet(k, b, z, 0), b)
  <2>1. b = p - Hdr
    BY <1>3 DEF Hdr
  <2>2. S[b] = Size(h, b)
    BY <1>1, <1>3, TagsRead
  <2> DEFINE s == S[b]
  <2>3. s = Size(h, b) /\ n = b + s /\ z = s + (IF m THEN Size(h, n) ELSE 0)
    BY <2>2
  <2>4. m = (n < h.brk /\ ~Used(h, n)) /\ k = IF m THEN FlRemove(h, n) ELSE h
    OBVIOUS
  <2>5. j = (b > Start /\ ~Used(k, b - Ftr)) /\ c = b - Size(k, b - Ftr)
    OBVIOUS
  <2> HIDE DEF s, n, m, k, z, j, c
  <2>6. FreeParts(h, p, b, s, n, m, k, z, j, c)
    BY <2>1, <2>3, <2>4, <2>5, Zenon DEF FreeParts
  <2>7. FreeSteps(h, p, b, k, z, j, c)
    BY <2>6, DoFreeSteps, Zenon
  <2> QED BY <2>7 DEF FreeSteps
<1> HIDE DEF F1, y, z, m, k
<1>8. CASE j
  <2>0. b > Start
    BY <1>8
  <2>1. PICK d \in DOMAIN S : d + S[d] = b
    BY <2>0, <1>2, <1>3 DEF Partition
  <2>2. d \in Nat /\ S[d] \in Nat /\ 4 <= S[d] /\ (d + S[d]) - Ftr = b - Ftr /\ d + S[d] - Ftr = b - Ftr
    BY <2>1, <1>2, <1>3 DEF Ftr
  <2>3. Size(k, b - Ftr) = S[d] /\ (Used(k, b - Ftr) <=> d \in U)
    <3>1. Size(k, d + S[d] - Ftr) = S[d] /\ (Used(k, d + S[d] - Ftr) <=> d \in U)
      BY <1>5, TagsRead
    <3> QED BY <3>1, <2>2
  <2>4. d \notin U
    BY <1>8, <2>3
  <2>5. c = d /\ z + Size(k, b - Ftr) = y - d /\ d < b
    BY <2>1, <2>2, <2>3, <1>3, <1>6
  <2> DEFINE f == FlRemove(k, d)
             F2 == F1 \ {d}
             size == z + Size(k, b - Ftr)
  <2>6. d \in F1
    BY <2>4, <2>5, <1>6, <2>2, <1>3
  <2>7. Mid(f, S, U, F2) /\ SameBounds(f, k) /\ Undisturbed(f, k, S, U)
    <3>1. f = FlRemove(k, d)
      OBVIOUS
    <3> HIDE DEF f
    <3> QED BY <3>1, <2>6, <1>5, ForwardRemoved
  <2>8. SameBounds(f, h) /\ Undisturbed(f, h, S, U)
    <3> HIDE DEF f
    <3> QED BY <2>7, <1>5, UndisturbedChains DEF SameBounds
  <2>9. Region(S, U, h.brk, b, d, y)
    <3>1. \A e \in DOMAIN S : d <= e /\ e < y /\ e # b => e \notin U
      <4> SUFFICES ASSUME NEW e \in DOMAIN S, d <= e, e < y, e # b PROVE e \notin U
        OBVIOUS
      <4>0. e \in Nat
        BY <1>2
      <4>1. CASE b < e
        BY <4>1, <1>6
      <4>2. CASE e < b
        <5>1. ~(d < e)
          <6>1. d < e => d + S[d] <= e
            BY <1>2 DEF Partition
          <6> QED BY <6>1, <2>1, <4>2, <4>0, <1>3
        <5>2. e = d
          BY <5>1, <4>0, <2>2
        <5> QED BY <5>2, <2>4
      <4> QED BY <4>0, <4>1, <4>2, <1>3
    <3>2. \A e \in DOMAIN S : e + S[e] = d => e \in U
      BY <2>4 DEF Sound, Apart
    <3>3. d <= b
      BY <2>5, <2>2, <1>3
    <3> QED BY <3>1, <3>2, <3>3, <1>6 DEF Region
  <2>10. FreeOutside(F2, S, U, d, y)
    <3>1. ASSUME NEW e \in F2 PROVE e \in Outside(DOMAIN S \ U, d, y)
      <4>1. e \in DOMAIN S /\ e \in F1 /\ e # d
        BY <1>5, MidFacts
      <4>2. e \in Nat /\ e \notin U /\ ~(b <= e /\ e < y)
        BY <4>1, <1>6, <1>2
      <4>3. d < e => b <= e
        <5>1. d < e => d + S[d] <= e
          BY <1>2, <4>1 DEF Partition
        <5> QED BY <5>1, <2>1
      <4>4. e < d \/ y <= e
        BY <4>1, <4>2, <4>3, <2>2, <1>3, <1>6
      <4> QED BY <4>1, <4>2, <4>4 DEF Outside
    <3>2. ASSUME NEW e \in Outside(DOMAIN S \ U, d, y) PROVE e \in F2
      <4>1. e \in DOMAIN S /\ e \notin U /\ (e < d \/ y <= e)
        BY DEF Outside
      <4>2. e \in Nat /\ ~(b <= e /\ e < y) /\ e # d
        <5>1. e \in Nat
          BY <4>1, <1>2
        <5>2. d < y /\ d < b /\ d \in Nat /\ b \in Nat /\ y \in Nat /\ b < y
          BY <2>2, <2>5, <1>3, <1>6
        <5> HIDE DEF F2
        <5> QED BY ONLY <5>1, <5>2, <4>1
      <4> QED BY <4>1, <4>2, <1>6
    <3>3. F2 = Outside(DOMAIN S \ U, d, y)
      BY <3>1, <3>2
    <3> QED BY <3>3 DEF FreeOutside
  <2>11. size = y - d
    BY <2>5
  <2>12. DoFree(h, p) = FlInsert(BlkSet(f, d, size, 0), d)
    BY <1>7, <1>8, <2>5
  <2> HIDE DEF f, F2, size
  <2>13. Freed(FlInsert(BlkSet(f, d, size, 0), d), h, S, U, b)
    BY <2>7, <2>8, <2>9, <2>10, <2>11, RegionFreed, Zenon
  <2> QED BY <2>12, <2>13
<1>9. CASE ~j
  <2>9. Region(S, U, h.brk, b, b, y)
    <3>1. \A e \in DOMAIN S : b <= e /\ e < y /\ e # b => e \notin U
      <4> SUFFICES ASSUME NEW e \in DOMAIN S, b <= e, e < y, e # b PROVE e \notin U
        OBVIOUS
      <4>1. b < e
        BY <1>2, <1>3
      <4> QED BY <4>1, <1>6
    <3>2. ASSUME NEW d \in DOMAIN S, d + S[d] = b PROVE d \in U
      <4>1. d \in Nat /\ S[d] \in Nat /\ 4 <= S[d] /\ d + S[d] - Ftr = b - Ftr /\ b > Start
        BY <3>2, <1>2, <1>3 DEF Ftr
      <4>2. Used(k, d + S[d] - Ftr) <=> d \in U
        BY <1>5, TagsRead
      <4> QED BY <4>1, <4>2, <1>9
    <3> QED BY <3>1, <3>2, <1>3, <1>6 DEF Region
  <2>10. FreeOutside(F1, S, U, b, y)
    <3>1. ASSUME NEW e \in F1 PROVE e \in Outside(DOMAIN S \ U, b, y)
      <4>1. e \in DOMAIN S
        BY <1>5, MidFacts
      <4>2. e \in Nat /\ e \notin U /\ ~(b <= e /\ e < y)
        BY <4>1, <1>6, <1>2
      <4> QED BY <4>1, <4>2, <1>3, <1>6 DEF Outside
    <3>2. ASSUME NEW e \in Outside(DOMAIN S \ U, b, y) PROVE e \in F1
      <4>1. e \in DOMAIN S /\ e \notin U /\ (e < b \/ y <= e)
        BY DEF Outside
      <4>2. e \in Nat /\ ~(b <= e /\ e < y)
        BY <4>1, <1>2, <1>3, <1>6
      <4> QED BY <4>1, <4>2, <1>6
    <3>3. F1 = Outside(DOMAIN S \ U, b, y)
      BY <3>1, <3>2
    <3> QED BY <3>3 DEF FreeOutside
  <2>11. z = y - b
    BY <1>6
  <2>12. DoFree(h, p) = FlInsert(BlkSet(k, b, z, 0), b)
    BY <1>7, <1>9
  <2>13. Freed(FlInsert(BlkSet(k, b, z, 0), b), h, S, U, b)
    BY <1>5, <2>9, <2>10, <2>11, RegionFreed, Zenon
  <2> QED BY <2>12, <2>13
<1> QED BY <1>8, <1>9

-----------------------------------------------------------------------------
(* The list as malloc follows it. *)

(* A set of naturals that is not empty has a least member. *)
LEMMA LeastNat ==
  ASSUME NEW T, T \subseteq Nat, T # {}
  PROVE  \E x \in T : \A y \in T : x <= y
<1> DEFINE R == OpToRel(<, Nat)
<1>1. IsWellFoundedOn(R, Nat)
  BY NatLessThanWellFounded, Zenon
<1>2. \A a, b \in Nat : a < b => <<a, b>> \in R
  BY Zenon DEF OpToRel
<1> HIDE DEF R
<1>3. \E x \in T : \A y \in T : ~(<<y, x>> \in R)
  BY <1>1, WFMin, Zenon
<1>4. PICK x \in T : \A y \in T : ~(<<y, x>> \in R)
  BY <1>3
<1>5. \A y \in T : ~(y < x)
  BY <1>2, <1>4
<1> QED BY <1>5

(* Append adds one entry behind the others. *)
LEMMA AppendFacts ==
  ASSUME NEW X, NEW xs \in Seq(X), NEW x \in X
  PROVE  /\ Append(xs, x) \in Seq(X) /\ Len(Append(xs, x)) = Len(xs) + 1 /\ Len(xs) \in Nat
         /\ Append(xs, x)[Len(xs) + 1] = x
         /\ \A j \in 1..Len(xs) : Append(xs, x)[j] = xs[j]
         /\ DOMAIN xs = 1..Len(xs)
  OBVIOUS

(* One turn of the loop over the list. *)
ListStep(h, k, list) ==
    LET n == IF k = 1 THEN h.head
             ELSE IF list = <<>> THEN Null ELSE Link(h, list[Len(list)]).next
    IN  IF n = Null \/ Len(list) < k - 1 THEN list ELSE Append(list, n)

(* g has the list after 0, 1, ... n turns. *)
Lists(g, h, n) == g = [k \in 0..n |-> IF k = 0 THEN <<>> ELSE ListStep(h, k, g[k - 1])]

(* There is such a g. *)
LEMMA ListsExists ==
  ASSUME NEW h, NEW n \in Nat
  PROVE  \E g : Lists(g, h, n)
<1> DEFINE T == {k \in Nat : ~ \E g : Lists(g, h, k)}
<1> SUFFICES ASSUME T # {} PROVE FALSE
  OBVIOUS
<1>0. T \subseteq Nat
  OBVIOUS
<1>1. PICK k \in T : \A j \in T : k <= j
  <2> HIDE DEF T
  <2> QED BY <1>0, LeastNat
<1>2. k # 0
  <2> DEFINE z == [i \in 0..0 |-> <<>>]
  <2>1. Lists(z, h, 0)
    BY DEF Lists
  <2> QED BY <2>1
<1>3. k - 1 \in Nat /\ k - 1 \notin T
  BY <1>1, <1>2
<1>4. PICK g : Lists(g, h, k - 1)
  BY <1>3
<1> DEFINE f == [i \in 0..k |-> IF i = k THEN ListStep(h, k, g[k - 1]) ELSE g[i]]
<1>5. Lists(f, h, k)
  <2>1. ASSUME NEW i \in 0..k
        PROVE  f[i] = IF i = 0 THEN <<>> ELSE ListStep(h, i, f[i - 1])
    <3>1. CASE i = k
      <4>1. k - 1 \in 0..k /\ k - 1 # k /\ k \in 0..k
        BY <1>3
      <4>2. f[k - 1] = g[k - 1] /\ f[k] = ListStep(h, k, g[k - 1])
        BY <4>1
      <4> HIDE DEF f
      <4> QED BY <4>2, <3>1, <1>2
    <3>2. CASE i # k
      <4>1. i \in 0..(k - 1)
        BY <3>2
      <4>2. g[i] = IF i = 0 THEN <<>> ELSE ListStep(h, i, g[i - 1])
        BY <4>1, <1>4 DEF Lists
      <4>3. i # 0 => i - 1 \in 0..k /\ i - 1 # k
        BY <4>1
      <4>4. f[i] = g[i] /\ (i # 0 => f[i - 1] = g[i - 1])
        BY <3>2, <4>3
      <4> HIDE DEF f
      <4> QED BY <4>2, <4>4
    <3> QED BY <3>1, <3>2
  <2>2. f = [i \in 0..k |-> f[i]]
    OBVIOUS
  <2> HIDE DEF f
  <2>3. [i \in 0..k |-> f[i]] = [i \in 0..k |-> IF i = 0 THEN <<>> ELSE ListStep(h, i, f[i - 1])]
    BY <2>1
  <2> QED BY <2>2, <2>3 DEF Lists
<1> QED BY <1>5

(* FreeList is what MaxBlocks turns give. *)
LEMMA FreeListIs ==
  ASSUME NEW h
  PROVE  \E g : Lists(g, h, MaxBlocks) /\ FreeList(h) = g[MaxBlocks]
<1>0. MaxBlocks \in Nat
  <2>1. Top \in Nat
    BY BoundsFacts
  <2> QED BY <2>1 DEF MaxBlocks, Top, Hdr, MinPayload, Ftr
<1> DEFINE f == CHOOSE g : Lists(g, h, MaxBlocks)
<1>1. Lists(f, h, MaxBlocks)
  <2>1. \E g : Lists(g, h, MaxBlocks)
    BY <1>0, ListsExists
  <2> QED BY <2>1
<1>2. FreeList(h) = f[MaxBlocks]
  BY Zenon DEF FreeList, Lists, ListStep
<1> QED BY <1>1, <1>2

(* A list of m blocks is not longer than the memory allows. *)
LEMMA ListsAreShort ==
  ASSUME NEW h, NEW S, NEW U, NEW F, Mid(h, S, U, F), NEW m, NEW L, Linked(h.mem, h.head, m, L), Listed(F, m, L)
  PROVE  m \in Nat /\ m <= MaxBlocks /\ MaxBlocks \in Nat
<1>1. Top \in Nat /\ MaxBlocks = Top \div 4 /\ MaxBlocks \in Nat
  BY BoundsFacts DEF MaxBlocks, Top, Hdr, MinPayload, Ftr
<1>2. m \in Nat /\ \A i \in 1..m : L[i] \in Int /\ L[i] - Hdr \in DOMAIN S
  <2>1. m \in Nat /\ \A i \in 1..m : L[i] \in Addresses
    BY DEF Linked
  <2>2. \A i \in 1..m : L[i] - Hdr \in F
    BY DEF Listed
  <2>3. F \subseteq DOMAIN S
    BY MidFacts
  <2>4. \A a \in Addresses : a \in Int
    BY DEF Addresses
  <2> QED BY <2>1, <2>2, <2>3, <2>4
<1>3. \A i, j \in 1..m : L[i] = L[j] => i = j
  BY DEF Linked
<1>4. Partition(S, h.brk) /\ h.brk \in Nat /\ h.brk <= Top
  BY MidFacts
<1>5. \A c \in DOMAIN S : c \in Nat /\ S[c] \in Nat /\ 4 <= S[c] /\ c + S[c] <= h.brk
  BY MidFacts
<1> DEFINE f == [i \in 1..m |-> (L[i] - Hdr) \div 4]
<1>6. ASSUME NEW i \in 1..m PROVE f[i] \in 0..(MaxBlocks - 1)
  <2> DEFINE c == L[i] - Hdr
  <2>1. c \in Nat /\ c + 4 <= Top
    <3>1. c \in DOMAIN S
      BY <1>2
    <3> HIDE DEF c
    <3>2. c \in Nat /\ S[c] \in Nat /\ 4 <= S[c] /\ c + S[c] <= h.brk
      BY <3>1, <1>5
    <3>3. Top \in Nat
      BY <1>1
    <3> QED BY <3>2, <3>3, <1>4
  <2>2. f[i] = c \div 4
    OBVIOUS
  <2> HIDE DEF c, f
  <2> QED BY <2>1, <2>2, <1>1
<1>7. ASSUME NEW i \in 1..m, NEW j \in 1..m, f[i] = f[j] PROVE i = j
  <2> DEFINE c == L[i] - Hdr
             d == L[j] - Hdr
  <2>1. c \in DOMAIN S /\ d \in DOMAIN S /\ c \div 4 = d \div 4
    BY <1>7, <1>2
  <2>2. c \in Nat /\ d \in Nat /\ (c # d => c + 4 <= d \/ d + 4 <= c)
    <3> HIDE DEF c, d
    <3>1. c \in Nat /\ d \in Nat /\ S[c] \in Nat /\ S[d] \in Nat /\ 4 <= S[c] /\ 4 <= S[d]
      BY <2>1, <1>5
    <3>2. c # d => c + S[c] <= d \/ d + S[d] <= c
      BY <2>1, <1>4, BlocksApart
    <3> QED BY <3>1, <3>2
  <2>3. c = d
    <3> HIDE DEF c, d
    <3> QED BY <2>1, <2>2
  <2>4. L[i] = L[j]
    <3>1. L[i] \in Int /\ L[j] \in Int
      BY <1>2
    <3> QED BY <3>1, <2>3 DEF Hdr
  <2> QED BY <2>4, <1>3
<1>8. f \in Injection(1..m, 0..(MaxBlocks - 1))
  <2>1. f \in [1..m -> 0..(MaxBlocks - 1)]
    BY <1>6
  <2> HIDE DEF f
  <2> QED BY <2>1, <1>7 DEF Injection, IsInjective
<1>9. /\ IsFiniteSet(0..(MaxBlocks - 1)) /\ Cardinality(0..(MaxBlocks - 1)) = MaxBlocks
      /\ Cardinality(1..m) = m
  <2>1. MaxBlocks - 1 \in Int /\ 0 \in Int /\ 1 \in Int /\ m \in Int
    BY <1>1, <1>2
  <2>2. IsFiniteSet(0..(MaxBlocks - 1)) /\ Cardinality(0..(MaxBlocks - 1)) = IF 0 > MaxBlocks - 1 THEN 0 ELSE (MaxBlocks - 1) - 0 + 1
    BY <2>1, FS_Interval
  <2>3. Cardinality(1..m) = IF 1 > m THEN 0 ELSE m - 1 + 1
    BY <2>1, FS_Interval
  <2> QED BY <2>2, <2>3, <1>1, <1>2
<1> HIDE DEF f
<1>10. Cardinality(1..m) <= Cardinality(0..(MaxBlocks - 1))
  BY <1>8, <1>9, FS_Injection
<1> QED BY <1>10, <1>9, <1>1, <1>2

(* The smaller of the two. *)
Least(k, m) == IF k < m THEN k ELSE m

(* list has the first k of the m entries of L. *)
Begins(list, k, m, L) ==
    list \in Seq(Addresses \ {Null}) /\ Len(list) = Least(k, m) /\ \A i \in 1..Len(list) : list[i] = L[i]

(* A turn of the loop adds the next entry, or is past the end. *)
LEMMA ListStepBegins ==
  ASSUME NEW h, NEW m, NEW L, Linked(h.mem, h.head, m, L), NEW k \in Nat \ {0},
         NEW list, Begins(list, k - 1, m, L)
  PROVE  Begins(ListStep(h, k, list), k, m, L)
<1> DEFINE n == IF k = 1 THEN h.head
                ELSE IF list = <<>> THEN Null ELSE Link(h, list[Len(list)]).next
           A == Addresses \ {Null}
<1>1. /\ m \in Nat /\ h.head = IF m = 0 THEN Null ELSE L[1]
      /\ \A i \in 1..m : L[i] \in A /\ h.mem[L[i]][2] = IF i = m THEN Null ELSE L[i + 1]
  BY DEF Linked
<1>2. /\ list \in Seq(A) /\ Len(list) \in Nat /\ Len(list) = IF k - 1 < m THEN k - 1 ELSE m
      /\ \A i \in 1..Len(list) : list[i] = L[i]
  BY DEF Begins, Least
<1> HIDE DEF A
<1>3. CASE m < k
  <2>1. Len(list) = m
    BY <1>3, <1>1, <1>2
  <2>2. n = Null \/ Len(list) < k - 1
    <3>1. CASE m < k - 1
      BY <3>1, <2>1
    <3>2. CASE ~(m < k - 1)
      <4>0. m = k - 1
        BY <3>2, <1>3, <1>1
      <4>1. CASE m = 0
        BY <4>0, <4>1, <1>1
      <4>2. CASE m # 0
        <5>1. k # 1 /\ list # <<>> /\ list[Len(list)] = L[m] /\ m \in 1..m
          BY <4>0, <4>2, <2>1, <1>1, <1>2
        <5>2. n = Link(h, L[m]).next
          BY <5>1
        <5>3. Link(h, L[m]).next = Null
          BY <5>1, <1>1 DEF Link
        <5> QED BY <5>2, <5>3
      <4> QED BY <4>1, <4>2
    <3> QED BY <3>1, <3>2
  <2>3. ListStep(h, k, list) = list
    BY <2>2, Zenon DEF ListStep
  <2>4. Len(list) = Least(k, m)
    BY <2>1, <1>3, <1>1 DEF Least
  <2> QED BY <2>3, <2>4, <1>2 DEF Begins, A
<1>4. CASE ~(m < k)
  <2>1. Len(list) = k - 1 /\ k \in 1..m
    BY <1>4, <1>1, <1>2
  <2>2. n = L[k]
    <3>1. CASE k = 1
      BY <3>1, <2>1, <1>1
    <3>2. CASE k # 1
      <4>1. list # <<>> /\ list[Len(list)] = L[k - 1] /\ k - 1 \in 1..m /\ k - 1 # m /\ (k - 1) + 1 = k
        BY <3>2, <2>1, <1>1, <1>2
      <4>2. n = Link(h, L[k - 1]).next
        BY <3>2, <4>1
      <4>3. h.mem[L[k - 1]][2] = L[k]
        BY <4>1, <1>1
      <4>4. Link(h, L[k - 1]).next = L[k]
        BY <4>3 DEF Link
      <4> QED BY <4>2, <4>4
    <3> QED BY <3>1, <3>2
  <2>3. L[k] \in A /\ L[k] # Null
    BY <2>1, <1>1 DEF A
  <2>4. ListStep(h, k, list) = Append(list, n)
    <3>1. ~(n = Null \/ Len(list) < k - 1)
      BY <2>1, <2>2, <2>3
    <3> QED BY <3>1, Zenon DEF ListStep
  <2> HIDE DEF n
  <2> DEFINE t == Append(list, L[k])
  <2>5. t \in Seq(A) /\ Len(t) = k /\ t[k] = L[k] /\ \A i \in 1..(k - 1) : t[i] = list[i]
    <3>1. t \in Seq(A) /\ Len(t) = Len(list) + 1 /\ t[Len(list) + 1] = L[k] /\ \A i \in 1..Len(list) : t[i] = list[i]
      BY <2>3, <1>2, AppendFacts
    <3> HIDE DEF t
    <3> QED BY <3>1, <2>1
  <2>6. ListStep(h, k, list) = t
    BY <2>2, <2>4
  <2> HIDE DEF t
  <2>7. Len(t) = Least(k, m)
    BY <2>5, <1>4, <1>1 DEF Least
  <2>8. \A i \in 1..Len(t) : t[i] = L[i]
    <3> SUFFICES ASSUME NEW i \in 1..k PROVE t[i] = L[i]
      BY <2>5
    <3>1. i = k \/ i \in 1..(k - 1)
      OBVIOUS
    <3> QED BY <3>1, <2>5, <2>1, <1>2
  <2> QED BY <2>5, <2>6, <2>7, <2>8 DEF Begins, A
<1> QED BY <1>3, <1>4

(* list is the sequence of the m entries of L. *)
ListIs(list, m, L) == DOMAIN list = 1..m /\ Len(list) = m /\ \A i \in 1..m : list[i] = L[i]

(* malloc looks at every block of the list, in its order. *)
LEMMA FreeListFollows ==
  ASSUME NEW h, NEW S, NEW U, NEW F, Mid(h, S, U, F), NEW m, NEW L, Linked(h.mem, h.head, m, L), Listed(F, m, L)
  PROVE  ListIs(FreeList(h), m, L)
<1>1. m \in Nat /\ m <= MaxBlocks /\ MaxBlocks \in Nat
  BY ListsAreShort
<1>2. PICK g : Lists(g, h, MaxBlocks) /\ FreeList(h) = g[MaxBlocks]
  BY FreeListIs
<1>3. \A k \in 0..MaxBlocks : g[k] = IF k = 0 THEN <<>> ELSE ListStep(h, k, g[k - 1])
  BY <1>2 DEF Lists
<1> DEFINE T == {k \in 0..MaxBlocks : ~Begins(g[k], k, m, L)}
<1>4. T = {}
  <2> SUFFICES ASSUME T # {} PROVE FALSE
    OBVIOUS
  <2>0. T \subseteq Nat
    OBVIOUS
  <2>1. PICK k \in T : \A j \in T : k <= j
    <3> HIDE DEF T
    <3> QED BY <2>0, LeastNat
  <2>2. k \in 0..MaxBlocks /\ ~Begins(g[k], k, m, L)
    OBVIOUS
  <2>3. k # 0
    <3>1. Begins(<<>>, 0, m, L)
      BY <1>1 DEF Begins, Least
    <3> QED BY <3>1, <2>2, <1>3
  <2>4. k \in Nat \ {0} /\ k - 1 \in 0..MaxBlocks
    BY <2>2, <2>3, <1>1
  <2>5. k - 1 \notin T
    BY <2>1, <2>4
  <2>6. Begins(g[k - 1], k - 1, m, L)
    BY <2>4, <2>5
  <2> HIDE DEF T
  <2>7. Begins(ListStep(h, k, g[k - 1]), k, m, L)
    BY <2>4, <2>6, ListStepBegins
  <2> QED BY <2>7, <2>2, <2>3, <1>3
<1>5. Begins(g[MaxBlocks], MaxBlocks, m, L)
  BY <1>1, <1>4
<1> HIDE DEF T
<1>6. Least(MaxBlocks, m) = m
  BY <1>1 DEF Least
<1> DEFINE list == FreeList(h)
<1>7. list \in Seq(Addresses \ {Null}) /\ Len(list) = m /\ \A i \in 1..Len(list) : list[i] = L[i]
  BY <1>5, <1>6, <1>2 DEF Begins
<1>8. ListIs(list, m, L)
  <2> HIDE DEF list
  <2> QED BY <1>7 DEF ListIs
<1> QED BY <1>8

-----------------------------------------------------------------------------
(* malloc. *)

(* b is given out: a block in use of at least total cells, the others as they were. *)
Given(g, h, S, U, b, total) ==
    \E T : /\ Sound(g, T, U \cup {b}) /\ b \notin U /\ b \in DOMAIN T /\ total <= T[b]
           /\ Kept(T, S, U) /\ Undisturbed(g, h, S, U)

(* Writing a block that is not in use changes none that is. *)
LEMMA KeptApart ==
  ASSUME NEW S, NEW hi, Partition(S, hi), hi <= Top, NEW U, U \subseteq DOMAIN S, NEW b \in DOMAIN S, b \notin U,
         NEW y, y = b + S[b],
         NEW g, NEW h, \A a \in Addresses : a \notin b..(y - 1) => g.mem[a] = h.mem[a]
  PROVE  Undisturbed(g, h, S, U)
<1>1. b \in Nat /\ S[b] \in Nat /\ y \in Nat
  BY BlockCells
<1>2. \A c \in U : c + S[c] <= b \/ y <= c
  <2> SUFFICES ASSUME NEW c \in U PROVE c + S[c] <= b \/ y <= c
    OBVIOUS
  <2>1. c \in DOMAIN S /\ c # b
    OBVIOUS
  <2> QED BY <2>1, BlocksApart
<1> QED BY <1>1, <1>2, RegionDisturbsNothing

(* A free block given out as it is, *)
LEMMA TakenWhole ==
  ASSUME NEW h, NEW S, NEW U, Sound(h, S, U), NEW b \in DOMAIN S, b \notin U, NEW total, total <= S[b],
         NEW k, k = FlRemove(h, b), NEW size, size = S[b]
  PROVE  Given(BlkSet(k, b, size, 1), h, S, U, b, total)
<1> DEFINE F == DOMAIN S \ U
           F1 == F \ {b}
           y == b + S[b]
           T == Merged(S, b, y)
           V == TaggedUsed(Outside(U, b, y), b, 1)
           g == BlkSet(k, b, size, 1)
<1>1. Mid(h, S, U, F) /\ b \in F
  BY DEF Sound
<1>2. Mid(k, S, U, F1) /\ SameBounds(k, h) /\ Undisturbed(k, h, S, U)
  <2> HIDE DEF F
  <2> QED BY <1>1, ForwardRemoved
<1>3. /\ Partition(S, h.brk) /\ h.brk <= Top /\ h.brk \in Nat /\ U \subseteq DOMAIN S /\ k.brk = h.brk
      /\ b \in Nat /\ S[b] \in Nat /\ 4 <= S[b]
      /\ (y \in DOMAIN S \/ y = k.brk) /\ b < y /\ size = y - b
      /\ \A c \in DOMAIN S : c \in Nat /\ (b < c => y <= c)
  <2>1. /\ Partition(S, h.brk) /\ h.brk <= Top /\ h.brk \in Nat /\ U \subseteq DOMAIN S /\ k.brk = h.brk
        /\ b \in Nat /\ S[b] \in Nat /\ 4 <= S[b] /\ (y \in DOMAIN S \/ y = k.brk)
        /\ \A c \in DOMAIN S : c \in Nat
    BY <1>1, <1>2, MidFacts DEF SameBounds
  <2>2. \A c \in DOMAIN S : b < c => y <= c
    BY <2>1 DEF Partition
  <2>3. b < y /\ size = y - b
    BY <2>1
  <2> QED BY <2>1, <2>2, <2>3
<1>4. \A c \in DOMAIN S : b <= c /\ c < y => c = b
  <2> HIDE DEF y
  <2> QED BY <1>3
<1>5. /\ DOMAIN T = {c \in DOMAIN S : c < b \/ y <= c} \cup {b}
      /\ \A c \in DOMAIN T : T[c] = IF c = b THEN y - b ELSE S[c]
  BY DEF Merged
<1>y. y = b + S[b]
  OBVIOUS
<1>6. Mid(g, T, V, F1) /\ SameBounds(g, k) /\ \A a \in Addresses : a \notin b..(y - 1) => g.mem[a] = k.mem[a]
  <2>1. \A c \in DOMAIN S : b <= c /\ c < y => c \notin F1
    BY <1>4
  <2>2. 1 \in {0, 1}
    OBVIOUS
  <2> HIDE DEF F1, y
  <2>3. MergedTo(BlkSet(k, b, size, 1), k, S, U, F1, b, y, 1)
    BY <1>2, <1>3, <2>1, <2>2, MidMerged, Zenon
  <2> HIDE DEF g
  <2> QED BY <2>3 DEF MergedTo, g
<1> HIDE DEF T, g, y
<1>7. DOMAIN T = DOMAIN S /\ \A c \in DOMAIN S : T[c] = S[c]
  <2>1. DOMAIN T = DOMAIN S
    <3>1. \A c \in DOMAIN S : c < b \/ y <= c \/ c = b
      BY <1>3
    <3> QED BY <3>1, <1>5
  <2>2. y - b = S[b]
    BY <1>y, <1>3
  <2> QED BY <2>1, <2>2, <1>5
<1>8. V = U \cup {b}
  <2>1. \A c \in U : c < b \/ y <= c
    <3> SUFFICES ASSUME NEW c \in U PROVE c < b \/ y <= c
      OBVIOUS
    <3>1. c \in DOMAIN S /\ c # b /\ c \in Nat
      BY <1>3
    <3> QED BY <3>1, <1>4, <1>3
  <2> QED BY <2>1 DEF TaggedUsed, Outside
<1>9. F1 = DOMAIN T \ (U \cup {b})
  BY <1>7
<1> HIDE DEF V, F1
<1>10. Apart(T, U \cup {b})
  BY <1>7, <1>3 DEF Apart, Sound
<1>11. Sound(g, T, U \cup {b})
  BY <1>6, <1>8, <1>9, <1>10 DEF Sound
<1>12. Kept(T, S, U) /\ b \in DOMAIN T /\ total <= T[b]
  BY <1>7, <1>3 DEF Kept
<1>13. Undisturbed(g, h, S, U)
  <2>1. Undisturbed(g, k, S, U)
    <3> QED BY <1>6, <1>y, <1>3, KeptApart
  <2> QED BY <2>1, <1>2, UndisturbedChains
<1>14. Given(g, h, S, U, b, total)
  BY <1>11, <1>12, <1>13 DEF Given
<1> QED BY <1>14 DEF g

(* or divided, with the rest back on the list. *)
LEMMA TakenPart ==
  ASSUME NEW h, NEW S, NEW U, Sound(h, S, U), NEW b \in DOMAIN S, b \notin U, NEW total \in Nat,
         Hdr + MinPayload + Ftr <= total,
         NEW k, k = FlRemove(h, b), NEW rest, rest = S[b] - total, Hdr + MinPayload + Ftr <= rest,
         NEW f, f = BlkSet(k, b, total, 1), NEW g, g = BlkSet(f, b + total, rest, 0)
  PROVE  Given(FlInsert(g, b + total), h, S, U, b, total)
<1> DEFINE F == DOMAIN S \ U
           F1 == F \ {b}
           n == b + total
           y == b + S[b]
           T == Divided(S, b, total)
           V == U \cup {b}
           e == FlInsert(g, n)
<1>1. Mid(h, S, U, F) /\ b \in F
  BY DEF Sound
<1>2. Mid(k, S, U, F1) /\ SameBounds(k, h) /\ Undisturbed(k, h, S, U)
  <2> HIDE DEF F
  <2> QED BY <1>1, ForwardRemoved
<1>3. /\ Partition(S, h.brk) /\ h.brk <= Top /\ h.brk \in Nat /\ U \subseteq DOMAIN S /\ k.brk = h.brk
      /\ \A c \in DOMAIN S : c \in Nat /\ S[c] \in Nat /\ 4 <= S[c] /\ c + S[c] <= h.brk
                             /\ (c + S[c] \in DOMAIN S \/ c + S[c] = h.brk)
  BY <1>1, <1>2, MidFacts DEF SameBounds
<1>4. b \in Nat /\ S[b] \in Nat /\ b + S[b] <= h.brk /\ b < n /\ n < b + S[b] /\ n + rest = b + S[b] /\ n \in Nat /\ y = b + S[b]
  <2>1. b \in Nat /\ S[b] \in Nat /\ b + S[b] <= h.brk
    BY <1>3
  <2> QED BY <2>1 DEF Hdr, MinPayload, Ftr
<1>5. /\ Mid(g, T, V, F1) /\ SameBounds(g, k)
      /\ \A a \in Addresses : a \notin b..(y - 1) => g.mem[a] = k.mem[a]
      /\ n \notin DOMAIN S
  <2>1. b \notin F1 /\ y = b + S[b]
    OBVIOUS
  <2> HIDE DEF F1, y
  <2>2. DividedTo(g, k, S, U, F1, b, total, y)
    BY <1>2, <2>1, MidDivided, Zenon
  <2> QED BY <2>2 DEF DividedTo
<1>6. /\ DOMAIN T = DOMAIN S \cup {n}
      /\ \A c \in DOMAIN T : T[c] = IF c = b THEN total ELSE IF c = n THEN S[b] - total ELSE S[c]
  BY DEF Divided
<1>n. n = b + total
  OBVIOUS
<1> HIDE DEF T, n, y
<1>7. n \in DOMAIN T /\ n \notin V /\ n \notin F1
  BY <1>5, <1>6, <1>3, <1>4
<1> HIDE DEF V
<1>8. Mid(e, T, V, F1 \cup {n}) /\ SameBounds(e, g) /\ LinksOnly(e, g, F1 \cup {n})
  <2> HIDE DEF F1
  <2>1. MidInsertedTo(FlInsert(g, n), g, T, V, F1, n)
    BY <1>5, <1>7, MidInserted, Zenon
  <2> HIDE DEF e
  <2> QED BY <2>1 DEF MidInsertedTo, e
<1> HIDE DEF e
<1>9. F1 \cup {n} = DOMAIN T \ V
  BY <1>6, <1>7, <1>5 DEF V
<1>10. Apart(T, V)
  <2> SUFFICES ASSUME NEW c \in DOMAIN T, c \notin V, c + T[c] \in DOMAIN T PROVE c + T[c] \in V
    BY DEF Apart
  <2>1. CASE c = n
    <3>1. T[c] = rest /\ c + T[c] = b + S[b]
      BY <2>1, <1>6, <1>4
    <3>2. b + S[b] \in DOMAIN S
      BY <3>1, <1>6, <1>4
    <3>3. b + S[b] \in U
      BY <3>2 DEF Sound, Apart
    <3> QED BY <3>1, <3>3 DEF V
  <2>2. CASE c # n
    <3>1. c \in DOMAIN S /\ T[c] = S[c] /\ c \notin U
      BY <2>2, <1>6 DEF V
    <3>2. c + S[c] \in DOMAIN S
      <4>1. c + S[c] \in DOMAIN S \/ c + S[c] = h.brk
        BY <3>1, <1>3
      <4>2. h.brk # n
        BY <1>4, <1>3
      <4> QED BY <4>1, <4>2, <3>1, <1>6
    <3>3. c + S[c] \in U
      BY <3>1, <3>2 DEF Sound, Apart
    <3> QED BY <3>1, <3>3 DEF V
  <2> QED BY <2>1, <2>2
<1>11. Sound(e, T, V)
  BY <1>8, <1>9, <1>10 DEF Sound
<1>12. Kept(T, S, U) /\ b \in DOMAIN T /\ total <= T[b]
  <2>1. T[b] = total /\ b \in DOMAIN T
    BY <1>6
  <2>2. \A c \in U : c \in DOMAIN S /\ c # b /\ c # n
    BY <1>3, <1>5
  <2>3. Kept(T, S, U)
    BY <2>2, <1>6 DEF Kept
  <2> QED BY <2>1, <2>3
<1>13. Undisturbed(e, h, S, U)
  <2>1. Undisturbed(g, k, S, U)
    BY <1>5, <1>3, <1>4, KeptApart
  <2>2. Undisturbed(e, g, S, U)
    <3>1. Undisturbed(e, g, T, U)
      <4> DEFINE FF == F1 \cup {n}
      <4>1. FF \subseteq DOMAIN T /\ \A c \in U : c \notin FF
        BY <1>6, <1>9, <1>7 DEF V
      <4>2. U \subseteq DOMAIN T
        BY <1>12 DEF Kept
      <4>3. Partition(T, e.brk) /\ e.brk <= Top
        BY <1>8, MidFacts
      <4>4. LinksOnly(e, g, FF)
        BY <1>8
      <4> HIDE DEF FF
      <4> QED BY <4>1, <4>2, <4>3, <4>4, LinksDisturbNothing
    <3>2. \A c \in U : T[c] = S[c]
      BY <1>12 DEF Kept
    <3> QED BY <3>1, <3>2 DEF Undisturbed
  <2> QED BY <2>1, <2>2, <1>2, UndisturbedChains
<1>14. Given(e, h, S, U, b, total)
  BY <1>11, <1>12, <1>13 DEF Given, V
<1> QED BY <1>14 DEF e, n

(* The size of a block is room enough, and does not wrap. *)
LEMMA TotalFacts ==
  ASSUME NEW req \in Nat, Fits(req), req <= 8 * Space - 16
  PROVE  /\ Total(req) \in Nat /\ Hdr + MinPayload + Ftr <= Total(req)
         /\ Cells(req) + Hdr + Ftr <= Total(req) /\ Top + Total(req) < Space
<1> DEFINE need == Cells(IF req = 0 THEN 1 ELSE req)
           whole == Hdr + (IF need < MinPayload THEN MinPayload ELSE need) + Ftr
<1>1. Top \in Nat /\ Space \in Nat \ {0}
  BY BoundsFacts, AllocAssumption
<1>2. Cells(req) \in Nat /\ need \in Nat /\ Cells(req) <= need /\ need <= Cells(req) + 1
  <2>1. Cells(req) \in Nat
    BY CellsFacts
  <2>2. CASE req = 0
    BY <2>1, <2>2 DEF Cells
  <2>3. CASE req # 0
    BY <2>1, <2>3
  <2> QED BY <2>2, <2>3
<1>3. Cells(req) + 4 + Top < Space
  BY <1>1, <1>2 DEF Fits, Top, Hdr, MinPayload, Ftr
<1> HIDE DEF need
<1>4. whole \in Nat /\ 4 <= whole /\ Cells(req) + 2 <= whole /\ whole <= Cells(req) + 4
  BY <1>2 DEF Hdr, MinPayload, Ftr
<1>5. Total(req) = whole % Space
  BY DEF Total, need
<1> HIDE DEF whole
<1>6. whole % Space = whole
  BY <1>1, <1>2, <1>3, <1>4
<1> QED BY <1>1, <1>2, <1>3, <1>4, <1>5, <1>6 DEF Hdr, MinPayload, Ftr

(* What heap_extend may come to. *)
Grown(x, h, n) ==
    \/ x.p = Null /\ x.h = h
    \/ /\ x.p = h.brk /\ x.p # Null /\ IsHeap(x.h) /\ x.h.inited = h.inited /\ x.h.head = h.head /\ x.h.mem = h.mem
       /\ x.h.brk = h.brk + n /\ x.h.end \in Nat /\ x.h.brk <= x.h.end /\ x.h.end <= Top

(* The break written. *)
LEMMA BrkOfHeap ==
  ASSUME NEW i, NEW b, NEW d, NEW f, NEW M, NEW k
  PROVE  [HeapOf(i, b, d, f, M) EXCEPT !.brk = k] = HeapOf(i, k, d, f, M)
  BY DEF HeapOf

(* The end written. *)
LEMMA EndOfHeap ==
  ASSUME NEW i, NEW b, NEW d, NEW f, NEW M, NEW e
  PROVE  [HeapOf(i, b, d, f, M) EXCEPT !.end = e] = HeapOf(i, b, e, f, M)
  BY DEF HeapOf

(* Both written. *)
LEMMA BrkWrites ==
  ASSUME NEW h, IsHeap(h), NEW k, NEW e
  PROVE  /\ [h EXCEPT !.brk = k] = HeapOf(h.inited, k, h.end, h.head, h.mem)
         /\ [h EXCEPT !.brk = k, !.end = e] = HeapOf(h.inited, k, e, h.head, h.mem)
         /\ IsHeap(HeapOf(h.inited, k, e, h.head, h.mem))
<1>0. h = HeapOf(h.inited, h.brk, h.end, h.head, h.mem)
  BY DEF IsHeap
<1>1. [h EXCEPT !.brk = k] = HeapOf(h.inited, k, h.end, h.head, h.mem)
  <2>1. [HeapOf(h.inited, h.brk, h.end, h.head, h.mem) EXCEPT !.brk = k] = HeapOf(h.inited, k, h.end, h.head, h.mem)
    BY BrkOfHeap
  <2> QED BY <1>0, <2>1, Zenon
<1>2. [h EXCEPT !.brk = k, !.end = e] = HeapOf(h.inited, k, e, h.head, h.mem)
  <2>1. [h EXCEPT !.brk = k, !.end = e] = [[h EXCEPT !.brk = k] EXCEPT !.end = e]
    OBVIOUS
  <2>2. [HeapOf(h.inited, k, h.end, h.head, h.mem) EXCEPT !.end = e] = HeapOf(h.inited, k, e, h.head, h.mem)
    BY EndOfHeap
  <2> QED BY <1>1, <2>1, <2>2, Zenon
<1>3. IsHeap(HeapOf(h.inited, k, e, h.head, h.mem))
  BY HeapOfHeap DEF IsHeap
<1> QED BY <1>1, <1>2, <1>3

(* heap_extend moves the break by the request within memory, or does nothing. *)
LEMMA ExtendGrows ==
  ASSUME NEW h, IsHeap(h), h.brk \in Nat, h.brk # Null, h.end \in Nat, h.brk <= h.end, h.end <= Top,
         NEW n \in Nat, Top + n < Space, NEW granted
  PROVE  Grown(HeapExtend(h, n, granted), h, n)
<1> DEFINE k == (h.brk + n) % Space
           pages == (h.brk + n - h.end + Page - 1) \div Page
           e == h.end + pages * Page
           one == [p |-> h.brk, h |-> [h EXCEPT !.brk = (@ + n) % Space]]
           two == [p |-> h.brk, h |-> [h EXCEPT !.brk = (@ + n) % Space, !.end = @ + pages * Page]]
           none == [p |-> Null, h |-> h]
<1>1. Top \in Nat /\ Space \in Nat \ {0} /\ Page \in Nat \ {0} /\ Top = Page * MaxPages
  BY BoundsFacts, AllocAssumption DEF Top
<1>2. k = h.brk + n
  BY <1>1
<1>3. HeapExtend(h, n, granted) = IF k <= h.end THEN one
                                  ELSE IF granted /\ e <= Page * MaxPages THEN two ELSE none
  BY Zenon DEF HeapExtend
<1>4. one = [p |-> h.brk, h |-> [h EXCEPT !.brk = k]] /\ two = [p |-> h.brk, h |-> [h EXCEPT !.brk = k, !.end = e]]
  OBVIOUS
<1> HIDE DEF k, one, two
<1>5. CASE k <= h.end
  <2> DEFINE g == HeapOf(h.inited, k, h.end, h.head, h.mem)
  <2>1. HeapExtend(h, n, granted) = [p |-> h.brk, h |-> g] /\ IsHeap(g)
    <3>1. [h EXCEPT !.brk = k] = g /\ IsHeap(g)
      BY BrkWrites
    <3> QED BY <3>1, <1>3, <1>4, <1>5
  <2>2. g.inited = h.inited /\ g.head = h.head /\ g.mem = h.mem /\ g.brk = k /\ g.end = h.end
    BY HeapOfFields
  <2> HIDE DEF g
  <2> DEFINE x == [p |-> h.brk, h |-> g]
  <2>3. x.p = h.brk /\ x.h = g
    OBVIOUS
  <2> HIDE DEF x
  <2>4. Grown(x, h, n)
    BY <2>1, <2>2, <2>3, <1>2, <1>5 DEF Grown
  <2> QED BY <2>1, <2>4 DEF x
<1>6. CASE ~(k <= h.end) /\ granted /\ e <= Page * MaxPages
  <2>0. e \in Nat /\ k <= e
    <3> DEFINE q == h.brk + n - h.end
    <3>1. q \in Nat /\ h.end + q = k
      BY <1>2, <1>6
    <3> HIDE DEF q, k
    <3>2. (q + Page - 1) \div Page \in Nat /\ q <= ((q + Page - 1) \div Page) * Page
      BY <3>1, <1>1, RoundsUp
    <3>3. pages = (q + Page - 1) \div Page
      BY DEF q
    <3> HIDE DEF pages
    <3>4. pages \in Nat /\ q <= pages * Page
      BY <3>2, <3>3
    <3> DEFINE w == pages * Page
    <3>5. w \in Nat /\ q <= w
      BY <3>4, <1>1
    <3> HIDE DEF w
    <3> QED BY <3>1, <3>5 DEF w
  <2> HIDE DEF e
  <2> DEFINE g == HeapOf(h.inited, k, e, h.head, h.mem)
  <2>1. HeapExtend(h, n, granted) = [p |-> h.brk, h |-> g] /\ IsHeap(g)
    <3>1. [h EXCEPT !.brk = k, !.end = e] = g /\ IsHeap(g)
      BY BrkWrites
    <3> QED BY <3>1, <1>3, <1>4, <1>6
  <2>2. g.inited = h.inited /\ g.head = h.head /\ g.mem = h.mem /\ g.brk = k /\ g.end = e
    BY HeapOfFields
  <2> HIDE DEF g
  <2> DEFINE x == [p |-> h.brk, h |-> g]
  <2>3. x.p = h.brk /\ x.h = g
    OBVIOUS
  <2> HIDE DEF x
  <2>4. Grown(x, h, n)
    BY <2>0, <2>1, <2>2, <2>3, <1>1, <1>2, <1>6 DEF Grown
  <2> QED BY <2>1, <2>4 DEF x
<1>7. CASE ~(k <= h.end) /\ ~(granted /\ e <= Page * MaxPages)
  <2>1. HeapExtend(h, n, granted) = none
    BY <1>3, <1>7
  <2>2. none.p = Null /\ none.h = h
    OBVIOUS
  <2> HIDE DEF none
  <2> QED BY <2>1, <2>2 DEF Grown
<1> QED BY <1>5, <1>6, <1>7

(* A block that fits is given out. *)
LEMMA TakeGives ==
  ASSUME NEW h, NEW S, NEW U, Sound(h, S, U), NEW b \in DOMAIN S, b \notin U, NEW total \in Nat,
         Hdr + MinPayload + Ftr <= total, total <= S[b]
  PROVE  Given(Take(h, b, total), h, S, U, b, total)
<1> DEFINE k == FlRemove(h, b)
           size == Size(h, b)
           rest == size - total
           f == BlkSet(k, b, total, 1)
           g == BlkSet(f, b + total, rest, 0)
<1>1. size = S[b] /\ S[b] \in Nat
  BY TagsRead, MidFacts DEF Sound
<1>2. Take(h, b, total) = IF rest >= Hdr + MinPayload + Ftr THEN FlInsert(g, b + total) ELSE BlkSet(k, b, size, 1)
  BY Zenon DEF Take
<1>3. k = FlRemove(h, b) /\ rest = S[b] - total /\ f = BlkSet(k, b, total, 1) /\ g = BlkSet(f, b + total, rest, 0)
  BY <1>1
<1> HIDE DEF k, size, f, g, rest
<1>4. CASE rest >= Hdr + MinPayload + Ftr
  <2>1. Hdr + MinPayload + Ftr <= rest
    BY <1>4
  <2>2. Given(FlInsert(g, b + total), h, S, U, b, total)
    BY <1>3, <2>1, TakenPart, Zenon
  <2> QED BY <1>2, <1>4, <2>2
<1>5. CASE ~(rest >= Hdr + MinPayload + Ftr)
  <2>2. Given(BlkSet(k, b, size, 1), h, S, U, b, total)
    BY <1>1, <1>3, TakenWhole, Zenon
  <2> QED BY <1>2, <1>5, <2>2
<1> QED BY <1>4, <1>5

(* A block at the break is given out. *)
LEMMA ExtensionGives ==
  ASSUME NEW h, NEW S, NEW U, Sound(h, S, U), NEW n \in Nat, Hdr + MinPayload + Ftr <= n,
         NEW e, IsHeap(e), e.inited = TRUE, e.head = h.head, e.mem = h.mem, e.brk = h.brk + n,
         e.end \in Nat, e.brk <= e.end, e.end <= Top, NEW b, b = h.brk
  PROVE  Given(BlkSet(e, b, n, 1), h, S, U, b, n)
<1> DEFINE F == DOMAIN S \ U
           T == Extended(S, b, n)
           V == U \cup {b}
           g == BlkSet(e, b, n, 1)
<1>1. Mid(h, S, U, F)
  BY DEF Sound
<1>2. /\ Partition(S, h.brk) /\ h.brk <= Top /\ h.brk \in Nat /\ U \subseteq DOMAIN S
      /\ \A c \in DOMAIN S : c \in Nat /\ S[c] \in Nat /\ 4 <= S[c] /\ c + S[c] <= h.brk
                             /\ (c + S[c] \in DOMAIN S \/ c + S[c] = h.brk)
  BY <1>1, MidFacts
<1>3. /\ Mid(g, T, V, F)
      /\ \A a \in Addresses : a < b => g.mem[a] = h.mem[a]
      /\ b \notin DOMAIN S
  <2> HIDE DEF F
  <2>1. ExtendedTo(BlkSet(e, b, n, 1), h, S, U, F, b, n)
    BY <1>1, MidExtended
  <2> QED BY <2>1 DEF ExtendedTo
<1>4. /\ DOMAIN T = DOMAIN S \cup {b}
      /\ \A c \in DOMAIN T : T[c] = IF c = b THEN n ELSE S[c]
  BY DEF Extended
<1> HIDE DEF T, g
<1>5. F = DOMAIN T \ V
  BY <1>3, <1>4
<1>6. Apart(T, V)
  <2> SUFFICES ASSUME NEW c \in DOMAIN T, c \notin V, c + T[c] \in DOMAIN T PROVE c + T[c] \in V
    BY DEF Apart
  <2>1. c \in DOMAIN S /\ c \notin U /\ T[c] = S[c]
    BY <1>4
  <2>2. c + S[c] \in DOMAIN S => c + S[c] \in U
    BY <2>1 DEF Sound, Apart
  <2>3. c + S[c] \in DOMAIN S \cup {b}
    BY <2>1, <1>4
  <2> QED BY <2>1, <2>2, <2>3
<1>7. Sound(g, T, V)
  BY <1>3, <1>5, <1>6 DEF Sound
<1>8. Kept(T, S, U) /\ b \in DOMAIN T /\ n <= T[b] /\ b \notin U
  <2>1. T[b] = n /\ b \in DOMAIN T
    BY <1>4
  <2>2. \A c \in U : c \in DOMAIN S /\ c # b
    BY <1>2, <1>3
  <2>3. Kept(T, S, U)
    BY <2>2, <1>4 DEF Kept
  <2> QED BY <2>1, <2>2, <2>3
<1>9. Undisturbed(g, h, S, U)
  <2> SUFFICES ASSUME NEW c \in U, NEW a \in c..(c + S[c] - 1) PROVE g.mem[a] = h.mem[a]
    BY DEF Undisturbed
  <2>1. c \in DOMAIN S
    BY <1>2
  <2>2. c \in Nat /\ S[c] \in Nat /\ c + S[c] <= h.brk /\ a \in Addresses
    BY <2>1, <1>2, BlockCells
  <2>3. a < b
    BY <2>2, <1>2
  <2> QED BY <2>2, <2>3, <1>3
<1>10. Given(g, h, S, U, b, n)
  BY <1>7, <1>8, <1>9 DEF Given, V
<1> QED BY <1>10 DEF g

(* What malloc may come to, from a heap that is ready. *)
Malloced(m, h, S, U, total) ==
    \/ m.p = Null /\ m.h = h
    \/ \E b \in Nat : m.p = b + Hdr /\ m.p # Null /\ Given(m.h, h, S, U, b, total)

(* The names of DoMalloc, and what it is in terms of them. *)
MallocSteps(m, h, req, total, list, fits, b, x) ==
    m = IF req > 8 * Space - 16 THEN [p |-> Null, h |-> h]
        ELSE IF fits # {} THEN [p |-> b + Hdr, h |-> Take(h, b, total)]
        ELSE IF x.p = Null THEN x
        ELSE [p |-> x.p + Hdr, h |-> BlkSet(x.h, x.p, total, 1)]

(* malloc gives out a block that was not in use, or none and the heap stays. *)
LEMMA MallocGives ==
  ASSUME NEW h0, NEW h, h = EnsureInit(h0), NEW S, NEW U, Sound(h, S, U),
         NEW req \in Nat, Fits(req), NEW granted
  PROVE  Malloced(DoMalloc(h0, req, granted), h, S, U, Total(req))
<1> DEFINE total == Total(req)
           list == FreeList(h)
           fits == {k \in DOMAIN list : Size(h, list[k] - Hdr) >= total}
           b == list[CHOOSE k \in fits : \A j \in fits : k <= j] - Hdr
           x == HeapExtend(h, total, granted)
           m == DoMalloc(h0, req, granted)
           F == DOMAIN S \ U
<1>1. MallocSteps(m, h, req, total, list, fits, b, x)
  BY Zenon DEF DoMalloc, MallocSteps
<1>2. Mid(h, S, U, F) /\ h.inited = TRUE
  BY DEF Sound, Mid
<1>3. /\ Partition(S, h.brk) /\ h.brk <= Top /\ h.brk \in Nat /\ h.end \in Nat /\ h.brk <= h.end /\ h.end <= Top /\ IsHeap(h)
      /\ h.brk # Null /\ \A c \in DOMAIN S : c \in Nat /\ S[c] \in Nat
  <2>1. /\ Partition(S, h.brk) /\ h.brk <= Top /\ h.brk \in Nat /\ h.end \in Nat /\ h.brk <= h.end /\ h.end <= Top /\ IsHeap(h)
        /\ Start <= h.brk /\ \A c \in DOMAIN S : c \in Nat /\ S[c] \in Nat
    <3> HIDE DEF F
    <3> QED BY <1>2, MidFacts
  <2>2. Start \in Nat /\ 1 <= Start
    BY BoundsFacts
  <2> QED BY <2>1, <2>2 DEF Null
<1>4. CASE req > 8 * Space - 16
  <2> DEFINE none == [p |-> Null, h |-> h]
  <2>1. m = none
    BY <1>1, <1>4 DEF MallocSteps
  <2>2. none.p = Null /\ none.h = h
    OBVIOUS
  <2> HIDE DEF m, none
  <2> QED BY <2>1, <2>2 DEF Malloced, m
<1>5. CASE ~(req > 8 * Space - 16)
  <2>0. Space \in Int
    BY BoundsFacts
  <2>1. total \in Nat /\ Hdr + MinPayload + Ftr <= total /\ Top + total < Space
    BY <2>0, <1>5, TotalFacts
  <2>2. PICK n, L : Linked(h.mem, h.head, n, L) /\ Listed(F, n, L)
    BY <1>2 DEF Mid, Chain
  <2>3. ListIs(list, n, L) /\ n \in Nat
    <3> HIDE DEF F
    <3> QED BY <1>2, <2>2, FreeListFollows, ListsAreShort
  <2> HIDE DEF list, total
  <2>4. CASE fits # {}
    <3> DEFINE k == CHOOSE i \in fits : \A j \in fits : i <= j
    <3>1. fits \subseteq Nat
      BY <2>3 DEF ListIs
    <3>2. \E i \in fits : \A j \in fits : i <= j
      <4> HIDE DEF fits
      <4> QED BY <3>1, <2>4, LeastNat
    <3>3. k \in fits
      <4> HIDE DEF fits
      <4> QED BY <3>2
    <3>4. b = list[k] - Hdr
      OBVIOUS
    <3> HIDE DEF k, b
    <3>5. k \in 1..n /\ list[k] = L[k] /\ Size(h, b) >= total
      BY <3>3, <3>4, <2>3 DEF ListIs
    <3>6. b \in DOMAIN S /\ b \notin U
      BY <3>4, <3>5, <2>2 DEF Listed
    <3>7. Size(h, b) = S[b]
      <4> HIDE DEF F
      <4> QED BY <3>6, <1>2, TagsRead
    <3>8. total <= S[b] /\ b \in Nat
      BY <3>5, <3>6, <3>7, <1>3
    <3>9. Given(Take(h, b, total), h, S, U, b, total)
      BY <3>6, <3>8, <2>1, TakeGives, Zenon
    <3> DEFINE y == [p |-> b + Hdr, h |-> Take(h, b, total)]
    <3>10. m = y
      BY <1>1, <1>5, <2>4 DEF MallocSteps
    <3>11. y.p = b + Hdr /\ y.h = Take(h, b, total)
      OBVIOUS
    <3>12. b + Hdr # Null
      BY <3>8 DEF Hdr, Null
    <3> HIDE DEF m, y
    <3>13. Malloced(m, h, S, U, total)
      BY <3>8, <3>9, <3>10, <3>11, <3>12 DEF Malloced
    <3> QED BY <3>13 DEF m, total
  <2>5. CASE fits = {}
    <3>1. Grown(x, h, total)
      BY <1>3, <2>1, ExtendGrows
    <3> HIDE DEF x, fits, b
    <3>2. CASE x.p = Null /\ x.h = h
      <4>1. m = x
        BY <1>1, <1>5, <2>5, <3>2 DEF MallocSteps
      <4> HIDE DEF m
      <4>2. Malloced(m, h, S, U, total)
        BY <4>1, <3>2 DEF Malloced
      <4> QED BY <4>2 DEF m, total
    <3>3. CASE ~(x.p = Null /\ x.h = h)
      <4>1. /\ x.p = h.brk /\ x.p # Null /\ IsHeap(x.h) /\ x.h.inited = h.inited /\ x.h.head = h.head /\ x.h.mem = h.mem
            /\ x.h.brk = h.brk + total /\ x.h.end \in Nat /\ x.h.brk <= x.h.end /\ x.h.end <= Top
        BY <3>1, <3>3 DEF Grown
      <4> DEFINE c == x.p
                 e == x.h
                 g == BlkSet(e, c, total, 1)
                 y == [p |-> c + Hdr, h |-> g]
      <4>2. /\ IsHeap(e) /\ e.inited = TRUE /\ e.head = h.head /\ e.mem = h.mem /\ e.brk = h.brk + total
            /\ e.end \in Nat /\ e.brk <= e.end /\ e.end <= Top /\ c = h.brk
        BY <4>1, <1>2
      <4>3. m = y
        BY <1>1, <1>5, <2>5, <4>1 DEF MallocSteps
      <4>4. y.p = c + Hdr /\ y.h = g
        OBVIOUS
      <4> HIDE DEF e, c, y, m
      <4>5. Given(g, h, S, U, c, total)
        BY <4>2, <2>1, ExtensionGives, Zenon
      <4>6. c \in Nat /\ c + Hdr # Null
        BY <4>2, <1>3 DEF Hdr, Null
      <4> HIDE DEF g
      <4>7. Malloced(m, h, S, U, total)
        BY <4>3, <4>4, <4>5, <4>6 DEF Malloced
      <4> QED BY <4>7 DEF m, total
    <3> QED BY <3>2, <3>3
  <2> QED BY <2>4, <2>5
<1> QED BY <1>4, <1>5

-----------------------------------------------------------------------------
(* The program's blocks and what it wrote. *)

(* The program's blocks R: exactly those in use, each with its data. *)
LiveOk(h, S, U, R) ==
    /\ \A r \in R : /\ r = [p |-> r.p, n |-> r.n, id |-> r.id] /\ r.p \in Nat /\ r.n \in Nat
                    /\ r.p - Hdr \in U /\ r.n + Hdr + Ftr <= S[r.p - Hdr]
                    /\ \A j \in 0..(r.n - 1) : h.mem[r.p + j] = <<"data", r.id, j>>
    /\ \A c \in U : \E r \in R : c = r.p - Hdr
    /\ \A r, s \in R : r.p = s.p => r = s

(* The heap between two calls, with the blocks R of the program. *)
Good(h, R) == \E S, U : Sound(h, S, U) /\ LiveOk(h, S, U, R)

(* The program's blocks survive what does not disturb them. *)
LEMMA LiveKept ==
  ASSUME NEW h, NEW S, NEW U, NEW R, Sound(h, S, U), NEW V, V \subseteq U, LiveOk(h, S, V, R),
         NEW g, NEW T, Kept(T, S, V), Undisturbed(g, h, S, V)
  PROVE  LiveOk(g, T, V, R)
<1>1. \A c \in V : c \in Nat /\ S[c] \in Nat /\ T[c] = S[c]
  BY MidFacts DEF Sound, Kept
<1>2. ASSUME NEW r \in R, NEW j \in 0..(r.n - 1) PROVE g.mem[r.p + j] = <<"data", r.id, j>>
  <2> DEFINE c == r.p - Hdr
  <2>1. c \in V /\ r.p \in Nat /\ r.n \in Nat /\ r.n + Hdr + Ftr <= S[c] /\ h.mem[r.p + j] = <<"data", r.id, j>>
    BY DEF LiveOk
  <2>2. r.p = c + 1
    BY <2>1 DEF Hdr
  <2> HIDE DEF c
  <2>3. r.p + j \in c..(c + S[c] - 1)
    BY <2>1, <2>2, <1>1 DEF Hdr, Ftr
  <2>4. g.mem[r.p + j] = h.mem[r.p + j]
    BY <2>1, <2>3 DEF Undisturbed
  <2> QED BY <2>1, <2>4
<1>3. \A r \in R : r.p - Hdr \in V /\ T[r.p - Hdr] = S[r.p - Hdr]
  BY <1>1 DEF LiveOk
<1> QED BY <1>2, <1>3 DEF LiveOk

(* One block fewer. *)
LEMMA LiveLess ==
  ASSUME NEW h, NEW S, NEW U, NEW R, LiveOk(h, S, U, R), NEW r \in R, NEW b, b = r.p - Hdr
  PROVE  LiveOk(h, S, U \ {b}, R \ {r})
<1>1. ASSUME NEW s \in R \ {r} PROVE s.p - Hdr # b
  <2>1. s.p \in Nat /\ r.p \in Nat /\ s.p # r.p
    BY DEF LiveOk
  <2> QED BY <2>1 DEF Hdr
<1>2. ASSUME NEW c \in U \ {b} PROVE \E s \in R \ {r} : c = s.p - Hdr
  <2>1. PICK s \in R : c = s.p - Hdr
    BY DEF LiveOk
  <2>2. s # r
    BY <2>1
  <2> QED BY <2>1, <2>2
<1> QED BY <1>1, <1>2 DEF LiveOk

(* A write inside a block in use. *)
Inside(g, h, S, c) ==
    /\ IsHeap(g) /\ SameBounds(g, h) /\ g.head = h.head
    /\ \A a \in Addresses : a \notin (c + 1)..(c + S[c] - 2) => g.mem[a] = h.mem[a]

(* The program writes its block: tags, links and other blocks stay. *)
LEMMA WrittenInside ==
  ASSUME NEW h, NEW S, NEW U, Sound(h, S, U), NEW c \in U, NEW g, Inside(g, h, S, c)
  PROVE  Sound(g, S, U) /\ Undisturbed(g, h, S, U \ {c})
<1> DEFINE F == DOMAIN S \ U
<1>1. Mid(h, S, U, F)
  BY DEF Sound
<1>2. /\ Partition(S, h.brk) /\ h.brk <= Top /\ h.brk \in Nat /\ U \subseteq DOMAIN S
      /\ h.end \in Nat /\ h.brk <= h.end /\ h.end <= Top
  BY <1>1, MidFacts
<1>3. \A d \in DOMAIN S : d \in Nat /\ S[d] \in Nat /\ 4 <= S[d]
  BY <1>1, MidFacts
<1>4. c \in DOMAIN S
  BY <1>2
<1>5. ASSUME NEW d \in DOMAIN S, NEW a \in Addresses, d # c, a \in d..(d + S[d] - 1)
      PROVE  g.mem[a] = h.mem[a]
  <2>1. c + S[c] <= d \/ d + S[d] <= c
    BY <1>2, <1>4, <1>5, BlocksApart
  <2>2. a \notin (c + 1)..(c + S[c] - 2)
    BY <2>1, <1>3, <1>4, <1>5
  <2> QED BY <2>2 DEF Inside
<1>6. ASSUME NEW d \in DOMAIN S
      PROVE  g.mem[d] = h.mem[d] /\ g.mem[d + S[d] - Ftr] = h.mem[d + S[d] - Ftr]
  <2>1. d \in Addresses /\ d + S[d] - Ftr \in Addresses /\ d \in Nat /\ S[d] \in Nat /\ 4 <= S[d]
    BY <1>2, <1>3, BlockCells
  <2>2. CASE d = c
    <3>1. d \notin (c + 1)..(c + S[c] - 2) /\ d + S[d] - Ftr \notin (c + 1)..(c + S[c] - 2)
      BY <2>1, <2>2 DEF Ftr
    <3> QED BY <2>1, <3>1 DEF Inside
  <2>3. CASE d # c
    <3>1. d \in d..(d + S[d] - 1) /\ d + S[d] - Ftr \in d..(d + S[d] - 1)
      BY <2>1 DEF Ftr
    <3> QED BY <2>1, <2>3, <3>1, <1>5
  <2> QED BY <2>2, <2>3
<1>7. Mid(g, S, U, F)
  <2>1. Tags(g.mem, S, U)
    BY <1>1, <1>6 DEF Mid, Tags
  <2>2. \A d \in F : g.mem[d + Hdr] = h.mem[d + Hdr]
    <3> SUFFICES ASSUME NEW d \in F PROVE g.mem[d + Hdr] = h.mem[d + Hdr]
      OBVIOUS
    <3>1. d \in DOMAIN S /\ d # c
      OBVIOUS
    <3>2. d + Hdr \in Addresses /\ d \in Nat /\ S[d] \in Nat /\ 4 <= S[d]
      BY <3>1, <1>2, BlockCells
    <3>3. d + Hdr \in d..(d + S[d] - 1)
      BY <3>2 DEF Hdr
    <3> QED BY <3>1, <3>2, <3>3, <1>5
  <2>3. IsHeap(g) /\ g.head = h.head /\ g.inited = TRUE /\ g.brk = h.brk /\ g.end = h.end
    BY <1>1 DEF Inside, SameBounds, Mid
  <2>4. F \subseteq DOMAIN S \ U
    OBVIOUS
  <2> HIDE DEF F
  <2> QED BY <1>1, <1>2, <2>1, <2>2, <2>3, <2>4, RestIsMid
<1>8. Sound(g, S, U)
  BY <1>7 DEF Sound
<1>9. Undisturbed(g, h, S, U \ {c})
  <2> SUFFICES ASSUME NEW d \in U \ {c}, NEW a \in d..(d + S[d] - 1) PROVE g.mem[a] = h.mem[a]
    BY DEF Undisturbed
  <2>1. d \in DOMAIN S
    BY <1>2
  <2>2. a \in Addresses
    BY <2>1, <1>2, BlockCells
  <2> QED BY <2>1, <2>2, <1>5
<1> QED BY <1>8, <1>9

(* The cells from first to n - 1 behind p hold the data of id. *)
FilledTo(g, h, p, id, first, n) ==
    /\ IsHeap(g) /\ SameBounds(g, h) /\ g.head = h.head
    /\ \A a \in Addresses : g.mem[a] = IF a - p \in first..(n - 1) THEN <<"data", id, a - p>> ELSE h.mem[a]

(* That is what Fill does. *)
LEMMA Filled ==
  ASSUME NEW h, IsHeap(h), NEW p, NEW id, NEW first, NEW n
  PROVE  FilledTo(Fill(h, p, id, first, n), h, p, id, first, n)
<1> DEFINE M == [a \in Addresses |-> IF a - p \in first..(n - 1) THEN <<"data", id, a - p>> ELSE h.mem[a]]
           g == Fill(h, p, id, first, n)
<1>1. g = [h EXCEPT !.mem = M]
  <2>1. DOMAIN h.mem = Addresses
    BY HeapDomain
  <2>2. g = [h EXCEPT !.mem = [a \in DOMAIN h.mem |-> IF a - p \in first..(n - 1) THEN <<"data", id, a - p>> ELSE h.mem[a]]]
    BY Zenon DEF Fill
  <2> QED BY <2>1, <2>2
<1>2. M = [a \in Addresses |-> M[a]]
  OBVIOUS
<1>3. \A a \in Addresses : M[a] = IF a - p \in first..(n - 1) THEN <<"data", id, a - p>> ELSE h.mem[a]
  OBVIOUS
<1> HIDE DEF M, g
<1>4. Rewritten(g, h, M)
  BY <1>1, <1>2, MemWrites
<1>5. FilledTo(g, h, p, id, first, n)
  BY <1>3, <1>4 DEF Rewritten, FilledTo
<1> QED BY <1>5 DEF g

(* The cells at q hold what those at p did. *)
CopiedTo(g, h, p, q, avail) ==
    /\ IsHeap(g) /\ SameBounds(g, h) /\ g.head = h.head
    /\ \A a \in Addresses : g.mem[a] = IF a - q \in 0..(avail - 1) THEN h.mem[p + a - q] ELSE h.mem[a]

(* That is what the memcpy of realloc does. *)
LEMMA CopiedCells ==
  ASSUME NEW h, IsHeap(h), NEW p, NEW q, NEW avail
  PROVE  CopiedTo(Copied(h, p, q, avail), h, p, q, avail)
<1> DEFINE M == [a \in Addresses |-> IF a - q \in 0..(avail - 1) THEN h.mem[p + a - q] ELSE h.mem[a]]
           g == Copied(h, p, q, avail)
<1>1. g = [h EXCEPT !.mem = M]
  <2>1. DOMAIN h.mem = Addresses
    BY HeapDomain
  <2>2. g = [h EXCEPT !.mem = [a \in DOMAIN h.mem |-> IF a - q \in 0..(avail - 1) THEN h.mem[p + a - q] ELSE h.mem[a]]]
    BY Zenon DEF Copied
  <2> QED BY <2>1, <2>2
<1>2. M = [a \in Addresses |-> M[a]]
  OBVIOUS
<1>3. \A a \in Addresses : M[a] = IF a - q \in 0..(avail - 1) THEN h.mem[p + a - q] ELSE h.mem[a]
  OBVIOUS
<1> HIDE DEF M, g
<1>4. Rewritten(g, h, M)
  BY <1>1, <1>2, MemWrites
<1>5. CopiedTo(g, h, p, q, avail)
  BY <1>3, <1>4 DEF Rewritten, CopiedTo
<1> QED BY <1>5 DEF g

(* The first cells of a block hold the data of their owner. *)
Written(h, p, id, m) == \A j \in 0..(m - 1) : h.mem[p + j] = <<"data", id, j>>

(* A block of the program's. *)
RecordOf(p, n, id) == [p |-> p, n |-> n, id |-> id]

(* A block just given out and written is a block of the program. *)
LEMMA Settled ==
  ASSUME NEW k, NEW T, NEW U, NEW b, b \notin U, Sound(k, T, U \cup {b}), NEW R, LiveOk(k, T, U, R),
         NEW p, p = b + Hdr, NEW id, NEW n \in Nat, NEW first \in Nat, n + Hdr + Ftr <= T[b], Written(k, p, id, first)
  PROVE  Good(Fill(k, p, id, first, n), R \cup {RecordOf(p, n, id)})
<1> DEFINE g == Fill(k, p, id, first, n)
           V == U \cup {b}
           r == RecordOf(p, n, id)
<1>1. /\ Partition(T, k.brk) /\ k.brk <= Top /\ b \in DOMAIN T /\ b \in Nat /\ T[b] \in Nat /\ 4 <= T[b]
      /\ p = b + 1 /\ IsHeap(k)
  <2>1. Mid(k, T, V, DOMAIN T \ V)
    BY DEF Sound
  <2> DEFINE F == DOMAIN T \ V
  <2> HIDE DEF F
  <2>2. Mid(k, T, V, F)
    BY <2>1 DEF F
  <2>3. Partition(T, k.brk) /\ k.brk <= Top /\ V \subseteq DOMAIN T /\ IsHeap(k)
    BY <2>2, MidFacts
  <2>4. \A c \in DOMAIN T : c \in Nat /\ T[c] \in Nat /\ 4 <= T[c]
    BY <2>2, MidFacts
  <2> QED BY <2>3, <2>4 DEF Hdr
<1>2. FilledTo(g, k, p, id, first, n)
  BY <1>1, Filled
<1> HIDE DEF g
<1>3. Inside(g, k, T, b)
  <2> SUFFICES ASSUME NEW a \in Addresses, a \notin (b + 1)..(b + T[b] - 2) PROVE g.mem[a] = k.mem[a]
    BY <1>2 DEF Inside, FilledTo
  <2>1. a \in Int
    BY DEF Addresses
  <2>2. a - p \notin first..(n - 1)
    BY <2>1, <1>1 DEF Hdr, Ftr
  <2> QED BY <2>2, <1>2 DEF FilledTo
<1>4. Sound(g, T, V) /\ Undisturbed(g, k, T, V \ {b})
  <2>1. b \in V
    OBVIOUS
  <2> HIDE DEF V
  <2>2. Sound(k, T, V)
    BY DEF V
  <2> QED BY <2>1, <2>2, <1>3, WrittenInside
<1>5. LiveOk(g, T, U, R)
  <2>1. V \ {b} = U
    OBVIOUS
  <2>2. Undisturbed(g, k, T, U) /\ U \subseteq V /\ Sound(k, T, V)
    BY <2>1, <1>4
  <2>3. Kept(T, T, U)
    BY <1>4 DEF Kept, Sound, Mid
  <2> HIDE DEF V
  <2> QED BY <2>2, <2>3, LiveKept
<1>6. /\ r = [p |-> r.p, n |-> r.n, id |-> r.id] /\ r.p = p /\ r.n = n /\ r.id = id
  BY DEF RecordOf
<1> HIDE DEF r
<1>7. ASSUME NEW j \in 0..(n - 1) PROVE g.mem[p + j] = <<"data", id, j>>
  <2>1. p + j \in Addresses
    <3>1. p + j \in b..(b + T[b] - 1)
      BY <1>1 DEF Hdr, Ftr
    <3> QED BY <3>1, <1>1, BlockCells
  <2>2. (p + j) - p = j
    BY <1>1
  <2>3. g.mem[p + j] = IF j \in first..(n - 1) THEN <<"data", id, j>> ELSE k.mem[p + j]
    BY <2>1, <2>2, <1>2 DEF FilledTo
  <2>4. CASE j < first
    <3>1. k.mem[p + j] = <<"data", id, j>>
      BY <2>4 DEF Written
    <3> QED BY <3>1, <2>3
  <2>5. CASE ~(j < first)
    BY <2>3, <2>5
  <2> QED BY <2>4, <2>5
<1>8. LiveOk(g, T, V, R \cup {r})
  <2>0. p - Hdr = b /\ p \in Nat
    BY <1>1 DEF Hdr
  <2>1. ASSUME NEW s \in R PROVE s.p # p
    <3>1. s.p - Hdr \in U
      BY <1>5 DEF LiveOk
    <3> QED BY <3>1, <2>0
  <2>2. \A c \in V : \E s \in R \cup {r} : c = s.p - Hdr
    BY <1>5, <1>6, <2>0 DEF LiveOk
  <2>3. \A s, t \in R \cup {r} : s.p = t.p => s = t
    BY <1>5, <1>6, <2>1 DEF LiveOk
  <2>4. ASSUME NEW s \in R \cup {r}
        PROVE  /\ s = [p |-> s.p, n |-> s.n, id |-> s.id] /\ s.p \in Nat /\ s.n \in Nat
               /\ s.p - Hdr \in V /\ s.n + Hdr + Ftr <= T[s.p - Hdr]
               /\ \A j \in 0..(s.n - 1) : g.mem[s.p + j] = <<"data", s.id, j>>
    <3>1. CASE s \in R
      BY <3>1, <1>5 DEF LiveOk
    <3>2. CASE s = r
      BY <3>2, <1>6, <2>0, <1>7
    <3> QED BY <3>1, <3>2
  <2> QED BY <2>2, <2>3, <2>4 DEF LiveOk
<1>9. Good(g, R \cup {r})
  BY <1>4, <1>8 DEF Good
<1> QED BY <1>9 DEF g, r

(* free keeps the invariant, *)
LEMMA FreedGood ==
  ASSUME NEW h, NEW R, Good(h, R), NEW r \in R
  PROVE  Good(DoFree(h, r.p), R \ {r})
<1>1. PICK S, U : Sound(h, S, U) /\ LiveOk(h, S, U, R)
  BY DEF Good
<1> DEFINE p == r.p
           b == p - Hdr
           g == DoFree(h, p)
<1>2. b \in U /\ p = b + Hdr
  <2>1. r.p \in Nat /\ r.p - Hdr \in U
    BY <1>1 DEF LiveOk
  <2> QED BY <2>1 DEF Hdr
<1>3. b = r.p - Hdr
  OBVIOUS
<1> HIDE DEF b, p
<1>4. Freed(g, h, S, U, b)
  BY <1>1, <1>2, FreeFreed
<1> HIDE DEF g
<1>5. PICK T : Sound(g, T, U \ {b}) /\ Kept(T, S, U \ {b}) /\ Undisturbed(g, h, S, U \ {b})
  BY <1>4 DEF Freed
<1>6. LiveOk(h, S, U \ {b}, R \ {r})
  BY <1>1, <1>3, LiveLess
<1>7. LiveOk(g, T, U \ {b}, R \ {r})
  <2> DEFINE V == U \ {b}
             Q == R \ {r}
  <2>1. V \subseteq U /\ LiveOk(h, S, V, Q) /\ Kept(T, S, V) /\ Undisturbed(g, h, S, V)
    BY <1>5, <1>6
  <2> HIDE DEF V, Q
  <2>2. LiveOk(g, T, V, Q)
    BY <2>1, <1>1, LiveKept
  <2> QED BY <2>2 DEF V, Q
<1>8. Good(g, R \ {r})
  BY <1>5, <1>7 DEF Good
<1> QED BY <1>8 DEF g, p

(* as does what malloc gives out once it is written. *)
LEMMA GivenGood ==
  ASSUME NEW h, NEW S, NEW U, NEW R, Sound(h, S, U), LiveOk(h, S, U, R),
         NEW k, NEW b \in Nat, NEW total, Given(k, h, S, U, b, total), NEW p, p = b + Hdr,
         NEW n \in Nat, n + Hdr + Ftr <= total, total \in Nat, NEW id
  PROVE  Good(Fill(k, p, id, 0, n), R \cup {RecordOf(p, n, id)})
<1>1. PICK T : /\ Sound(k, T, U \cup {b}) /\ b \notin U /\ b \in DOMAIN T /\ total <= T[b]
               /\ Kept(T, S, U) /\ Undisturbed(k, h, S, U)
  BY DEF Given
<1>2. LiveOk(k, T, U, R)
  BY <1>1, LiveKept
<1>3. n + Hdr + Ftr <= T[b]
  <2>1. T[b] \in Nat
    BY <1>1, MidFacts DEF Sound
  <2> QED BY <2>1, <1>1 DEF Hdr, Ftr
<1>4. Written(k, p, id, 0)
  BY DEF Written
<1>5. 0 \in Nat
  OBVIOUS
<1> QED BY <1>1, <1>2, <1>3, <1>4, <1>5, Settled

-----------------------------------------------------------------------------
(* realloc. *)

(* What the header of a block says there is room for, there is. *)
LEMMA RoomFacts ==
  ASSUME NEW h, NEW S, NEW U, NEW R, Sound(h, S, U), LiveOk(h, S, U, R), NEW r \in R,
         NEW b, b = r.p - Hdr, NEW avail, avail = Size(h, b) - Hdr - Ftr
  PROVE  /\ b \in U /\ b \in DOMAIN S /\ b \in Nat /\ r.p = b + Hdr /\ S[b] \in Nat /\ avail = S[b] - 2
         /\ avail \in Nat /\ r.n \in Nat /\ r.n <= avail /\ Size(h, b) = S[b] /\ Written(h, r.p, r.id, r.n)
<1> DEFINE F == DOMAIN S \ U
<1>1. Mid(h, S, U, F)
  BY DEF Sound
<1>2. /\ b \in U /\ r.p \in Nat /\ r.n \in Nat /\ r.n + Hdr + Ftr <= S[b] /\ Written(h, r.p, r.id, r.n)
  BY DEF LiveOk, Written
<1> HIDE DEF F
<1>3. b \in DOMAIN S /\ b \in Nat /\ S[b] \in Nat /\ 4 <= S[b]
  <2>1. U \subseteq DOMAIN S
    BY <1>1, MidFacts
  <2>2. b \in DOMAIN S
    BY <2>1, <1>2
  <2> QED BY <2>2, <1>1, MidFacts
<1>4. Size(h, b) = S[b]
  BY <1>1, <1>3, TagsRead
<1> QED BY <1>2, <1>3, <1>4 DEF Hdr, Ftr

(* realloc within the block keeps the invariant, *)
LEMMA GrownInPlace ==
  ASSUME NEW h, NEW R, Good(h, R), NEW r \in R, NEW n \in Nat,
         n <= 8 * (Size(h, r.p - Hdr) - Hdr - Ftr)
  PROVE  Good(Fill(h, r.p, r.id, r.n, Cells(n)), (R \ {r}) \cup {RecordOf(r.p, Cells(n), r.id)})
<1>1. PICK S, U : Sound(h, S, U) /\ LiveOk(h, S, U, R)
  BY DEF Good
<1> DEFINE b == r.p - Hdr
           avail == Size(h, b) - Hdr - Ftr
           V == U \ {b}
           Q == R \ {r}
           w == Cells(n)
           p == r.p
<1>2. b = r.p - Hdr /\ avail = Size(h, b) - Hdr - Ftr /\ n <= 8 * avail
  OBVIOUS
<1> HIDE DEF b, avail, p
<1>3. /\ b \in U /\ b \in DOMAIN S /\ b \in Nat /\ p = b + Hdr /\ S[b] \in Nat /\ avail = S[b] - 2
      /\ avail \in Nat /\ r.n \in Nat /\ r.n <= avail /\ Written(h, p, r.id, r.n)
  BY <1>1, <1>2, RoomFacts DEF p
<1>4. w \in Nat /\ w + Hdr + Ftr <= S[b]
  <2>1. w \in Nat /\ 8 * w <= n + 7
    BY CellsFacts
  <2> QED BY <2>1, <1>2, <1>3 DEF Hdr, Ftr
<1>5. LiveOk(h, S, V, Q)
  BY <1>1, <1>2, LiveLess
<1>6. V \cup {b} = U /\ b \notin V
  BY <1>3
<1> HIDE DEF V, Q, w
<1>7. Sound(h, S, V \cup {b})
  BY <1>1, <1>6
<1>8. Good(Fill(h, p, r.id, r.n, w), Q \cup {RecordOf(p, w, r.id)})
  BY <1>3, <1>4, <1>5, <1>6, <1>7, Settled
<1> QED BY <1>8 DEF p, w, Q

(* and so does realloc to another: the copy is made before the old block is freed. *)
LEMMA Moved ==
  ASSUME NEW h, NEW S, NEW U, NEW R, Sound(h, S, U), LiveOk(h, S, U, R), NEW r \in R, NEW n \in Nat,
         NEW c, c = r.p - Hdr, NEW avail, avail = Size(h, c) - Hdr - Ftr, n > 8 * avail,
         NEW k, NEW b \in Nat, NEW total \in Nat, Given(k, h, S, U, b, total), Cells(n) + Hdr + Ftr <= total,
         NEW q, q = b + Hdr
  PROVE  Good(Fill(Move(k, r.p, q, avail), q, r.id, r.n, Cells(n)), (R \ {r}) \cup {RecordOf(q, Cells(n), r.id)})
<1> DEFINE p == r.p
           w == Cells(n)
           f == Copied(k, p, q, avail)
           g == DoFree(f, p)
           X == U \cup {b}
           Q == R \ {r}
<1>1. PICK T : /\ Sound(k, T, U \cup {b}) /\ b \notin U /\ b \in DOMAIN T /\ total <= T[b]
               /\ Kept(T, S, U) /\ Undisturbed(k, h, S, U)
  BY DEF Given
<1>2. LiveOk(k, T, U, R)
  BY <1>1, LiveKept
<1> HIDE DEF p
<1>3. /\ c \in U /\ c \in Nat /\ p = c + Hdr /\ S[c] \in Nat /\ avail = S[c] - 2
      /\ avail \in Nat /\ r.n \in Nat /\ r.n <= avail
  BY RoomFacts DEF p
<1>4. w \in Nat /\ avail < w
  <2>1. w \in Nat /\ n <= 8 * w
    BY CellsFacts
  <2> QED BY <2>1, <1>3
<1> HIDE DEF w, f, g, X, Q
<1>5. Sound(k, T, X) /\ b \in X /\ c \in X /\ c # b
  BY <1>1, <1>3 DEF X
<1> DEFINE F == DOMAIN T \ X
<1>6. Mid(k, T, X, F)
  BY <1>5 DEF Sound
<1>7. /\ Partition(T, k.brk) /\ k.brk <= Top /\ T[b] \in Nat /\ IsHeap(k) /\ w + 2 <= T[b]
  <2> HIDE DEF F
  <2>1. Partition(T, k.brk) /\ k.brk <= Top /\ T[b] \in Nat /\ IsHeap(k)
    BY <1>6, <1>1, MidFacts
  <2> QED BY <2>1, <1>1, <1>4 DEF Hdr, Ftr, w
<1> HIDE DEF F
<1>8. CopiedTo(f, k, p, q, avail)
  BY <1>7, CopiedCells DEF f
<1>9. Inside(f, k, T, b)
  <2> SUFFICES ASSUME NEW a \in Addresses, a \notin (b + 1)..(b + T[b] - 2) PROVE f.mem[a] = k.mem[a]
    BY <1>8 DEF Inside, CopiedTo
  <2>1. a \in Int
    BY DEF Addresses
  <2>2. a - q \notin 0..(avail - 1)
    BY <2>1, <1>3, <1>4, <1>7 DEF Hdr
  <2> QED BY <2>2, <1>8 DEF CopiedTo
<1>10. Sound(f, T, X) /\ Undisturbed(f, k, T, U)
  <2>1. Sound(f, T, X) /\ Undisturbed(f, k, T, X \ {b})
    BY <1>5, <1>9, WrittenInside
  <2>2. X \ {b} = U
    BY <1>1 DEF X
  <2> QED BY <2>1, <2>2
<1>11. LiveOk(f, T, U, R)
  <2>1. U \subseteq X /\ Kept(T, T, U)
    BY <1>1 DEF X, Kept
  <2> QED BY <2>1, <1>2, <1>5, <1>10, LiveKept
<1>12. Written(f, q, r.id, r.n)
  <2> SUFFICES ASSUME NEW j \in 0..(r.n - 1) PROVE f.mem[q + j] = <<"data", r.id, j>>
    BY DEF Written
  <2>1. k.mem[r.p + j] = <<"data", r.id, j>>
    BY <1>2 DEF LiveOk
  <2>2. q + j \in Addresses
    <3>1. q + j \in b..(b + T[b] - 1)
      BY <1>3, <1>4, <1>7 DEF Hdr
    <3> QED BY <3>1, <1>1, <1>7, BlockCells
  <2>3. (q + j) - q = j /\ j \in 0..(avail - 1) /\ p + (q + j) - q = p + j
    BY <1>3 DEF Hdr
  <2>4. f.mem[q + j] = k.mem[p + j]
    BY <2>2, <2>3, <1>8 DEF CopiedTo
  <2> QED BY <2>1, <2>4 DEF p
<1> DEFINE Y == X \ {c}
           V == U \ {c}
<1>13. PICK W : Sound(g, W, Y) /\ Kept(W, T, Y) /\ Undisturbed(g, f, T, Y)
  <2>1. Freed(g, f, T, X, c)
    BY <1>3, <1>5, <1>10, FreeFreed DEF g
  <2> QED BY <2>1 DEF Freed
<1>14. Y = V \cup {b} /\ b \in Y /\ b \notin V /\ V \subseteq Y /\ V \subseteq X
  BY <1>1, <1>3, <1>5 DEF X
<1>15. LiveOk(f, T, V, Q)
  BY <1>11, LiveLess DEF Q
<1> HIDE DEF Y, V
<1>16. LiveOk(g, W, V, Q)
  <2>1. Kept(W, T, V) /\ Undisturbed(g, f, T, V)
    BY <1>13, <1>14 DEF Kept, Undisturbed
  <2> QED BY <2>1, <1>10, <1>14, <1>15, LiveKept
<1>17. Written(g, q, r.id, r.n)
  <2> SUFFICES ASSUME NEW j \in 0..(r.n - 1) PROVE g.mem[q + j] = <<"data", r.id, j>>
    BY DEF Written
  <2>1. q + j \in b..(b + T[b] - 1)
    BY <1>3, <1>4, <1>7 DEF Hdr
  <2>2. g.mem[q + j] = f.mem[q + j]
    BY <2>1, <1>13, <1>14 DEF Undisturbed
  <2> QED BY <2>2, <1>12 DEF Written
<1>18. w + Hdr + Ftr <= W[b]
  BY <1>4, <1>7, <1>13, <1>14 DEF Kept, Hdr, Ftr
<1>19. Sound(g, W, V \cup {b})
  BY <1>13, <1>14
<1>20. Good(Fill(g, q, r.id, r.n, w), Q \cup {RecordOf(q, w, r.id)})
  BY <1>3, <1>4, <1>14, <1>16, <1>17, <1>18, <1>19, Settled
<1> QED BY <1>20 DEF w, Q, g, f, p, Move

-----------------------------------------------------------------------------
(* The invariant, from the first call on. *)

(* The heap before the first malloc. *)
Blank(h) == IsHeap(h) /\ h.inited = FALSE /\ h.head = Null

(* The heap after the first malloc, or before it. *)
GoodOrBlank(h, R) == (Blank(h) /\ R = {}) \/ Good(h, R)

(* The flag written. *)
LEMMA InitedOfHeap ==
  ASSUME NEW i, NEW b, NEW d, NEW f, NEW M, NEW x
  PROVE  [HeapOf(i, b, d, f, M) EXCEPT !.inited = x] = HeapOf(x, b, d, f, M)
  BY DEF HeapOf

(* The head written. *)
LEMMA HeadOfHeap ==
  ASSUME NEW i, NEW b, NEW d, NEW f, NEW M, NEW x
  PROVE  [HeapOf(i, b, d, f, M) EXCEPT !.head = x] = HeapOf(i, b, d, x, M)
  BY DEF HeapOf

(* All but the memory written. *)
LEMMA AllOfHeap ==
  ASSUME NEW h, IsHeap(h), NEW t, NEW b, NEW e, NEW x
  PROVE  [h EXCEPT !.inited = t, !.brk = b, !.end = e, !.head = x] = HeapOf(t, b, e, x, h.mem)
<1> DEFINE g == [h EXCEPT !.inited = t, !.brk = b, !.end = e, !.head = x]
<1>1. h = HeapOf(h.inited, h.brk, h.end, h.head, h.mem)
  BY DEF IsHeap
<1>3. g = [[[[h EXCEPT !.inited = t] EXCEPT !.brk = b] EXCEPT !.end = e] EXCEPT !.head = x]
  OBVIOUS
<1>4. [HeapOf(h.inited, h.brk, h.end, h.head, h.mem) EXCEPT !.inited = t] = HeapOf(t, h.brk, h.end, h.head, h.mem)
  BY InitedOfHeap
<1>5. [HeapOf(t, h.brk, h.end, h.head, h.mem) EXCEPT !.brk = b] = HeapOf(t, b, h.end, h.head, h.mem)
  BY BrkOfHeap
<1>6. [HeapOf(t, b, h.end, h.head, h.mem) EXCEPT !.end = e] = HeapOf(t, b, e, h.head, h.mem)
  BY EndOfHeap
<1>7. [HeapOf(t, b, e, h.head, h.mem) EXCEPT !.head = x] = HeapOf(t, b, e, x, h.mem)
  BY HeadOfHeap
<1>8. [h EXCEPT !.inited = t] = HeapOf(t, h.brk, h.end, h.head, h.mem)
  BY <1>1, <1>4, Zenon
<1> QED BY <1>3, <1>8, <1>5, <1>6, <1>7

(* ensure_init of a blank heap. *)
LEMMA BlankInits ==
  ASSUME NEW h, Blank(h), NEW g, g = EnsureInit(h)
  PROVE  IsHeap(g) /\ g.inited = TRUE /\ g.brk = Start /\ g.end = Page * StartPages /\ g.head = Null
<1> DEFINE e == Page * StartPages
           t == TRUE
<1>1. IsHeap(h) /\ h.mem = [a \in Addresses |-> h.mem[a]] /\ h.inited = FALSE
  BY DEF Blank, IsHeap
<1>2. g = [h EXCEPT !.inited = t, !.brk = Start, !.end = e, !.head = Null]
  BY <1>1 DEF EnsureInit
<1> HIDE DEF e, t
<1>3. g = HeapOf(t, Start, e, Null, h.mem)
  BY <1>1, <1>2, AllOfHeap
<1>4. IsHeap(HeapOf(t, Start, e, Null, h.mem))
  BY <1>1, HeapOfHeap
<1>5. g.inited = t /\ g.brk = Start /\ g.end = e /\ g.head = Null
  BY <1>3, HeapOfFields
<1> QED BY <1>3, <1>4, <1>5 DEF e, t

(* It is a sound heap without blocks. *)
LEMMA BlankGood ==
  ASSUME NEW h, Blank(h)
  PROVE  Good(EnsureInit(h), {})
<1> DEFINE e == Page * StartPages
           g == EnsureInit(h)
           S == [c \in {} |-> 0]
           L == [i \in 1..0 |-> 0]
<1>1. IsHeap(g) /\ g.inited = TRUE /\ g.brk = Start /\ g.end = e /\ g.head = Null
  <2> HIDE DEF g
  <2>1. g = EnsureInit(h)
    BY DEF g
  <2> QED BY <2>1, BlankInits
<1>2. /\ Top \in Nat /\ e \in Nat /\ Start \in Nat /\ 1 <= Start /\ Start <= e /\ e <= Top
  BY BoundsFacts
<1> HIDE DEF g, e
<1>3. g.inited = TRUE /\ g.brk = Start /\ g.end = e /\ g.head = Null
  BY <1>1
<1>4. Partition(S, g.brk)
  BY <1>2, <1>3 DEF Partition
<1>5. Linked(g.mem, g.head, 0, L)
  BY <1>3 DEF Linked
<1>6. Listed({}, 0, L)
  BY DEF Listed
<1>7. Chain(g, {})
  BY <1>5, <1>6 DEF Chain
<1>8. Mid(g, S, {}, {})
  BY <1>1, <1>2, <1>3, <1>4, <1>7 DEF Mid, Tags
<1>9. DOMAIN S \ {} = {}
  OBVIOUS
<1>10. Apart(S, {})
  BY DEF Apart
<1>11. Sound(g, S, {})
  BY <1>8, <1>9, <1>10 DEF Sound
<1>12. LiveOk(g, S, {}, {})
  BY DEF LiveOk
<1> HIDE DEF S
<1> QED BY <1>11, <1>12 DEF Good, g

(* ensure_init gives a sound heap, and does nothing the second time. *)
LEMMA InitsGood ==
  ASSUME NEW h, NEW R, GoodOrBlank(h, R)
  PROVE  Good(EnsureInit(h), R) /\ (Good(h, R) => EnsureInit(h) = h)
<1>1. CASE Blank(h) /\ R = {}
  <2>1. ~Good(h, R)
    BY <1>1 DEF Good, Sound, Mid, Blank
  <2> QED BY <1>1, <2>1, BlankGood
<1>2. CASE Good(h, R)
  <2>1. h.inited = TRUE
    BY <1>2 DEF Good, Sound, Mid
  <2> QED BY <1>2, <2>1 DEF EnsureInit
<1> QED BY <1>1, <1>2 DEF GoodOrBlank

(* The inductive invariant. *)
IInv == GoodOrBlank(heap, live)

(* It holds at the start. *)
LEMMA InitIInv ==
  ASSUME Init
  PROVE  IInv
<1> DEFINE M == [a \in Addresses |-> Junk]
           f == FALSE
<1>1. heap = HeapOf(f, 0, 0, Null, M) /\ live = {}
  BY DEF Init, HeapOf
<1>2. M = [a \in Addresses |-> M[a]]
  OBVIOUS
<1> HIDE DEF M, f
<1>3. IsHeap(heap)
  BY <1>1, <1>2, HeapOfHeap
<1>4. heap.inited = f /\ heap.head = Null
  BY <1>1, HeapOfFields
<1> QED BY <1>1, <1>3, <1>4 DEF IInv, GoodOrBlank, Blank, f

(* malloc, and calloc through it, keeps it. *)
LEMMA MallocKeeps ==
  ASSUME IInv, NEW req \in Nat, Fits(req), NEW granted, Malloc(req, granted)
  PROVE  IInv'
<1> DEFINE h == EnsureInit(heap)
           m == DoMalloc(heap, req, granted)
           id == CHOOSE i \in FreeIds : \A j \in FreeIds : i <= j
           n == Cells(req)
           total == Total(req)
           r == [p |-> m.p, n |-> n, id |-> id]
<1>1. \/ m.p = Null /\ heap' = m.h /\ UNCHANGED live
      \/ m.p # Null /\ heap' = Fill(m.h, m.p, id, 0, n) /\ live' = live \cup {r}
  BY DEF Malloc
<1>2. Good(h, live)
  BY InitsGood DEF IInv
<1>3. PICK S, U : Sound(h, S, U) /\ LiveOk(h, S, U, live)
  BY <1>2 DEF Good
<1>4. Malloced(m, h, S, U, total)
  <2> HIDE DEF h, m
  <2>1. h = EnsureInit(heap)
    BY DEF h
  <2>2. Malloced(DoMalloc(heap, req, granted), h, S, U, Total(req))
    BY <2>1, <1>3, MallocGives
  <2> QED BY <2>2 DEF m
<1> HIDE DEF h, m, id, n, total
<1>5. CASE m.p = Null
  <2>1. m.h = h
    BY <1>5, <1>4 DEF Malloced
  <2>2. heap' = h /\ live' = live
    BY <1>1, <1>5, <2>1
  <2> QED BY <2>2, <1>2 DEF IInv, GoodOrBlank
<1>6. CASE m.p # Null
  <2>1. PICK b \in Nat : m.p = b + Hdr /\ Given(m.h, h, S, U, b, total)
    BY <1>6, <1>4 DEF Malloced
  <2>2. ~(req > 8 * Space - 16)
    <3>1. req > 8 * Space - 16 => m.p = Null
      <4>1. req > 8 * Space - 16 => m = [p |-> Null, h |-> EnsureInit(heap)]
        BY DEF DoMalloc, m
      <4> QED BY <4>1
    <3> QED BY <3>1, <1>6
  <2>3. n \in Nat /\ total \in Nat /\ n + Hdr + Ftr <= total
    <3>1. req <= 8 * Space - 16
      <4>1. Space \in Nat
        BY AllocAssumption
      <4> QED BY <4>1, <2>2
    <3> QED BY <3>1, TotalFacts, CellsFacts DEF n, total
  <2> DEFINE p == m.p
             k == m.h
  <2>4. p = b + Hdr /\ Given(k, h, S, U, b, total)
    BY <2>1
  <2>5. heap' = Fill(k, p, id, 0, n) /\ live' = live \cup {RecordOf(p, n, id)}
    BY <1>1, <1>6 DEF RecordOf
  <2> HIDE DEF p, k
  <2>6. Good(Fill(k, p, id, 0, n), live \cup {RecordOf(p, n, id)})
    BY <1>3, <2>3, <2>4, GivenGood
  <2>7. Good(heap', live')
    BY <2>5, <2>6
  <2> QED BY <2>7 DEF IInv, GoodOrBlank
<1> QED BY <1>5, <1>6

(* free keeps it. *)
LEMMA FreeKeeps ==
  ASSUME IInv, NEW r, Free(r)
  PROVE  IInv'
<1>1. r \in live /\ heap' = DoFree(heap, r.p) /\ live' = live \ {r}
  BY DEF Free
<1>2. Good(heap, live)
  BY <1>1 DEF IInv, GoodOrBlank
<1>3. Good(DoFree(heap, r.p), live \ {r})
  BY <1>1, <1>2, FreedGood
<1>4. Good(heap', live')
  BY <1>1, <1>3
<1> QED BY <1>4 DEF IInv, GoodOrBlank

(* A record with another address, *)
LEMMA Moves ==
  ASSUME NEW a, NEW b, NEW id, NEW p
  PROVE  [RecordOf(a, b, id) EXCEPT !.p = p] = RecordOf(p, b, id)
  BY DEF RecordOf

(* another size, *)
LEMMA Resizes ==
  ASSUME NEW a, NEW b, NEW id, NEW n
  PROVE  [RecordOf(a, b, id) EXCEPT !.n = n] = RecordOf(a, n, id)
  BY DEF RecordOf

(* and both. *)
LEMMA Readdressed ==
  ASSUME NEW r, r = RecordOf(r.p, r.n, r.id), NEW p, NEW n
  PROVE  [r EXCEPT !.p = p, !.n = n] = RecordOf(p, n, r.id)
<1>1. [r EXCEPT !.p = p, !.n = n] = [[r EXCEPT !.p = p] EXCEPT !.n = n]
  OBVIOUS
<1>2. [r EXCEPT !.p = p] = RecordOf(p, r.n, r.id)
  <2>1. [RecordOf(r.p, r.n, r.id) EXCEPT !.p = p] = RecordOf(p, r.n, r.id)
    BY Moves
  <2> QED BY <2>1, Zenon
<1>3. [RecordOf(p, r.n, r.id) EXCEPT !.n = n] = RecordOf(p, n, r.id)
  BY Resizes
<1> QED BY <1>1, <1>2, <1>3, Zenon

(* realloc keeps it, in each of its four cases. *)
LEMMA ReallocKeeps ==
  ASSUME IInv, NEW r, NEW n \in Nat, Fits(n), NEW granted, Realloc(r, n, granted)
  PROVE  IInv'
<1> DEFINE c == r.p - Hdr
           avail == Size(heap, c) - Hdr - Ftr
           m == DoMalloc(heap, n, granted)
           w == Cells(n)
           q(p) == [r EXCEPT !.p = p, !.n = w]
<1>1. /\ r \in live
      /\ \/ n = 0 /\ Free(r)
         \/ n > 0 /\ n <= 8 * avail /\ heap' = Fill(heap, r.p, r.id, r.n, w) /\ live' = (live \ {r}) \cup {q(r.p)}
         \/ n > 8 * avail /\ m.p = Null /\ heap' = m.h /\ UNCHANGED live
         \/ /\ n > 8 * avail /\ m.p # Null
            /\ heap' = Fill(Move(m.h, r.p, m.p, avail), m.p, r.id, r.n, w) /\ live' = (live \ {r}) \cup {q(m.p)}
  BY DEF Realloc
<1>2. Good(heap, live) /\ EnsureInit(heap) = heap
  <2>1. Good(heap, live)
    BY <1>1 DEF IInv, GoodOrBlank
  <2> QED BY <2>1, InitsGood DEF IInv
<1>3. PICK S, U : Sound(heap, S, U) /\ LiveOk(heap, S, U, live)
  BY <1>2 DEF Good
<1>4. \A p : q(p) = RecordOf(p, w, r.id)
  <2> SUFFICES ASSUME NEW p PROVE q(p) = RecordOf(p, w, r.id)
    OBVIOUS
  <2>1. r = RecordOf(r.p, r.n, r.id)
    BY <1>1, <1>3 DEF LiveOk, RecordOf
  <2> HIDE DEF w
  <2> QED BY <2>1, Readdressed
<1> HIDE DEF q
<1>5. c = r.p - Hdr /\ avail = Size(heap, c) - Hdr - Ftr
  OBVIOUS
<1>6. CASE n = 0 /\ Free(r)
  BY <1>6, FreeKeeps
<1>7. CASE n > 0 /\ n <= 8 * avail /\ heap' = Fill(heap, r.p, r.id, r.n, w) /\ live' = (live \ {r}) \cup {q(r.p)}
  <2>1. Good(Fill(heap, r.p, r.id, r.n, w), (live \ {r}) \cup {RecordOf(r.p, w, r.id)})
    BY <1>1, <1>2, <1>7, GrownInPlace
  <2>2. Good(heap', live')
    BY <2>1, <1>4, <1>7
  <2> QED BY <2>2 DEF IInv, GoodOrBlank
<1> DEFINE total == Total(n)
<1>8. Malloced(m, heap, S, U, total)
  <2> HIDE DEF m
  <2>1. heap = EnsureInit(heap)
    BY <1>2
  <2>2. Malloced(DoMalloc(heap, n, granted), heap, S, U, Total(n))
    BY <2>1, <1>3, MallocGives
  <2> QED BY <2>2 DEF m
<1>9. CASE n > 8 * avail /\ m.p = Null /\ heap' = m.h /\ UNCHANGED live
  <2> HIDE DEF m
  <2>1. m.h = heap
    BY <1>8, <1>9 DEF Malloced
  <2>2. heap' = heap /\ live' = live
    BY <2>1, <1>9
  <2> QED BY <2>2, <1>2 DEF IInv, GoodOrBlank
<1>10. CASE /\ n > 8 * avail /\ m.p # Null
            /\ heap' = Fill(Move(m.h, r.p, m.p, avail), m.p, r.id, r.n, w) /\ live' = (live \ {r}) \cup {q(m.p)}
  <2>0. ~(n > 8 * Space - 16)
    <3>1. n > 8 * Space - 16 => m = [p |-> Null, h |-> EnsureInit(heap)]
      BY DEF DoMalloc
    <3> QED BY <3>1, <1>10
  <2>1. w \in Nat /\ total \in Nat /\ w + Hdr + Ftr <= total
    <3>1. n <= 8 * Space - 16
      <4>1. Space \in Nat
        BY AllocAssumption
      <4> QED BY <4>1, <2>0
    <3> QED BY <3>1, TotalFacts, CellsFacts
  <2> HIDE DEF m, w, total, avail, c
  <2>2. PICK b \in Nat : m.p = b + Hdr /\ Given(m.h, heap, S, U, b, total)
    BY <1>8, <1>10 DEF Malloced
  <2> DEFINE k == m.h
             p == m.p
  <2>3. p = b + Hdr /\ Given(k, heap, S, U, b, total) /\ n > 8 * avail /\ Cells(n) + Hdr + Ftr <= total
    BY <2>1, <2>2, <1>10 DEF w
  <2>4. /\ heap' = Fill(Move(k, r.p, p, avail), p, r.id, r.n, Cells(n))
        /\ live' = (live \ {r}) \cup {RecordOf(p, Cells(n), r.id)}
    BY <1>10, <1>4 DEF w
  <2> HIDE DEF k, p
  <2>5. Good(Fill(Move(k, r.p, p, avail), p, r.id, r.n, Cells(n)), (live \ {r}) \cup {RecordOf(p, Cells(n), r.id)})
    BY <1>1, <1>3, <1>5, <2>1, <2>3, Moved
  <2>6. Good(heap', live')
    BY <2>4, <2>5
  <2> QED BY <2>6 DEF IInv, GoodOrBlank
<1> QED BY <1>1, <1>6, <1>7, <1>9, <1>10

(* Every step keeps it. *)
LEMMA NextKeeps ==
  ASSUME NoWrap, IInv, [Next]_vars
  PROVE  IInv'
<1>1. CASE UNCHANGED vars
  BY <1>1 DEF vars, IInv, GoodOrBlank
<1>2. CASE Next
  <2>1. PICK req \in Sizes, granted \in BOOLEAN :
            \/ Malloc(req, granted) \/ \E n \in {1, Space} : Calloc(n, req, granted)
            \/ \E r \in live : Free(r) \/ Realloc(r, req, granted)
    BY <1>2 DEF Next
  <2>2. req \in Nat /\ Space \in Nat /\ Fits(req) /\ Fits(Space * req)
    BY AllocAssumption DEF NoWrap
  <2>3. CASE Malloc(req, granted)
    BY <2>2, <2>3, MallocKeeps
  <2>4. ASSUME NEW n \in {1, Space}, Calloc(n, req, granted) PROVE IInv'
    <3> DEFINE x == n * req
    <3>1. x \in Nat /\ Fits(x)
      <4>1. CASE n = 1
        <5>1. x = req
          BY <4>1, <2>2
        <5> QED BY <5>1, <2>2
      <4>2. CASE n = Space
        BY <4>2, <2>2
      <4> QED BY <4>1, <4>2
    <3>2. UNCHANGED vars \/ Malloc(x, granted)
      BY <2>4 DEF Calloc
    <3> HIDE DEF x
    <3>3. CASE Malloc(x, granted)
      BY <3>1, <3>3, MallocKeeps
    <3>4. CASE UNCHANGED vars
      BY <3>4 DEF vars, IInv, GoodOrBlank
    <3> QED BY <3>2, <3>3, <3>4
  <2>5. ASSUME NEW r \in live, Free(r) PROVE IInv'
    BY <2>5, FreeKeeps
  <2>6. ASSUME NEW r \in live, Realloc(r, req, granted) PROVE IInv'
    BY <2>2, <2>6, ReallocKeeps
  <2> QED BY <2>1, <2>3, <2>4, <2>5, <2>6
<1> QED BY <1>1, <1>2

(* The invariant holds always. *)
LEMMA SpecIInv == NoWrap => (Spec => []IInv)
<1> SUFFICES ASSUME NoWrap PROVE Spec => []IInv
  OBVIOUS
<1>1. Init => IInv
  BY InitIInv
<1>2. IInv /\ [Next]_vars => IInv'
  BY NextKeeps
<1> QED BY <1>1, <1>2, PTL DEF Spec

-----------------------------------------------------------------------------
(* The walk over the headers, and what the invariant says. *)

(* One step over a header. *)
WalkStep(h, seen) ==
    LET b == seen[Len(seen)]
    IN  IF b >= h.brk \/ Size(h, b) <= 0 THEN seen ELSE Append(seen, b + Size(h, b))

(* g has what is seen after 0, 1, ... n steps. *)
Walks(g, h, n) == g = [k \in 0..n |-> IF k = 0 THEN <<Start>> ELSE WalkStep(h, g[k - 1])]

(* There is such a g. *)
LEMMA WalksExists ==
  ASSUME NEW h, NEW n \in Nat
  PROVE  \E g : Walks(g, h, n)
<1> DEFINE T == {k \in Nat : ~ \E g : Walks(g, h, k)}
<1> SUFFICES ASSUME T # {} PROVE FALSE
  OBVIOUS
<1>0. T \subseteq Nat
  OBVIOUS
<1>1. PICK k \in T : \A j \in T : k <= j
  <2> HIDE DEF T
  <2> QED BY <1>0, LeastNat
<1>2. k # 0
  <2> DEFINE z == [i \in 0..0 |-> <<Start>>]
  <2>1. Walks(z, h, 0)
    BY DEF Walks
  <2> QED BY <2>1
<1>3. k - 1 \in Nat /\ k - 1 \notin T
  BY <1>1, <1>2
<1>4. PICK g : Walks(g, h, k - 1)
  BY <1>3
<1> DEFINE f == [i \in 0..k |-> IF i = k THEN WalkStep(h, g[k - 1]) ELSE g[i]]
<1>5. Walks(f, h, k)
  <2>1. ASSUME NEW i \in 0..k
        PROVE  f[i] = IF i = 0 THEN <<Start>> ELSE WalkStep(h, f[i - 1])
    <3>1. CASE i = k
      <4>1. k - 1 \in 0..k /\ k - 1 # k /\ k \in 0..k
        BY <1>3
      <4>2. f[k - 1] = g[k - 1] /\ f[k] = WalkStep(h, g[k - 1])
        BY <4>1
      <4> HIDE DEF f
      <4> QED BY <4>2, <3>1, <1>2
    <3>2. CASE i # k
      <4>1. i \in 0..(k - 1)
        BY <3>2
      <4>2. g[i] = IF i = 0 THEN <<Start>> ELSE WalkStep(h, g[i - 1])
        BY <4>1, <1>4 DEF Walks
      <4>3. i # 0 => i - 1 \in 0..k /\ i - 1 # k
        BY <4>1
      <4>4. f[i] = g[i] /\ (i # 0 => f[i - 1] = g[i - 1])
        BY <3>2, <4>3
      <4> HIDE DEF f
      <4> QED BY <4>2, <4>4
    <3> QED BY <3>1, <3>2
  <2>2. f = [i \in 0..k |-> f[i]]
    OBVIOUS
  <2> HIDE DEF f
  <2>3. [i \in 0..k |-> f[i]] = [i \in 0..k |-> IF i = 0 THEN <<Start>> ELSE WalkStep(h, f[i - 1])]
    BY <2>1
  <2> QED BY <2>2, <2>3 DEF Walks
<1> QED BY <1>5

(* MaxBlocks least blocks fill the memory. *)
LEMMA BlocksBound == Top \in Nat /\ MaxBlocks \in Nat /\ Top <= 4 * MaxBlocks + 3
  BY BoundsFacts DEF MaxBlocks, Top, Hdr, MinPayload, Ftr

(* Walk is what MaxBlocks steps see. *)
LEMMA WalkIs == \E g : Walks(g, heap, MaxBlocks) /\ Walk = g[MaxBlocks]
<1>0. MaxBlocks \in Nat
  BY BlocksBound
<1> DEFINE f == CHOOSE g : Walks(g, heap, MaxBlocks)
<1>1. Walks(f, heap, MaxBlocks)
  <2>1. \E g : Walks(g, heap, MaxBlocks)
    BY <1>0, WalksExists
  <2> QED BY <2>1
<1>2. Walk = f[MaxBlocks]
  BY Zenon DEF Walk, Walks, WalkStep
<1> QED BY <1>1, <1>2

(* How far k steps have come. *)
Went(seen, k, S, hi) ==
    /\ seen \in Seq(Nat) /\ Len(seen) >= 1
    /\ \A i \in 1..Len(seen) : seen[i] \in DOMAIN S \cup {hi}
    /\ \A c \in DOMAIN S : c <= seen[Len(seen)] => \E i \in 1..Len(seen) : seen[i] = c
    /\ seen[Len(seen)] = hi \/ Start + 4 * k <= seen[Len(seen)]

(* A step goes on to the next block, or is at the break. *)
LEMMA WentOn ==
  ASSUME NEW h, NEW S, NEW U, NEW F, Mid(h, S, U, F), NEW k \in Nat, NEW seen, Went(seen, k, S, h.brk)
  PROVE  Went(WalkStep(h, seen), k + 1, S, h.brk)
<1> DEFINE b == seen[Len(seen)]
<1>1. /\ h.brk \in Nat /\ Start \in Nat
      /\ \A c \in DOMAIN S : c \in Nat /\ S[c] \in Nat /\ 4 <= S[c] /\ c + S[c] <= h.brk
                             /\ (c + S[c] \in DOMAIN S \/ c + S[c] = h.brk)
  BY MidFacts
<1>p. \A c, d \in DOMAIN S : c < d => c + S[c] <= d
  BY MidFacts DEF Partition
<1>2. /\ seen \in Seq(Nat) /\ Len(seen) >= 1 /\ Len(seen) \in Nat /\ b \in DOMAIN S \cup {h.brk}
      /\ \A i \in 1..Len(seen) : seen[i] \in DOMAIN S \cup {h.brk}
      /\ \A c \in DOMAIN S : c <= b => \E i \in 1..Len(seen) : seen[i] = c
      /\ b = h.brk \/ Start + 4 * k <= b
  BY DEF Went
<1>3. CASE b = h.brk
  <2>1. WalkStep(h, seen) = seen
    BY <1>1, <1>3 DEF WalkStep
  <2> QED BY <2>1, <1>2, <1>3 DEF Went
<1>4. CASE b # h.brk
  <2> DEFINE e == b + S[b]
             t == Append(seen, e)
  <2>1. b \in DOMAIN S /\ b \in Nat /\ S[b] \in Nat /\ 4 <= S[b] /\ b + S[b] <= h.brk /\ e \in Nat
    BY <1>1, <1>2, <1>4
  <2>2. Size(h, b) = S[b]
    BY <2>1, TagsRead
  <2>3. WalkStep(h, seen) = t
    <3>1. ~(b >= h.brk \/ Size(h, b) <= 0)
      BY <2>1, <2>2, <1>1
    <3>2. WalkStep(h, seen) = Append(seen, b + Size(h, b))
      BY <3>1, Zenon DEF WalkStep
    <3> QED BY <3>2, <2>2
  <2>4. e \in DOMAIN S \cup {h.brk}
    BY <2>1, <1>1
  <2>5. e = b + S[b]
    OBVIOUS
  <2> HIDE DEF e, b
  <2>6. t \in Seq(Nat) /\ Len(t) = Len(seen) + 1 /\ t[Len(seen) + 1] = e /\ \A i \in 1..Len(seen) : t[i] = seen[i]
    BY <2>1, <1>2, AppendFacts
  <2> HIDE DEF t
  <2>7. \A i \in 1..Len(t) : t[i] \in DOMAIN S \cup {h.brk}
    <3> SUFFICES ASSUME NEW i \in 1..Len(t) PROVE t[i] \in DOMAIN S \cup {h.brk}
      OBVIOUS
    <3>1. i \in 1..Len(seen) \/ i = Len(seen) + 1
      BY <2>6, <1>2
    <3> QED BY <3>1, <2>4, <2>6, <1>2
  <2>8. ASSUME NEW c \in DOMAIN S, c <= e PROVE \E i \in 1..Len(t) : t[i] = c
    <3>1. CASE c <= b
      <4>1. PICK i \in 1..Len(seen) : seen[i] = c
        BY <3>1, <1>2
      <4>2. i \in 1..Len(t)
        BY <2>6, <1>2
      <4> QED BY <4>1, <4>2, <2>6
    <3>2. CASE ~(c <= b)
      <4>1. b < c /\ c \in Nat
        BY <3>2, <2>1, <1>1
      <4>2. e <= c
        BY <4>1, <2>1, <2>5, <1>p
      <4>3. c = e
        BY <4>1, <4>2, <2>1, <2>8
      <4>4. Len(t) \in 1..Len(t) /\ t[Len(t)] = e
        BY <2>6, <1>2
      <4> QED BY <4>3, <4>4
    <3> QED BY <3>1, <3>2
  <2>9. t[Len(t)] = e /\ Len(t) >= 1
    BY <2>6, <1>2
  <2>10. Start + 4 * (k + 1) <= e
    BY <2>1, <2>5, <1>1, <1>2, <1>4
  <2> QED BY <2>3, <2>6, <2>7, <2>8, <2>9, <2>10 DEF Went
<1> QED BY <1>3, <1>4

(* The walk visits every block of the partition, and then the break. *)
LEMMA WalkVisits ==
  ASSUME NEW S, NEW U, NEW F, Mid(heap, S, U, F)
  PROVE  Range(Walk) = DOMAIN S \cup {heap.brk} /\ Blocks = DOMAIN S
<1> DEFINE hi == heap.brk
<1>1. /\ hi \in Nat /\ hi <= Top /\ Start \in Nat /\ Start <= hi
      /\ \A c \in DOMAIN S : c \in Nat /\ S[c] \in Nat /\ 4 <= S[c] /\ Start <= c /\ c + S[c] <= hi
  BY MidFacts
<1>2. Top \in Nat /\ MaxBlocks \in Nat /\ Top <= 4 * MaxBlocks + 3 /\ 1 <= Start
  BY BlocksBound, BoundsFacts
<1>3. Start \in DOMAIN S \cup {hi}
  BY MidFacts DEF Partition
<1>4. PICK g : Walks(g, heap, MaxBlocks) /\ Walk = g[MaxBlocks]
  BY WalkIs
<1>5. \A k \in 0..MaxBlocks : g[k] = IF k = 0 THEN <<Start>> ELSE WalkStep(heap, g[k - 1])
  BY <1>4 DEF Walks
<1> DEFINE T == {k \in 0..MaxBlocks : ~Went(g[k], k, S, hi)}
<1>6. T = {}
  <2> SUFFICES ASSUME T # {} PROVE FALSE
    OBVIOUS
  <2>0. T \subseteq Nat
    OBVIOUS
  <2>1. PICK k \in T : \A j \in T : k <= j
    <3> HIDE DEF T
    <3> QED BY <2>0, LeastNat
  <2>2. k \in 0..MaxBlocks /\ ~Went(g[k], k, S, hi)
    OBVIOUS
  <2>3. k # 0
    <3> DEFINE s == <<Start>>
    <3>1. s \in Seq(Nat) /\ Len(s) = 1 /\ s[1] = Start
      BY <1>1
    <3> HIDE DEF s
    <3>2. \A c \in DOMAIN S : c <= Start => c = Start
      BY <1>1
    <3>3. Went(s, 0, S, hi)
      BY <3>1, <3>2, <1>1, <1>3 DEF Went
    <3> QED BY <3>3, <2>2, <1>2, <1>5 DEF s
  <2>4. k - 1 \in Nat /\ k - 1 \in 0..MaxBlocks /\ (k - 1) + 1 = k
    BY <2>2, <2>3, <1>2
  <2>5. k - 1 \notin T
    BY <2>1, <2>4
  <2>6. Went(g[k - 1], k - 1, S, hi)
    BY <2>4, <2>5
  <2> HIDE DEF T
  <2>7. Went(WalkStep(heap, g[k - 1]), (k - 1) + 1, S, hi)
    BY <2>4, <2>6, WentOn
  <2> QED BY <2>7, <2>2, <2>3, <2>4, <1>5
<1>7. Went(Walk, MaxBlocks, S, hi)
  <2>1. MaxBlocks \in 0..MaxBlocks
    BY <1>2
  <2> QED BY <2>1, <1>4, <1>6
<1> HIDE DEF T
<1> DEFINE W == Walk
           b == W[Len(W)]
<1>8. /\ W \in Seq(Nat) /\ Len(W) >= 1 /\ Len(W) \in Nat /\ DOMAIN W = 1..Len(W)
      /\ \A i \in 1..Len(W) : W[i] \in DOMAIN S \cup {hi}
      /\ \A c \in DOMAIN S : c <= b => \E i \in 1..Len(W) : W[i] = c
      /\ b = hi \/ Start + 4 * MaxBlocks <= b
  BY <1>7 DEF Went
<1> HIDE DEF W
<1>9. b \in DOMAIN S \cup {hi}
  BY <1>8
<1>10. b = hi
  <2> SUFFICES ASSUME b # hi PROVE FALSE
    OBVIOUS
  <2>1. b \in DOMAIN S
    BY <1>9
  <2> HIDE DEF b
  <2>2. b \in Nat /\ b + 4 <= hi
    <3>1. b \in Nat /\ S[b] \in Nat /\ 4 <= S[b] /\ b + S[b] <= hi
      BY <2>1, <1>1
    <3> QED BY <3>1, <1>1
  <2>3. Start + 4 * MaxBlocks <= b
    BY <1>8
  <2> QED BY <2>2, <2>3, <1>1, <1>2
<1>11. Range(W) = {W[i] : i \in 1..Len(W)}
  BY <1>8 DEF Range
<1>12. Range(W) = DOMAIN S \cup {hi}
  <2>1. ASSUME NEW c \in DOMAIN S PROVE c \in Range(W)
    <3>1. c <= b
      <4>1. c \in Nat /\ S[c] \in Nat /\ c + S[c] <= hi
        BY <1>1
      <4> QED BY <4>1, <1>1, <1>10
    <3> QED BY <3>1, <1>8, <1>11
  <2>2. hi \in Range(W)
    BY <1>8, <1>10, <1>11
  <2>3. \A c \in Range(W) : c \in DOMAIN S \cup {hi}
    BY <1>8, <1>11
  <2> QED BY <2>1, <2>2, <2>3
<1>13. Blocks = DOMAIN S
  <2>1. Blocks = {c \in Range(W) : c < hi}
    BY DEF Blocks, W
  <2>2. \A c \in DOMAIN S : c < hi
    <3> SUFFICES ASSUME NEW c \in DOMAIN S PROVE c < hi
      OBVIOUS
    <3>1. c \in Nat /\ S[c] \in Nat /\ 4 <= S[c] /\ c + S[c] <= hi
      BY <1>1
    <3> QED BY <3>1, <1>1
  <2>3. ~(hi < hi)
    BY <1>1
  <2> HIDE DEF hi
  <2>4. ASSUME NEW c \in Blocks PROVE c \in DOMAIN S
    <3>1. c \in DOMAIN S \cup {hi} /\ c < hi
      BY <2>1, <1>12
    <3> QED BY <3>1, <2>3
  <2>5. ASSUME NEW c \in DOMAIN S PROVE c \in Blocks
    BY <2>1, <2>2, <1>12
  <2> QED BY <2>4, <2>5
<1> QED BY <1>12, <1>13 DEF W

(* A sound heap, in the terms of the model. *)
LEMMA GoodFacts ==
  ASSUME NEW S, NEW U, Sound(heap, S, U)
  PROVE  /\ heap.inited = TRUE
         /\ heap.brk \in Nat /\ heap.end \in Nat /\ heap.brk <= heap.end /\ heap.end <= Top
         /\ Start \in Nat /\ 1 <= Start /\ Start <= heap.brk /\ IsHeap(heap) /\ U \subseteq DOMAIN S
         /\ \A c \in DOMAIN S : c \in Nat /\ S[c] \in Nat /\ 4 <= S[c] /\ c + S[c] <= heap.brk
                                /\ (c + S[c] \in DOMAIN S \/ c + S[c] = heap.brk)
         /\ \A c \in DOMAIN S : Size(heap, c) = S[c] /\ (Used(heap, c) <=> c \in U)
         /\ Range(Walk) = DOMAIN S \cup {heap.brk} /\ Blocks = DOMAIN S
<1> DEFINE F == DOMAIN S \ U
<1>1. Mid(heap, S, U, F) /\ heap.inited = TRUE
  BY DEF Sound, Mid
<1> HIDE DEF F
<1>2. /\ heap.brk \in Nat /\ heap.end \in Nat /\ heap.brk <= heap.end /\ heap.end <= Top
      /\ Start \in Nat /\ Start <= heap.brk /\ IsHeap(heap) /\ U \subseteq DOMAIN S
      /\ \A c \in DOMAIN S : c \in Nat /\ S[c] \in Nat /\ 4 <= S[c] /\ c + S[c] <= heap.brk
                             /\ (c + S[c] \in DOMAIN S \/ c + S[c] = heap.brk)
  BY <1>1, MidFacts
<1>3. \A c \in DOMAIN S : Size(heap, c) = S[c] /\ (Used(heap, c) <=> c \in U)
  BY <1>1, TagsRead
<1>4. Range(Walk) = DOMAIN S \cup {heap.brk} /\ Blocks = DOMAIN S
  BY <1>1, WalkVisits
<1>5. 1 <= Start
  BY BoundsFacts
<1> QED BY <1>1, <1>2, <1>3, <1>4, <1>5

(* A sound heap is within memory, *)
LEMMA GoodTypeOK ==
  ASSUME NEW S, NEW U, Sound(heap, S, U), LiveOk(heap, S, U, live)
  PROVE  TypeOK
<1>1. /\ heap.brk \in Nat /\ heap.end \in Nat /\ heap.brk <= heap.end /\ heap.end <= Top
      /\ Start \in Nat /\ 1 <= Start /\ Start <= heap.brk /\ IsHeap(heap) /\ U \subseteq DOMAIN S
  BY GoodFacts
<1>2. \A c \in DOMAIN S : c \in Nat /\ S[c] \in Nat /\ 4 <= S[c] /\ c + S[c] <= heap.brk
  BY GoodFacts
<1>3. Top \in Nat /\ 1 <= Top /\ Top = Page * MaxPages /\ Addresses = 0..(Top - 1)
  BY BoundsFacts DEF Top, Addresses
<1>4. DOMAIN heap.mem = Addresses
  BY <1>1, HeapDomain
<1>5. heap.brk \in Start..heap.end /\ heap.end \in 1..(Page * MaxPages)
  <2>1. heap.end \in 1..Top
    BY <1>1, <1>3
  <2> QED BY <2>1, <1>1, <1>3
<1>6. ASSUME NEW r \in live PROVE r.p - Hdr \in Addresses /\ r.p + r.n + Ftr <= heap.brk
  <2> DEFINE c == r.p - Hdr
  <2>1. r.p \in Nat /\ r.n \in Nat /\ c \in U /\ r.n + Hdr + Ftr <= S[c]
    BY DEF LiveOk
  <2>2. r.p = c + 1
    BY <2>1 DEF Hdr
  <2>3. c \in DOMAIN S
    BY <2>1, <1>1
  <2> HIDE DEF c
  <2>4. c \in Nat /\ S[c] \in Nat /\ 4 <= S[c] /\ c + S[c] <= heap.brk
    BY <2>3, <1>2
  <2>5. c \in Addresses
    BY <2>4, <1>1, <1>3
  <2>6. r.p + r.n + Ftr <= heap.brk
    BY <2>1, <2>2, <2>4, <1>1 DEF Hdr, Ftr
  <2> QED BY <2>5, <2>6 DEF c
<1>7. heap.head \in Addresses
  <2>1. PICK m, L : Linked(heap.mem, heap.head, m, L)
    BY DEF Sound, Mid, Chain
  <2>2. Null \in Addresses
    BY <1>3 DEF Null
  <2> QED BY <2>1, <2>2 DEF Linked
<1> QED BY <1>4, <1>5, <1>6, <1>7 DEF TypeOK

(* has its tags, *)
LEMMA GoodTags ==
  ASSUME NEW S, NEW U, Sound(heap, S, U)
  PROVE  TagsAgree
<1>1. /\ \A c \in DOMAIN S : c \in Nat /\ S[c] \in Nat /\ 4 <= S[c] /\ c + S[c] <= heap.brk
      /\ \A c \in DOMAIN S : Size(heap, c) = S[c]
      /\ Range(Walk) = DOMAIN S \cup {heap.brk} /\ Blocks = DOMAIN S
  BY GoodFacts
<1>2. ASSUME NEW b \in Blocks
      PROVE  /\ Size(heap, b) >= Hdr + MinPayload + Ftr
             /\ b + Size(heap, b) <= heap.brk
             /\ heap.mem[b][1] = "tag" /\ heap.mem[b + Size(heap, b) - Ftr] = heap.mem[b]
  <2>1. b \in DOMAIN S /\ Size(heap, b) = S[b]
    BY <1>1
  <2>2. b \in Nat /\ S[b] \in Nat /\ 4 <= S[b] /\ b + S[b] <= heap.brk
    BY <2>1, <1>1
  <2>3. heap.mem[b] = Tag(S, U, b) /\ heap.mem[b + S[b] - Ftr] = Tag(S, U, b)
    BY <2>1 DEF Sound, Mid, Tags
  <2>4. Tag(S, U, b)[1] = "tag"
    BY DEF Tag
  <2>5. S[b] >= Hdr + MinPayload + Ftr
    BY <2>2 DEF Hdr, MinPayload, Ftr
  <2> QED BY <2>1, <2>2, <2>3, <2>4, <2>5
<1> QED BY <1>1, <1>2 DEF TagsAgree

(* its list, *)
LEMMA GoodList ==
  ASSUME NEW S, NEW U, Sound(heap, S, U)
  PROVE  FreeListExact
<1> DEFINE F == DOMAIN S \ U
           list == FreeList(heap)
<1>1. Mid(heap, S, U, F)
  BY DEF Sound
<1>2. PICK m, L : Linked(heap.mem, heap.head, m, L) /\ Listed(F, m, L)
  BY <1>1 DEF Mid, Chain
<1>3. ListIs(list, m, L) /\ m \in Nat
  <2> HIDE DEF F
  <2> QED BY <1>1, <1>2, FreeListFollows, ListsAreShort
<1>4. DOMAIN list = 1..m /\ \A i \in 1..m : list[i] = L[i]
  BY <1>3 DEF ListIs
<1> HIDE DEF list
<1>5. {b \in Blocks : ~Used(heap, b)} = F
  <2>1. Blocks = DOMAIN S /\ \A c \in DOMAIN S : Used(heap, c) <=> c \in U
    BY GoodFacts
  <2> QED BY <2>1
<1> HIDE DEF F
<1>6. {list[k] - Hdr : k \in DOMAIN list} = F
  <2>1. ASSUME NEW k \in DOMAIN list PROVE list[k] - Hdr \in F
    BY <1>2, <1>4 DEF Listed
  <2>2. ASSUME NEW c \in F PROVE \E k \in DOMAIN list : c = list[k] - Hdr
    <3>1. PICK i \in 1..m : L[i] = c + Hdr
      BY <1>2 DEF Listed
    <3>2. c \in Nat
      BY <1>1, MidFacts
    <3> QED BY <3>1, <3>2, <1>4 DEF Hdr
  <2> QED BY <2>1, <2>2
<1>7. \A j, k \in DOMAIN list : list[j] = list[k] => j = k
  BY <1>2, <1>4 DEF Linked
<1>8. ASSUME NEW k \in DOMAIN list
      PROVE  Link(heap, list[k]).prev = IF k = 1 THEN Null ELSE list[k - 1]
  <2>1. k \in 1..m /\ list[k] = L[k]
    BY <1>4
  <2>2. heap.mem[L[k]][3] = IF k = 1 THEN Null ELSE L[k - 1]
    BY <2>1, <1>2 DEF Linked
  <2>3. k # 1 => list[k - 1] = L[k - 1]
    BY <2>1, <1>3, <1>4
  <2> QED BY <2>1, <2>2, <2>3 DEF Link
<1> QED BY <1>5, <1>6, <1>7, <1>8 DEF FreeListExact, list

(* and no two free blocks side by side. *)
LEMMA GoodApart ==
  ASSUME NEW S, NEW U, Sound(heap, S, U)
  PROVE  FreeBlocksApart
<1>1. /\ \A c \in DOMAIN S : c \in Nat /\ S[c] \in Nat /\ (c + S[c] \in DOMAIN S \/ c + S[c] = heap.brk)
      /\ \A c \in DOMAIN S : Size(heap, c) = S[c] /\ (Used(heap, c) <=> c \in U)
      /\ Blocks = DOMAIN S /\ heap.brk \in Nat
  BY GoodFacts
<1>2. ASSUME NEW b \in Blocks, ~Used(heap, b), b + Size(heap, b) < heap.brk
      PROVE  Used(heap, b + Size(heap, b))
  <2>1. b \in DOMAIN S /\ Size(heap, b) = S[b] /\ b \notin U
    BY <1>1, <1>2
  <2>2. b + S[b] \in DOMAIN S
    BY <2>1, <1>1, <1>2
  <2>3. b + S[b] \in U
    BY <2>1, <2>2 DEF Sound, Apart
  <2> QED BY <2>1, <2>2, <2>3, <1>1
<1> QED BY <1>2 DEF FreeBlocksApart

(* The invariant gives the three properties: the heap, *)
LEMMA IInvSound == ASSUME IInv PROVE HeapSound
<1>1. CASE Blank(heap) /\ live = {}
  <2>1. heap.inited = FALSE /\ heap.head = Null /\ DOMAIN heap.mem = Addresses
    BY <1>1, HeapDomain DEF Blank
  <2>2. Null \in Addresses
    <3>1. Top \in Nat /\ 1 <= Top /\ Addresses = 0..(Top - 1)
      BY BoundsFacts DEF Top, Addresses
    <3> QED BY <3>1 DEF Null
  <2> QED BY <1>1, <2>1, <2>2 DEF HeapSound, TypeOK, TagsAgree, FreeListExact, FreeBlocksApart
<1>2. CASE Good(heap, live)
  <2>1. PICK S, U : Sound(heap, S, U) /\ LiveOk(heap, S, U, live)
    BY <1>2 DEF Good
  <2> QED BY <2>1, GoodTypeOK, GoodTags, GoodList, GoodApart DEF HeapSound
<1> QED BY <1>1, <1>2 DEF IInv, GoodOrBlank

(* the data, *)
LEMMA IInvIntact == ASSUME IInv PROVE DataIntact
  BY DEF IInv, GoodOrBlank, Good, LiveOk, DataIntact

(* and the blocks in use. *)
LEMMA IInvNothingLeaks == ASSUME IInv PROVE NothingLeaks
<1>1. CASE Blank(heap) /\ live = {}
  BY <1>1 DEF Blank, NothingLeaks
<1>2. CASE Good(heap, live)
  <2>1. PICK S, U : Sound(heap, S, U) /\ LiveOk(heap, S, U, live)
    BY <1>2 DEF Good
  <2>2. Blocks = DOMAIN S /\ U \subseteq DOMAIN S /\ \A c \in DOMAIN S : Used(heap, c) <=> c \in U
    BY <2>1, GoodFacts
  <2>3. {b \in Blocks : Used(heap, b)} = U
    BY <2>2
  <2>4. {r.p - Hdr : r \in live} = U
    <3>1. \A r \in live : r.p - Hdr \in U
      BY <2>1 DEF LiveOk
    <3>2. \A c \in U : \E r \in live : c = r.p - Hdr
      BY <2>1 DEF LiveOk
    <3> QED BY <3>1, <3>2
  <2> QED BY <2>3, <2>4 DEF NothingLeaks
<1> QED BY <1>1, <1>2 DEF IInv, GoodOrBlank

(* Whatever is allocated, freed and resized, in whatever order, and whether   *)
(* or not memory.grow is granted: blocks lie end to end with agreeing tags,   *)
(* the list has exactly the free ones, linked both ways, and no two of them   *)
(* touch.  What free relies on when it reads the tags beside a block.        *)
THEOREM SpecHeapSound == NoWrap => (Spec => []HeapSound)
<1> SUFFICES ASSUME NoWrap PROVE Spec => []HeapSound
  OBVIOUS
<1>1. IInv => HeapSound
  BY IInvSound
<1>2. Spec => []IInv
  BY SpecIInv
<1> QED BY <1>1, <1>2, PTL

(* What the program wrote it finds again until it frees it: no tag, link or   *)
(* other block ever gets there, through the splits of malloc, the merges of  *)
(* free and the copies of realloc.                                          *)
THEOREM SpecDataIntact == NoWrap => (Spec => []DataIntact)
<1> SUFFICES ASSUME NoWrap PROVE Spec => []DataIntact
  OBVIOUS
<1>1. IInv => DataIntact
  BY IInvIntact
<1>2. Spec => []IInv
  BY SpecIInv
<1> QED BY <1>1, <1>2, PTL

(* Exactly the program's blocks are in use: free gives every cell back, and  *)
(* realloc does not keep the block it moved from.                           *)
THEOREM SpecNothingLeaks == NoWrap => (Spec => []NothingLeaks)
<1> SUFFICES ASSUME NoWrap PROVE Spec => []NothingLeaks
  OBVIOUS
<1>1. IInv => NothingLeaks
  BY IInvNothingLeaks
<1>2. Spec => []IInv
  BY SpecIInv
<1> QED BY <1>1, <1>2, PTL
=============================================================================
