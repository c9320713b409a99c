---------------------------- MODULE Typing_proof ----------------------------
(***************************************************************************)
(* What the emitted code relies on when it reads and writes raw i64 and f64, *)
(* proved for every program the parser can make: any number and nesting of   *)
(* functions, any bodies.                                                    *)
(*                                                                         *)
(* The invariant has three parts.  TextInv: after each binding pass, what is *)
(* assigned to names no function any more.  BoxInv: in a round of            *)
(* ibox_settle that has dropped nothing so far, the bodies seen store        *)
(* integers into every box that is left, in each form they are emitted in.   *)
(* SigInv: in a round of infer_signatures that has changed nothing so far,   *)
(* the bodies seen hold: each of their direct calls has been met into its    *)
(* callee's parameters, and each of their returns has the type their         *)
(* signature says.                                                           *)
(*                                                                         *)
(* The last part is the hard one, since a body is typed under signatures     *)
(* that move while it is looked at.  Two facts carry it.  What a body's      *)
(* expressions and slots are typed depends on the signatures only through    *)
(* the parameters and results of the functions it calls directly             *)
(* (TypedSame), and signatures move one way while calls are visited, so that *)
(* a visit that ends with the types it began with has met every call with    *)
(* the types it has at the end (Visited).  Finalize does not disturb it: a   *)
(* call that reaches a function has determined its parameters                *)
(* (SitesDetermined), so what Finalize rewrites nobody is called with.       *)
(*                                                                         *)
(* A walk of the model folds a step over a sequence.  Each is turned into a  *)
(* sequence of steps (Reaches), about which an induction, as the absence of  *)
(* a least counterexample, is made once.                                     *)
(***************************************************************************)
EXTENDS Typing, WellFoundedInduction, NaturalsInduction, TLAPS

-----------------------------------------------------------------------------
(* Folds over a sequence, as steps. *)

(* A nonempty set of naturals has a least one. *)
LEMMA LeastNat ==
  ASSUME NEW T, T \subseteq Nat, T # {}
  PROVE  \E x \in T : \A y \in T : x <= y
<1> DEFINE R == OpToRel(<, Nat)
<1>1. IsWellFoundedOn(R, Nat)
  BY NatLessThanWellFounded, Zenon
<1>2. \A a, b \in Nat : a < b => <<a, b>> \in R
  BY Zenon DEF OpToRel
<1> HIDE DEF R
<1>3. \E x \in T : \A y \in T : ~(<<y, x>> \in R)
  BY <1>1, WFMin, Zenon
<1>4. PICK x \in T : \A y \in T : ~(<<y, x>> \in R)
  BY <1>3
<1>5. \A y \in T : ~(y < x)
  BY <1>2, <1>4
<1> QED BY <1>5

(* n steps of F from b, in D. *)
Steps(g, D, F, b, n) ==
    /\ g \in [0..n -> D] /\ g[0] = b
    /\ \A k \in 1..n : g[k] = F[k][g[k - 1]]

(* The steps do not leave D. *)
Stays(D, F, n) == \A k \in 1..n : \A x \in D : F[k][x] \in D

(* Steps that stay in D can be made. *)
LEMMA StepsExist ==
  ASSUME NEW D, NEW F, NEW b \in D, NEW n \in Nat, Stays(D, F, n)
  PROVE  \E g : Steps(g, D, F, b, n)
<1> DEFINE T == {k \in 0..n : ~ \E g : Steps(g, D, F, b, k)}
<1>0. T \subseteq Nat
  OBVIOUS
<1>1. CASE T = {}
  BY <1>1
<1>2. CASE T # {}
  <2>1. PICK k \in T : \A j \in T : k <= j
    <3> HIDE DEF T
    <3> QED BY <1>0, <1>2, LeastNat
  <2>2. k # 0
    <3> DEFINE z == [i \in 0..0 |-> b]
    <3>1. Steps(z, D, F, b, 0)
      BY DEF Steps
    <3> QED BY <3>1
  <2>3. k \in 1..n /\ k - 1 \in 0..n /\ k - 1 \notin T
    BY <2>1, <2>2
  <2>4. PICK g : Steps(g, D, F, b, k - 1)
    BY <2>3
  <2> DEFINE f == [i \in 0..k |-> IF i = k THEN F[k][g[k - 1]] ELSE g[i]]
  <2>5. Steps(f, D, F, b, k)
    <3>1. g \in [0..(k - 1) -> D] /\ g[0] = b /\ k - 1 \in 0..(k - 1)
      BY <2>3, <2>4 DEF Steps
    <3>2. F[k][g[k - 1]] \in D
      BY <3>1, <2>3 DEF Stays
    <3>3. f \in [0..k -> D]
      BY <3>1, <3>2
    <3>4. f[0] = b
      BY <3>1, <2>3
    <3>5. ASSUME NEW i \in 1..k PROVE f[i] = F[i][f[i - 1]]
      <4>1. f[i - 1] = g[i - 1]
        BY <2>3
      <4>2. CASE i = k
        <5>1. f[k] = F[k][g[k - 1]]
          BY <2>3
        <5> HIDE DEF f
        <5> QED BY <5>1, <4>1, <4>2
      <4>3. CASE i # k
        <5>1. i \in 1..(k - 1) /\ f[i] = g[i]
          BY <4>3, <2>3
        <5>2. g[i] = F[i][g[i - 1]]
          BY <5>1, <2>4 DEF Steps
        <5> HIDE DEF f
        <5> QED BY <5>1, <5>2, <4>1
      <4> QED BY <4>2, <4>3
    <3> HIDE DEF f
    <3> QED BY <3>3, <3>4, <3>5 DEF Steps
  <2> HIDE DEF f
  <2>6. k \notin T
    BY <2>5
  <2> QED BY <2>1, <2>6
<1> QED BY <1>1, <1>2

(* f makes the steps wherever it is in D. *)
Follows(f, D, F, n) == \A k \in 1..n : f[k - 1] \in D => f[k] = F[k][f[k - 1]]

(* f and g are the same after each step. *)
Same(f, g, n) == \A k \in 0..n : f[k] = g[k]

(* Steps from one base are the same. *)
LEMMA StepsSame ==
  ASSUME NEW D, NEW F, NEW b, NEW n \in Nat, NEW g, Steps(g, D, F, b, n),
         NEW h, h[0] = b, Follows(h, D, F, n)
  PROVE  Same(h, g, n)
<1> DEFINE T == {k \in 0..n : h[k] # g[k]}
<1> SUFFICES ASSUME T # {} PROVE FALSE
  BY DEF Same
<1>0. T \subseteq Nat
  OBVIOUS
<1>1. PICK k \in T : \A j \in T : k <= j
  <2> HIDE DEF T
  <2> QED BY <1>0, LeastNat
<1>2. k # 0
  BY DEF Steps
<1>3. k \in 1..n /\ k - 1 \in 0..n /\ k - 1 \notin T
  BY <1>1, <1>2
<1>4. h[k - 1] = g[k - 1] /\ g[k - 1] \in D /\ g[k] = F[k][g[k - 1]]
  BY <1>3 DEF Steps
<1> QED BY <1>3, <1>4 DEF Follows

(* Each step keeps what I says. *)
Carries(I, D, F, n) == \A k \in 1..n : \A x \in D : x \in I[k - 1] => F[k][x] \in I[k]

(* What holds of the base and is kept by each step holds after all of them. *)
LEMMA StepsKeep ==
  ASSUME NEW D, NEW F, NEW b, NEW n \in Nat, NEW g, Steps(g, D, F, b, n), NEW I,
         b \in I[0], Carries(I, D, F, n)
  PROVE  \A k \in 0..n : g[k] \in I[k]
<1> DEFINE T == {k \in 0..n : g[k] \notin I[k]}
<1> SUFFICES ASSUME T # {} PROVE FALSE
  OBVIOUS
<1>0. T \subseteq Nat
  OBVIOUS
<1>1. PICK k \in T : \A j \in T : k <= j
  <2> HIDE DEF T
  <2> QED BY <1>0, LeastNat
<1>2. k # 0
  BY DEF Steps
<1>3. k \in 1..n /\ k - 1 \in 0..n /\ k - 1 \notin T
  BY <1>1, <1>2
<1>4. g[k - 1] \in I[k - 1] /\ g[k - 1] \in D /\ g[k] = F[k][g[k - 1]]
  BY <1>3 DEF Steps
<1> QED BY <1>3, <1>4 DEF Carries

(* r is where the steps end. *)
Reaches(D, F, b, m, r) == \E g : Steps(g, D, F, b, m) /\ r = g[m]

(* Step k is ibox_check_stmt on statement k. *)
DropSteps(D, F, seq, m) ==
  \A k \in 1..m : \A x \in D : Drop(x, seq[k]) \in D /\ F[k][x] = Drop(x, seq[k])

(* ibox_check_body makes these steps. *)
LEMMA Drops ==
  ASSUME NEW c, NEW seq, NEW m \in Nat, m = Len(seq), NEW D, c \in D, NEW F,
         DropSteps(D, F, seq, m)
  PROVE  Reaches(D, F, c, m, DropAll(c, seq))
<1> DEFINE Eq(h) == h = [i \in 0..m |-> IF i = 0 THEN c ELSE Drop(h[i - 1], seq[i])]
<1>1. PICK g : Steps(g, D, F, c, m)
  BY StepsExist DEF Stays, DropSteps
<1>2. Eq(g)
  <2>1. ASSUME NEW i \in 0..m PROVE g[i] = IF i = 0 THEN c ELSE Drop(g[i - 1], seq[i])
    <3>1. CASE i = 0
      BY <1>1, <3>1 DEF Steps
    <3>2. CASE i # 0
      <4>1. i \in 1..m /\ i - 1 \in 0..m
        BY <3>2
      <4>2. g[i] = F[i][g[i - 1]] /\ g[i - 1] \in D
        BY <1>1, <4>1 DEF Steps
      <4> QED BY <4>1, <4>2, <3>2 DEF DropSteps
    <3> QED BY <3>1, <3>2
  <2>2. g = [i \in 0..m |-> g[i]]
    BY <1>1 DEF Steps
  <2> QED BY <2>1, <2>2
<1> DEFINE f == CHOOSE h : Eq(h)
<1>3. Eq(f)
  <2> HIDE DEF Eq
  <2> QED BY <1>2, Zenon
<1>4. DropAll(c, seq) = f[m]
  BY Zenon DEF DropAll, Over
<1> HIDE DEF f
<1>5. f[0] = c /\ \A k \in 1..m : f[k] = Drop(f[k - 1], seq[k])
  <2>1. ASSUME NEW i \in 0..m PROVE f[i] = IF i = 0 THEN c ELSE Drop(f[i - 1], seq[i])
    BY <1>3
  <2>2. \A k \in 1..m : k \in 0..m /\ k # 0 /\ 0 \in 0..m
    OBVIOUS
  <2> HIDE DEF Eq
  <2>3. f[0] = c
    BY <2>1
  <2>4. ASSUME NEW k \in 1..m PROVE f[k] = Drop(f[k - 1], seq[k])
    BY <2>1, <2>2
  <2> QED BY <2>3, <2>4
<1>6. Follows(f, D, F, m)
  BY <1>5 DEF Follows, DropSteps
<1>7. Same(f, g, m)
  <2> HIDE DEF Eq
  <2>1. f[0] = c
    BY <1>5
  <2>2. m \in Nat
    OBVIOUS
  <2> QED BY <1>1, <2>1, <2>2, <1>6, StepsSame, Zenon
<1> QED BY <1>1, <1>4, <1>7 DEF Same, Reaches

-----------------------------------------------------------------------------
(* The variable a reference stands for. *)

(* The origins of f's upvalues, from those of its parent. *)
OriginFrom(g, f) ==
  [u \in 1..Len(Upvals[f]) |->
     IF Upvals[f][u].src = "local" THEN <<Parent[f], Upvals[f][u].idx>>
     ELSE g[Parent[f]][Upvals[f][u].idx]]
(* g has the origins of functions 1 to n. *)
Origins(g, n) == g = [f \in 1..n |-> OriginFrom(g, f)]

(* There is a function. *)
LEMMA NatN == N \in Nat /\ N # 0
  BY ShapeAssumption

(* Functions follow their parents, so origins can be had in order, *)
LEMMA OriginsExist == \A n \in 0..N : \E g : Origins(g, n)
<1> DEFINE T == {k \in 0..N : ~ \E g : Origins(g, k)}
<1> SUFFICES ASSUME T # {} PROVE FALSE
  OBVIOUS
<1>0. T \subseteq Nat
  BY NatN
<1>1. PICK k \in T : \A j \in T : k <= j
  <2> HIDE DEF T
  <2> QED BY <1>0, LeastNat
<1>2. k # 0
  <2> DEFINE z == [i \in 1..0 |-> 0]
  <2>1. z = [f \in 1..0 |-> OriginFrom(z, f)]
    <3>1. \A f : f \notin 1..0
      OBVIOUS
    <3> QED BY <3>1
  <2> HIDE DEF z
  <2>2. Origins(z, 0)
    BY <2>1 DEF Origins
  <2> QED BY <2>2
<1>3. k \in 1..N /\ k \in Nat /\ k - 1 \in 0..N /\ k - 1 \notin T
  BY <1>1, <1>2, NatN
<1>4. PICK g : Origins(g, k - 1)
  BY <1>3
<1> DEFINE h == [f \in 1..k |-> IF f = k THEN OriginFrom(g, k) ELSE g[f]]
<1>5. \A f \in 1..(k - 1) : h[f] = g[f] /\ g[f] = OriginFrom(g, f)
  <2>1. \A f \in 1..(k - 1) : f \in 1..k /\ f # k
    BY <1>3
  <2>2. \A f \in 1..(k - 1) : h[f] = g[f]
    BY <2>1
  <2> HIDE DEF h
  <2>3. \A f \in 1..(k - 1) : g[f] = OriginFrom(g, f)
    BY <1>4 DEF Origins
  <2> QED BY <2>2, <2>3
<1>6. h[k] = OriginFrom(g, k) /\ h = [f \in 1..k |-> h[f]]
  BY <1>3
<1> HIDE DEF h
<1>7. ASSUME NEW f \in 1..k PROVE OriginFrom(g, f) = OriginFrom(h, f)
  <2>1. ASSUME NEW u \in 1..Len(Upvals[f]), Upvals[f][u].src # "local" PROVE g[Parent[f]] = h[Parent[f]]
    <3>1. f \in Fns
      BY <1>3, NatN DEF Fns
    <3>2. Parent[f] \in 0..(f - 1) /\ Parent[f] # 0
      BY <2>1, <3>1, ShapeAssumption DEF Main
    <3>3. Parent[f] \in 1..(k - 1)
      BY <3>2, <1>3
    <3> QED BY <3>3, <1>5
  <2> QED BY <2>1 DEF OriginFrom
<1>8. \A f \in 1..k : h[f] = OriginFrom(h, f)
  <2>1. \A f \in 1..k : h[f] = OriginFrom(g, f)
    <3> SUFFICES ASSUME NEW f \in 1..k PROVE h[f] = OriginFrom(g, f)
      OBVIOUS
    <3>1. CASE f = k
      BY <3>1, <1>6
    <3>2. CASE f # k
      BY <3>2, <1>5, <1>3
    <3> QED BY <3>1, <3>2
  <2> QED BY <2>1, <1>7
<1>9. Origins(h, k)
  BY <1>8, <1>6 DEF Origins
<1> QED BY <1>9

(* and Origin has them. *)
LEMMA OriginIs == \A f \in Fns : Origin[f] = OriginFrom(Origin, f)
<1> DEFINE Eq(h) == h = [f \in Fns |-> [u \in 1..Len(Upvals[f]) |->
     IF Upvals[f][u].src = "local" THEN <<Parent[f], Upvals[f][u].idx>>
     ELSE h[Parent[f]][Upvals[f][u].idx]]]
<1>1. PICK g : Eq(g)
  <2>1. N \in 0..N
    BY NatN
  <2>2. PICK h : Origins(h, N)
    BY <2>1, OriginsExist
  <2>3. Eq(h)
    BY <2>2 DEF Origins, OriginFrom, Fns
  <2> QED BY <2>3
<1> DEFINE o == CHOOSE h : Eq(h)
<1>2. Eq(o)
  <2> HIDE DEF Eq
  <2> QED BY <1>1, Zenon
<1>3. Origin = o
  BY Zenon DEF Origin
<1>4. Eq(Origin)
  <2> HIDE DEF Eq, o
  <2> QED BY <1>2, <1>3
<1> QED BY <1>4 DEF OriginFrom

(* o is a slot of a function. *)
Slot(o) == o = <<o[1], o[2]>> /\ o[1] \in All /\ o[2] \in 1..NLocals[o[1]]

(* resolve_upval_origin ends at a slot. *)
LEMMA OriginSlot ==
  ASSUME NEW f \in Fns, NEW u \in 1..Len(Upvals[f])
  PROVE  Slot(Origin[f][u])
<1> DEFINE T == {k \in 1..N : \E v \in 1..Len(Upvals[k]) : ~Slot(Origin[k][v])}
<1> SUFFICES ASSUME T # {} PROVE FALSE
  BY DEF Fns
<1>0. T \subseteq Nat
  BY NatN
<1>1. PICK k \in T : \A j \in T : k <= j
  <2> HIDE DEF T
  <2> QED BY <1>0, LeastNat
<1>2. PICK v \in 1..Len(Upvals[k]) : ~Slot(Origin[k][v])
  BY <1>1
<1>3. k \in Fns /\ k \in Nat /\ Parent[k] \in 0..(k - 1)
  BY <1>1, NatN, ShapeAssumption DEF Fns
<1>4. Origin[k][v] = IF Upvals[k][v].src = "local" THEN <<Parent[k], Upvals[k][v].idx>>
                     ELSE Origin[Parent[k]][Upvals[k][v].idx]
  <2>1. Origin[k] = OriginFrom(Origin, k)
    BY <1>3, OriginIs
  <2> QED BY <2>1 DEF OriginFrom
<1> DEFINE up == Upvals[k][v]
<1>5. \/ up.src = "local" /\ up.idx \in 1..NLocals[Parent[k]]
      \/ up.src = "upval" /\ Parent[k] # Main /\ up.idx \in 1..Len(Upvals[Parent[k]])
  BY <1>3, ShapeAssumption
<1>6. CASE up.src = "local"
  <2>1. Origin[k][v] = <<Parent[k], up.idx>> /\ up.idx \in 1..NLocals[Parent[k]]
    BY <1>4, <1>5, <1>6
  <2>2. Parent[k] \in All
    BY <1>3, NatN, <1>1 DEF All
  <2> QED BY <2>1, <2>2, <1>2 DEF Slot
<1>7. CASE up.src # "local"
  <2>1. Origin[k][v] = Origin[Parent[k]][up.idx] /\ Parent[k] # Main /\ up.idx \in 1..Len(Upvals[Parent[k]])
    BY <1>4, <1>5, <1>7
  <2>2. Parent[k] \in 1..N /\ Parent[k] < k
    BY <2>1, <1>3, <1>1, NatN DEF Main, Fns
  <2>3. Parent[k] \notin T
    BY <2>2, <1>1, <1>3
  <2>4. Slot(Origin[Parent[k]][up.idx])
    BY <2>3, <2>2, <2>1
  <2> QED BY <2>4, <2>1, <1>2
<1> QED BY <1>6, <1>7

(* Every reference stands for one. *)
LEMMA OwnerSlot ==
  ASSUME NEW f \in All, NEW v \in Vars(f)
  PROVE  Slot(Owner(f, v)) /\ v.k \in {"local", "upval"}
         /\ (v.k = "local" => /\ v = Local(v.i) /\ v.i \in 1..NLocals[f] /\ Owner(f, v) = <<f, v.i>>
                             /\ Owner(f, v)[1] = f /\ Owner(f, v)[2] = v.i)
         /\ (v.k = "upval" => v = Up(v.i) /\ f \in Fns /\ v.i \in 1..Len(Upvals[f]) /\ Owner(f, v) = Origin[f][v.i])
<1>1. CASE \E i \in 1..NLocals[f] : v = Local(i)
  BY <1>1 DEF Local, Owner, Slot
<1>2. CASE f # Main /\ \E u \in 1..Len(Upvals[f]) : v = Up(u)
  <2>1. f \in Fns
    BY <1>2, NatN DEF All, Fns, Main
  <2>2. PICK u \in 1..Len(Upvals[f]) : v = Up(u)
    BY <1>2
  <2>3. v.k = "upval" /\ v.i = u /\ v = Up(v.i) /\ Owner(f, v) = Origin[f][u]
    BY <2>2 DEF Up, Owner
  <2>4. Slot(Origin[f][u])
    BY <2>1, OriginSlot
  <2> QED BY <2>1, <2>3, <2>4
<1> QED BY <1>1, <1>2 DEF Vars

-----------------------------------------------------------------------------
(* Contexts as records, and the boxes a body drops. *)

(* A context by its fields. *)
Ctx(f, code, sl, up, I, J, sg, ib) ==
  [f |-> f, code |-> code, slotFn |-> sl, upFn |-> up, ints |-> I, floats |-> J, sigs |-> sg, ib |-> ib]

(* It has these fields. *)
IsCtx(c) == c = Ctx(c.f, c.code, c.slotFn, c.upFn, c.ints, c.floats, c.sigs, c.ib)

(* They are what they are made of. *)
LEMMA CtxFields ==
  ASSUME NEW f, NEW code, NEW sl, NEW up, NEW I, NEW J, NEW sg, NEW ib,
         NEW c, c = Ctx(f, code, sl, up, I, J, sg, ib)
  PROVE  /\ c.f = f /\ c.code = code /\ c.slotFn = sl /\ c.upFn = up
         /\ c.ints = I /\ c.floats = J /\ c.sigs = sg /\ c.ib = ib
         /\ IsCtx(c)
  BY DEF Ctx, IsCtx

(* The int slots written, *)
LEMMA IntsOfCtx ==
  ASSUME NEW f, NEW code, NEW sl, NEW up, NEW I, NEW J, NEW sg, NEW ib, NEW X
  PROVE  [Ctx(f, code, sl, up, I, J, sg, ib) EXCEPT !.ints = X] = Ctx(f, code, sl, up, X, J, sg, ib)
  BY DEF Ctx
(* the float slots, *)
LEMMA FloatsOfCtx ==
  ASSUME NEW f, NEW code, NEW sl, NEW up, NEW I, NEW J, NEW sg, NEW ib, NEW X
  PROVE  [Ctx(f, code, sl, up, I, J, sg, ib) EXCEPT !.floats = X] = Ctx(f, code, sl, up, I, X, sg, ib)
  BY DEF Ctx
(* the signatures, *)
LEMMA SigsOfCtx ==
  ASSUME NEW f, NEW code, NEW sl, NEW up, NEW I, NEW J, NEW sg, NEW ib, NEW X
  PROVE  [Ctx(f, code, sl, up, I, J, sg, ib) EXCEPT !.sigs = X] = Ctx(f, code, sl, up, I, J, X, ib)
  BY DEF Ctx
(* and the boxes. *)
LEMMA IbOfCtx ==
  ASSUME NEW f, NEW code, NEW sl, NEW up, NEW I, NEW J, NEW sg, NEW ib, NEW X
  PROVE  [Ctx(f, code, sl, up, I, J, sg, ib) EXCEPT !.ib = X] = Ctx(f, code, sl, up, I, J, sg, X)
  BY DEF Ctx

(* The same for any context. *)
LEMMA CtxWrites ==
  ASSUME NEW c, IsCtx(c), NEW X
  PROVE  /\ [c EXCEPT !.ints = X] = Ctx(c.f, c.code, c.slotFn, c.upFn, X, c.floats, c.sigs, c.ib)
         /\ [c EXCEPT !.floats = X] = Ctx(c.f, c.code, c.slotFn, c.upFn, c.ints, X, c.sigs, c.ib)
         /\ [c EXCEPT !.sigs = X] = Ctx(c.f, c.code, c.slotFn, c.upFn, c.ints, c.floats, X, c.ib)
         /\ [c EXCEPT !.ib = X] = Ctx(c.f, c.code, c.slotFn, c.upFn, c.ints, c.floats, c.sigs, X)
<1> DEFINE k == Ctx(c.f, c.code, c.slotFn, c.upFn, c.ints, c.floats, c.sigs, c.ib)
<1>1. c = k
  BY DEF IsCtx
<1>2. [k EXCEPT !.ints = X] = Ctx(c.f, c.code, c.slotFn, c.upFn, X, c.floats, c.sigs, c.ib)
  BY IntsOfCtx
<1>3. [k EXCEPT !.floats = X] = Ctx(c.f, c.code, c.slotFn, c.upFn, c.ints, X, c.sigs, c.ib)
  BY FloatsOfCtx
<1>4. [k EXCEPT !.sigs = X] = Ctx(c.f, c.code, c.slotFn, c.upFn, c.ints, c.floats, X, c.ib)
  BY SigsOfCtx
<1>5. [k EXCEPT !.ib = X] = Ctx(c.f, c.code, c.slotFn, c.upFn, c.ints, c.floats, c.sigs, X)
  BY IbOfCtx
<1> HIDE DEF k
<1> QED BY <1>1, <1>2, <1>3, <1>4, <1>5

(* A context of the same body under the same signatures and boxes. *)
Alike(c, b) ==
  /\ IsCtx(c) /\ c.f = b.f /\ c.code = b.code /\ c.slotFn = b.slotFn /\ c.upFn = b.upFn
  /\ c.sigs = b.sigs /\ c.ib = b.ib

(* Typing the slots changes nothing else. *)
LEMMA TypedAlike ==
  ASSUME NEW b, IsCtx(b), NEW seed
  PROVE  Alike(Typed(b, seed), b)
<1> DEFINE I == SlotsLeft(b, "int", Startable(b, seed, {"int", "unset"}))
           c == [b EXCEPT !.ints = I]
           J == SlotsLeft(c, "float", Startable(b, seed, {"float"}) \ c.ints)
           d == [c EXCEPT !.floats = J]
<1>0. Typed(b, seed) = d
  BY DEF Typed
<1> HIDE DEF I, J
<1>1. c = Ctx(b.f, b.code, b.slotFn, b.upFn, I, b.floats, b.sigs, b.ib)
  BY CtxWrites
<1> HIDE DEF c
<1>2. Alike(c, b)
  BY <1>1, CtxFields DEF Alike
<1>3. d = Ctx(c.f, c.code, c.slotFn, c.upFn, c.ints, J, c.sigs, c.ib)
  BY <1>2, CtxWrites DEF Alike
<1> HIDE DEF d
<1>4. Alike(d, c)
  BY <1>3, CtxFields DEF Alike
<1> QED BY <1>0, <1>2, <1>4 DEF Alike

(* The context of a body before its slots are typed, *)
LEMMA BodyOfFields ==
  ASSUME NEW f, NEW sg, NEW ib, NEW b, b = BodyOf(f, sg, ib)
  PROVE  /\ IsCtx(b) /\ b.f = f /\ b.code = Code(f) /\ b.slotFn = slotFn[f] /\ b.sigs = sg /\ b.ib = ib
         /\ b.upFn = IF f = Main THEN <<>> ELSE upFn[f]
<1> DEFINE up == IF f = Main THEN <<>> ELSE upFn[f]
<1>1. b = Ctx(f, Code(f), slotFn[f], up, {}, {}, sg, ib)
  BY DEF BodyOf, Ctx
<1> HIDE DEF up
<1>2. /\ IsCtx(b) /\ b.f = f /\ b.code = Code(f) /\ b.slotFn = slotFn[f] /\ b.sigs = sg /\ b.ib = ib /\ b.upFn = up
  BY <1>1, CtxFields
<1> QED BY <1>2 DEF up

(* and after. *)
LEMMA ContextFields ==
  ASSUME NEW f, NEW seed, NEW sg, NEW ib, NEW c, c = Context(f, seed, sg, ib)
  PROVE  /\ IsCtx(c) /\ c.f = f /\ c.code = Code(f) /\ c.slotFn = slotFn[f] /\ c.sigs = sg /\ c.ib = ib
         /\ c.upFn = IF f = Main THEN <<>> ELSE upFn[f]
<1> DEFINE b == BodyOf(f, sg, ib)
<1>1. /\ IsCtx(b) /\ b.f = f /\ b.code = Code(f) /\ b.slotFn = slotFn[f] /\ b.sigs = sg /\ b.ib = ib
      /\ b.upFn = IF f = Main THEN <<>> ELSE upFn[f]
  BY BodyOfFields
<1>2. c = Typed(b, seed)
  BY DEF Context
<1> HIDE DEF b
<1>3. Alike(c, b)
  BY <1>1, <1>2, TypedAlike
<1> QED BY <1>1, <1>3 DEF Alike

(* The statement stores integers into the boxes. *)
Stores(c, s) == \A j \in 1..Len(s.targets) : Owner(c.f, s.targets[j]) \in c.ib => StoresInt(c, s, j)

(* The context under other boxes. *)
WithIb(c, X) == Ctx(c.f, c.code, c.slotFn, c.upFn, c.ints, c.floats, c.sigs, X)

(* A statement that loses no box stores integers into all of them. *)
LEMMA DropFacts ==
  ASSUME NEW c, IsCtx(c), NEW s, NEW d, d = Drop(c, s)
  PROVE  /\ d = WithIb(c, d.ib) /\ d.ib \subseteq c.ib
         /\ d.ib = c.ib => Stores(c, s)
<1> DEFINE lead == IF /\ s.op = "local" /\ s.vals # <<>> /\ Len(s.targets) > Len(s.vals)
                      /\ IsMulti(Last(Last(s.vals)))
                   THEN Len(s.vals) - 1 ELSE Len(s.targets)
           Z == {Owner(c.f, s.targets[j]) : j \in {n \in 1..Len(s.targets) : n > lead \/ ~StoresInt(c, s, n)}}
           X == c.ib \ Z
<1>1. d = [c EXCEPT !.ib = X]
  BY DEF Drop
<1>2. ASSUME X = c.ib PROVE Stores(c, s)
  BY <1>2 DEF Stores
<1>3. X \subseteq c.ib
  OBVIOUS
<1> HIDE DEF X
<1>4. d = WithIb(c, X)
  BY <1>1, CtxWrites DEF WithIb
<1>5. d.ib = X
  BY <1>4, CtxFields DEF WithIb
<1> QED BY <1>2, <1>3, <1>4, <1>5

(* A body that loses no box stores integers into all of them. *)
LEMMA DropsFacts ==
  ASSUME NEW c, IsCtx(c), NEW seq, Len(seq) \in Nat, NEW d, d = DropAll(c, seq)
  PROVE  /\ d.ib \subseteq c.ib
         /\ d.ib = c.ib => \A k \in 1..Len(seq) : Stores(c, seq[k])
<1> DEFINE m == Len(seq)
           D == {WithIb(c, X) : X \in SUBSET c.ib}
           F == [k \in 1..m |-> [x \in D |-> Drop(x, seq[k])]]
           I == [k \in 0..m |-> {x \in D : x.ib = c.ib => \A i \in 1..k : Stores(c, seq[i])}]
<1>0. m \in Nat
  OBVIOUS
<1>1. c = WithIb(c, c.ib)
  BY DEF WithIb, IsCtx
<1>2. ASSUME NEW X, NEW x, x = WithIb(c, X)
      PROVE  IsCtx(x) /\ x.ib = X /\ \A Y : WithIb(x, Y) = WithIb(c, Y)
  <2>1. /\ x.f = c.f /\ x.code = c.code /\ x.slotFn = c.slotFn /\ x.upFn = c.upFn
        /\ x.ints = c.ints /\ x.floats = c.floats /\ x.sigs = c.sigs /\ x.ib = X /\ IsCtx(x)
    BY <1>2, CtxFields DEF WithIb
  <2> QED BY <2>1 DEF WithIb
<1>3. ASSUME NEW x \in D PROVE IsCtx(x) /\ x = WithIb(c, x.ib) /\ x.ib \subseteq c.ib /\ \A Y : WithIb(x, Y) = WithIb(c, Y)
  <2>1. PICK X \in SUBSET c.ib : x = WithIb(c, X)
    OBVIOUS
  <2> HIDE DEF D
  <2> QED BY <2>1, <1>2
<1>4. ASSUME NEW x \in D, NEW k \in 1..m
      PROVE  /\ Drop(x, seq[k]) \in D /\ Drop(x, seq[k]).ib \subseteq x.ib
             /\ Drop(x, seq[k]).ib = x.ib => Stores(x, seq[k])
  <2> DEFINE y == Drop(x, seq[k])
  <2>1. y = WithIb(x, y.ib) /\ y.ib \subseteq x.ib /\ (y.ib = x.ib => Stores(x, seq[k]))
    BY <1>3, DropFacts
  <2>2. y = WithIb(c, y.ib) /\ y.ib \in SUBSET c.ib
    <3> HIDE DEF y, D
    <3> QED BY <2>1, <1>3
  <2>3. y \in D
    <3> HIDE DEF y
    <3> QED BY <2>2
  <2> QED BY <2>1, <2>3
<1>5. c \in D
  BY <1>1
<1>6. DropSteps(D, F, seq, m)
  <2>1. \A k \in 1..m : \A x \in D : F[k][x] = Drop(x, seq[k])
    BY Zenon
  <2> HIDE DEF F, D
  <2> QED BY <1>4, <2>1 DEF DropSteps
<1>7. c \in I[0]
  <2>1. \A i \in 1..0 : FALSE
    OBVIOUS
  <2> HIDE DEF D
  <2> QED BY <1>5, <1>0, <2>1
<1>8. ASSUME NEW k \in 1..m, NEW x \in D, x \in I[k - 1] PROVE F[k][x] \in I[k]
  <2> DEFINE y == Drop(x, seq[k])
  <2>1. F[k][x] = y /\ y \in D
    BY <1>6 DEF DropSteps
  <2>2. k - 1 \in 0..m /\ k \in 0..m
    BY <1>0
  <2>3. x.ib = c.ib => \A i \in 1..(k - 1) : Stores(c, seq[i])
    <3> HIDE DEF D, F
    <3> QED BY <2>2, <1>8
  <2>4. y.ib \subseteq x.ib /\ (y.ib = x.ib => Stores(x, seq[k])) /\ x.ib \subseteq c.ib /\ x = WithIb(c, x.ib)
    BY <1>4, <1>3
  <2>5. ASSUME y.ib = c.ib PROVE \A i \in 1..k : Stores(c, seq[i])
    <3> HIDE DEF D, F, I, y
    <3>1. x.ib = c.ib /\ y.ib = x.ib
      BY <2>4, <2>5
    <3>2. x = c
      BY <3>1, <2>4, <1>1
    <3>3. Stores(c, seq[k])
      BY <2>4, <3>1, <3>2
    <3>4. \A i \in 1..(k - 1) : Stores(c, seq[i])
      BY <2>3, <3>1
    <3> QED BY <3>3, <3>4, <1>0
  <2> HIDE DEF D, F, y
  <2>6. y \in I[k]
    BY <2>1, <2>2, <2>5
  <2> QED BY <2>1, <2>6
<1> HIDE DEF D, F, I
<1>9. PICK g : Steps(g, D, F, c, m) /\ DropAll(c, seq) = g[m]
  <2>1. m = Len(seq)
    OBVIOUS
  <2> HIDE DEF m
  <2>2. Reaches(D, F, c, m, DropAll(c, seq))
    BY <1>5, <1>6, <1>0, <2>1, Drops
  <2> QED BY <2>2 DEF Reaches
<1>10. \A k \in 0..m : g[k] \in I[k]
  BY <1>9, <1>7, <1>8, <1>0, StepsKeep DEF Carries
<1>11. d \in I[m] /\ d \in D
  BY <1>9, <1>10, <1>0 DEF Steps
<1>12. d.ib = c.ib => \A i \in 1..m : Stores(c, seq[i])
  BY <1>11, <1>0 DEF I
<1> QED BY <1>12, <1>11, <1>3

-----------------------------------------------------------------------------
(* The bindings: what holds after each pass, *)

(* The phases of codegen_module. *)
Phases == {"bind locals", "bind origins", "bind upvalues", "infer", "round", "settle", "settled", "done"}
(* Every function has one of its bodies. *)
ProgOk == \A f \in All : prog[f] \in 1..Len(Bodies[f])
(* What slots and upvalues are bound to. *)
FnsOk ==
  /\ \A f \in All : slotFn[f] \in [1..NLocals[f] -> Fns \cup {NoFn}]
  /\ \A f \in Fns : upFn[f] \in [1..Len(Upvals[f]) -> Fns \cup {NoFn}]
(* The state of the passes. *)
ControlOk == phase \in Phases /\ at \in All /\ changed \in BOOLEAN /\ dropped \in BOOLEAN
(* Only candidates are boxes. *)
BoxOk == ibox \subseteq Candidates

(* After pass 1 and after pass 2. *)
OwnKept == \A f \in All : \A i \in 1..NLocals[f] : Assigns(f, Local(i)) => slotFn[f][i] = NoFn
(* Every upvalue assigned to is known, *)
ReassKnown == \A f \in Fns : \A u \in 1..Len(Upvals[f]) : Assigns(f, Up(u)) => <<f, u>> \in reass
(* and so its origin is bound to nothing. *)
AllKept ==
  \A f \in Fns : \A u \in 1..Len(Upvals[f]) : Assigns(f, Up(u)) =>
    slotFn[Origin[f][u][1]][Origin[f][u][2]] = NoFn
(* The bindings, pass by pass. *)
BindInv ==
  /\ phase # "bind locals" => OwnKept /\ ReassKnown
  /\ phase \notin {"bind locals", "bind origins"} => AllKept

(* The first part of the invariant. *)
TextInv == ProgOk /\ FnsOk /\ ControlOk /\ BindInv

(* What a sequence is. *)
LEMMA SeqFacts ==
  ASSUME NEW X, NEW xs \in Seq(X)
  PROVE  Len(xs) \in Nat /\ DOMAIN xs = 1..Len(xs) /\ \A j \in 1..Len(xs) : xs[j] \in X
  OBVIOUS

(* The bodies of a program are what the parser makes. *)
LEMMA CodeFacts ==
  ASSUME ProgOk, NEW f \in All
  PROVE  IsCode(f, Code(f)) /\ Body(f) = {Code(f)[n] : n \in 1..Len(Code(f))} /\ \A s \in Body(f) : IsStmt(f, s)
<1>1. IsCode(f, Code(f))
  BY BodiesAssumption DEF ProgOk, Code
<1>2. Body(f) = {Code(f)[n] : n \in 1..Len(Code(f))}
  BY <1>1 DEF Body, ToSet, IsCode
<1> QED BY <1>1, <1>2 DEF IsCode

(* The first part gives the property. *)
LEMMA BindingsOk == ASSUME TextInv PROVE BindingsStable
<1> SUFFICES ASSUME phase \notin {"bind locals", "bind origins"}, NEW f \in All, NEW g \in All,
                    NEW s \in UNION {Body(h) : h \in All}, s \in Body(g), s.op = "assign",
                    NEW j \in 1..Len(s.targets), Owner(g, s.targets[j])[1] = f
             PROVE  slotFn[f][Owner(g, s.targets[j])[2]] = NoFn
  BY Zenon DEF BindingsStable
<1> SUFFICES slotFn[Owner(g, s.targets[j])[1]][Owner(g, s.targets[j])[2]] = NoFn
  OBVIOUS
<1> DEFINE v == s.targets[j]
<1>1. OwnKept /\ AllKept
  BY DEF TextInv, BindInv
<1>2. IsStmt(g, s)
  BY CodeFacts DEF TextInv
<1>3. s.targets \in Seq(Vars(g)) /\ v \in Vars(g) /\ v \in ToSet(s.targets)
  <2>1. s.targets \in Seq(Vars(g))
    BY <1>2 DEF IsStmt
  <2>2. DOMAIN s.targets = 1..Len(s.targets) /\ v \in Vars(g)
    BY <2>1, SeqFacts
  <2> QED BY <2>1, <2>2 DEF ToSet
<1>4. Assigns(g, v)
  BY <1>3 DEF Assigns
<1> HIDE DEF v
<1>5. /\ v.k \in {"local", "upval"}
      /\ v.k = "local" => /\ v = Local(v.i) /\ v.i \in 1..NLocals[g] /\ Owner(g, v) = <<g, v.i>>
                          /\ Owner(g, v)[1] = g /\ Owner(g, v)[2] = v.i
      /\ v.k = "upval" => v = Up(v.i) /\ g \in Fns /\ v.i \in 1..Len(Upvals[g]) /\ Owner(g, v) = Origin[g][v.i]
  BY <1>3, OwnerSlot
<1>6. CASE v.k = "local"
  <2>1. v = Local(v.i) /\ v.i \in 1..NLocals[g] /\ Owner(g, v) = <<g, v.i>>
    BY <1>5, <1>6
  <2>2. slotFn[g][v.i] = NoFn
    BY <2>1, <1>4, <1>1 DEF OwnKept
  <2>3. Owner(g, v)[1] = g /\ Owner(g, v)[2] = v.i
    BY <1>5, <1>6
  <2>4. slotFn[Owner(g, v)[1]][Owner(g, v)[2]] = NoFn
    BY <2>2, <2>3
  <2> QED BY <2>4 DEF v
<1>7. CASE v.k = "upval"
  <2>1. v = Up(v.i) /\ g \in Fns /\ v.i \in 1..Len(Upvals[g]) /\ Owner(g, v) = Origin[g][v.i]
    BY <1>5, <1>7
  <2>2. slotFn[Origin[g][v.i][1]][Origin[g][v.i][2]] = NoFn
    BY <2>1, <1>4, <1>1 DEF AllKept
  <2> QED BY <2>1, <2>2 DEF v
<1> QED BY <1>5, <1>6, <1>7

(* It holds at the start. *)
LEMMA InitText == ASSUME Init PROVE TextInv
<1>1. ProgOk
  <2>1. \A f \in All : prog[f] <= Len(Bodies[f]) /\ prog[f] \in UNION {1..Len(Bodies[g]) : g \in All}
    BY DEF Init
  <2>2. \A f \in All : Len(Bodies[f]) \in Nat
    BY BodiesAssumption
  <2>3. ASSUME NEW f \in All PROVE prog[f] \in 1..Len(Bodies[f])
    <3>1. PICK g \in All : prog[f] \in 1..Len(Bodies[g])
      BY <2>1
    <3> QED BY <2>1, <2>2, <3>1
  <2> QED BY <2>3 DEF ProgOk
<1>2. FnsOk
  BY DEF Init, FnsOk
<1>3. ControlOk /\ BindInv
  <2>1. Main \in All
    BY NatN DEF All, Main
  <2> QED BY <2>1 DEF Init, ControlOk, Phases, BindInv
<1> QED BY <1>1, <1>2, <1>3 DEF TextInv

-----------------------------------------------------------------------------
(* and that each step keeps it. *)

(* The phases before bindings are stable. *)
Binding == {"bind locals", "bind origins"}

(* What is assigned is a matter of the program. *)
LEMMA AssignsSame ==
  ASSUME prog' = prog
  PROVE  \A f, v : Assigns(f, v)' <=> Assigns(f, v)
  BY DEF Assigns, Body, Code

(* Later phases leave the bindings alone. *)
LEMMA QuietText ==
  ASSUME TextInv, UNCHANGED <<prog, slotFn, upFn, reass>>, ControlOk', phase \notin Binding, phase' \notin Binding
  PROVE  TextInv'
<1>1. \A f, v : Assigns(f, v)' <=> Assigns(f, v)
  BY AssignsSame
<1>2. OwnKept /\ ReassKnown /\ AllKept
  BY DEF TextInv, BindInv, Binding
<1>3. OwnKept' /\ ReassKnown' /\ AllKept'
  BY <1>1, <1>2 DEF OwnKept, ReassKnown, AllKept
<1>4. ProgOk' /\ FnsOk'
  BY DEF TextInv, ProgOk, FnsOk
<1> QED BY <1>3, <1>4 DEF TextInv, BindInv

(* Pass 1 drops what a function assigns itself, *)
LEMMA Pass1Text == ASSUME TextInv, Pass1 PROVE TextInv'
<1>1. \A f, v : Assigns(f, v)' <=> Assigns(f, v)
  BY AssignsSame DEF Pass1
<1>2. /\ slotFn' = [f \in All |-> [i \in 1..NLocals[f] |->
               IF ~Assigns(f, Local(i)) /\ \E g \in Fns, s \in Body(f) : Binds(s, i, g)
               THEN CHOOSE g \in Fns : \E s \in Body(f) : Binds(s, i, g) ELSE NoFn]]
      /\ reass' = UNION {{<<f, u>> : u \in {v \in 1..Len(Upvals[f]) : Assigns(f, Up(v))}} : f \in Fns}
      /\ phase' = "bind origins" /\ UNCHANGED <<prog, upFn, at, changed, dropped>>
  BY DEF Pass1, BindLocals
<1>3. ASSUME NEW f \in All, NEW i \in 1..NLocals[f]
      PROVE  slotFn'[f][i] \in Fns \cup {NoFn} /\ (Assigns(f, Local(i)) => slotFn'[f][i] = NoFn)
  <2> DEFINE G == {g \in Fns : \E s \in Body(f) : Binds(s, i, g)}
  <2>1. slotFn'[f][i] = IF ~Assigns(f, Local(i)) /\ \E g \in Fns, s \in Body(f) : Binds(s, i, g)
                        THEN CHOOSE g \in Fns : \E s \in Body(f) : Binds(s, i, g) ELSE NoFn
    BY <1>2
  <2>2. (\E g \in Fns, s \in Body(f) : Binds(s, i, g)) => (CHOOSE g \in Fns : \E s \in Body(f) : Binds(s, i, g)) \in Fns
    BY Zenon
  <2> QED BY <2>1, <2>2
<1>4. FnsOk'
  <2>1. ASSUME NEW f \in All PROVE slotFn'[f] \in [1..NLocals[f] -> Fns \cup {NoFn}]
    <3>1. slotFn'[f] = [i \in 1..NLocals[f] |-> slotFn'[f][i]]
      BY <1>2
    <3> QED BY <3>1, <1>3
  <2> QED BY <2>1, <1>2 DEF FnsOk, TextInv
<1>5. OwnKept'
  BY <1>1, <1>3 DEF OwnKept
<1>6. ReassKnown'
  <2>1. ASSUME NEW f \in Fns, NEW u \in 1..Len(Upvals[f]), Assigns(f, Up(u)) PROVE <<f, u>> \in reass'
    <3> DEFINE R(g) == {<<g, w>> : w \in {v \in 1..Len(Upvals[g]) : Assigns(g, Up(v))}}
    <3>1. <<f, u>> \in R(f)
      BY <2>1
    <3>2. reass' = UNION {R(g) : g \in Fns}
      BY <1>2
    <3> HIDE DEF R
    <3> QED BY <3>1, <3>2
  <2> QED BY <2>1, <1>1 DEF ReassKnown
<1>7. ProgOk' /\ ControlOk'
  BY <1>2 DEF TextInv, ProgOk, ControlOk, Phases
<1> QED BY <1>2, <1>4, <1>5, <1>6, <1>7 DEF TextInv, BindInv

(* pass 2 what is assigned from within, *)
LEMMA Pass2Text == ASSUME TextInv, Pass2 PROVE TextInv'
<1>1. \A f, v : Assigns(f, v)' <=> Assigns(f, v)
  BY AssignsSame DEF Pass2
<1>2. /\ slotFn' = [f \in All |-> [i \in 1..NLocals[f] |-> IF <<f, i>> \in Unstable THEN NoFn ELSE slotFn[f][i]]]
      /\ phase = "bind origins" /\ phase' = "bind upvalues" /\ UNCHANGED <<prog, upFn, reass, at, changed, dropped>>
  BY DEF Pass2
<1>3. OwnKept /\ ReassKnown /\ FnsOk
  BY <1>2 DEF TextInv, BindInv
<1>4. FnsOk'
  BY <1>2, <1>3 DEF FnsOk
<1>5. OwnKept'
  BY <1>1, <1>2, <1>3 DEF OwnKept
<1>6. ReassKnown'
  BY <1>1, <1>2, <1>3 DEF ReassKnown
<1>7. AllKept'
  <2> SUFFICES ASSUME NEW f \in Fns, NEW u \in 1..Len(Upvals[f]), Assigns(f, Up(u))
               PROVE  slotFn'[Origin[f][u][1]][Origin[f][u][2]] = NoFn
    BY <1>1 DEF AllKept
  <2> DEFINE o == Origin[f][u]
             r == <<f, u>>
  <2>1. r \in reass /\ r[1] = f /\ r[2] = u
    BY <1>3 DEF ReassKnown
  <2>2. o \in Unstable
    BY <2>1 DEF Unstable
  <2>3. Slot(o)
    BY OriginSlot
  <2> HIDE DEF o
  <2>4. <<o[1], o[2]>> \in Unstable /\ o[1] \in All /\ o[2] \in 1..NLocals[o[1]]
    BY <2>2, <2>3 DEF Slot
  <2>5. slotFn'[o[1]][o[2]] = NoFn
    BY <2>4, <1>2
  <2> QED BY <2>5 DEF o
<1>8. ProgOk' /\ ControlOk'
  BY <1>2 DEF TextInv, ProgOk, ControlOk, Phases
<1> QED BY <1>2, <1>4, <1>5, <1>6, <1>7, <1>8 DEF TextInv, BindInv

(* and pass 3 binds upvalues to what is left. *)
LEMMA Pass3Text == ASSUME TextInv, Pass3 PROVE TextInv'
<1>1. \A f, v : Assigns(f, v)' <=> Assigns(f, v)
  BY AssignsSame DEF Pass3
<1>2. /\ upFn' = [f \in Fns |-> [u \in 1..Len(Upvals[f]) |-> LET o == Origin[f][u] IN slotFn[o[1]][o[2]]]]
      /\ phase = "bind upvalues" /\ phase' = "infer" /\ at' = 1 /\ changed' = FALSE
      /\ UNCHANGED <<prog, slotFn, reass, dropped>>
  BY DEF Pass3, StartInference
<1>3. OwnKept /\ ReassKnown /\ AllKept /\ FnsOk
  BY <1>2 DEF TextInv, BindInv
<1>4. FnsOk'
  <2>1. ASSUME NEW f \in Fns PROVE upFn'[f] \in [1..Len(Upvals[f]) -> Fns \cup {NoFn}]
    <3>1. ASSUME NEW u \in 1..Len(Upvals[f]) PROVE slotFn[Origin[f][u][1]][Origin[f][u][2]] \in Fns \cup {NoFn}
      <4> DEFINE o == Origin[f][u]
      <4>1. Slot(o)
        BY OriginSlot
      <4> HIDE DEF o
      <4>2. slotFn[o[1]][o[2]] \in Fns \cup {NoFn}
        BY <4>1, <1>3 DEF Slot, FnsOk
      <4> QED BY <4>2 DEF o
    <3> QED BY <3>1, <1>2
  <2> QED BY <2>1, <1>2, <1>3 DEF FnsOk
<1>5. OwnKept' /\ ReassKnown' /\ AllKept'
  BY <1>1, <1>2, <1>3 DEF OwnKept, ReassKnown, AllKept
<1>6. ProgOk'
  BY <1>2 DEF TextInv, ProgOk
<1>7. ControlOk'
  <2>1. 1 \in All
    BY NatN DEF All
  <2> QED BY <2>1, <1>2 DEF ControlOk, Phases, TextInv
<1> QED BY <1>4, <1>5, <1>6, <1>7 DEF TextInv, BindInv

(* Every step keeps the first part. *)
LEMMA NextText == ASSUME TextInv, [Next]_vars PROVE TextInv'
<1>0. Main \in All /\ 1 \in All /\ \A a \in All : a # N => a + 1 \in All
  BY NatN DEF All, Main
<1>c. ControlOk
  BY DEF TextInv
<1>1. CASE Pass1 BY <1>1, Pass1Text
<1>2. CASE Pass2 BY <1>2, Pass2Text
<1>3. CASE Pass3 BY <1>3, Pass3Text
<1> DEFINE Quiet == /\ UNCHANGED <<prog, slotFn, upFn, reass>> /\ ControlOk'
                    /\ phase \notin Binding /\ phase' \notin Binding
<1>4. CASE InferBody
  <2>1. Quiet
    <3>1. changed' \in BOOLEAN /\ dropped' \in BOOLEAN /\ phase' = "infer" /\ phase = "infer" /\ UNCHANGED <<prog, slotFn, upFn, reass>>
      BY <1>4, <1>c DEF InferBody, InferStep, ControlOk
    <3>2. at' \in All
      BY <1>4, <1>0, <1>c DEF InferBody, ControlOk
    <3> QED BY <3>1, <3>2 DEF ControlOk, Phases, Binding
  <2> QED BY <2>1, QuietText
<1>5. CASE InferMain
  <2>1. Quiet
    <3>1. changed' \in BOOLEAN /\ dropped' \in BOOLEAN /\ phase' = "round" /\ phase = "infer" /\ UNCHANGED <<prog, slotFn, upFn, reass, at>>
      BY <1>5, <1>c DEF InferMain, InferStep, ControlOk
    <3> QED BY <3>1, <1>c DEF ControlOk, Phases, Binding
  <2> QED BY <2>1, QuietText
<1>6. CASE Repeat \/ Finalize \/ SettleBody \/ Resettle \/ Reinfer \/ Emit
  <2>1. Quiet
    <3>1. CASE Repeat
      BY <3>1, <1>c, <1>0 DEF Repeat, ControlOk, Phases, Binding
    <3>2. CASE Finalize
      BY <3>2, <1>c, <1>0 DEF Finalize, RoundOver, ControlOk, Phases, Binding
    <3>3. CASE SettleBody
      BY <3>3, <1>c, <1>0 DEF SettleBody, ControlOk, Phases, Binding
    <3>4. CASE Resettle
      BY <3>4, <1>c, <1>0 DEF Resettle, ControlOk, Phases, Binding
    <3>5. CASE Reinfer
      BY <3>5, <1>c, <1>0 DEF Reinfer, StartInference, ControlOk, Phases, Binding
    <3>6. CASE Emit
      BY <3>6, <1>c, <1>0 DEF Emit, ControlOk, Phases, Binding
    <3> QED BY <1>6, <3>1, <3>2, <3>3, <3>4, <3>5, <3>6
  <2> QED BY <2>1, QuietText
<1>7. CASE UNCHANGED vars
  <2>1. \A f, v : Assigns(f, v)' <=> Assigns(f, v)
    BY <1>7, AssignsSame DEF vars
  <2>2. UNCHANGED <<prog, slotFn, upFn, reass, phase, at, changed, dropped>>
    BY <1>7 DEF vars
  <2>3. (OwnKept' <=> OwnKept) /\ (ReassKnown' <=> ReassKnown) /\ (AllKept' <=> AllKept)
    BY <2>1, <2>2 DEF OwnKept, ReassKnown, AllKept
  <2>4. ProgOk' /\ FnsOk' /\ ControlOk'
    BY <2>2 DEF ProgOk, FnsOk, ControlOk, TextInv
  <2> QED BY <2>2, <2>3, <2>4 DEF TextInv, BindInv
<1> QED BY <1>1, <1>2, <1>3, <1>4, <1>5, <1>6, <1>7 DEF Next, Done

-----------------------------------------------------------------------------
(* The int boxes. *)

(* Every statement of the body stores integers into the boxes. *)
Checks(c) == \A k \in 1..Len(c.code) : Stores(c, c.code[k])
(* In each form f is emitted in. *)
BoxesChecked(f) == \A seed \in Seeds(f) : Checks(Context(f, seed, sigs, ibox))
(* The bodies of this round that ibox_settle has seen. *)
Seen == IF phase = "settle" THEN {f \in All : f < at} ELSE All
(* The second part of the invariant. *)
BoxInv ==
  /\ BoxOk
  /\ phase \in {"settle", "settled"} /\ changed = FALSE => \A f \in Seen : BoxesChecked(f)
  /\ phase = "done" => \A f \in All : BoxesChecked(f)

(* Contexts depend on the program and the bindings. *)
LEMMA ContextSame ==
  ASSUME UNCHANGED <<prog, slotFn, upFn>>
  PROVE  /\ \A f, seed, sg, ib : Context(f, seed, sg, ib)' = Context(f, seed, sg, ib)
         /\ \A f, seed : Context(f, seed, sigs, ibox)' = Context(f, seed, sigs', ibox')
  BY DEF Context, BodyOf, Code

(* Nothing changed, nothing to check again. *)
LEMMA BoxesSame ==
  ASSUME UNCHANGED <<prog, slotFn, upFn, sigs, ibox>>
  PROVE  \A f : BoxesChecked(f)' <=> BoxesChecked(f)
<1>1. \A f, seed, sg, ib : Context(f, seed, sg, ib)' = Context(f, seed, sg, ib)
  BY ContextSame
<1>2. \A f : Seeds(f)' = Seeds(f)
  BY DEF Seeds
<1>3. \A f, seed : Context(f, seed, sigs, ibox)' = Context(f, seed, sigs, ibox)
  BY DEF Context, BodyOf, Code
<1> QED BY <1>2, <1>3 DEF BoxesChecked

(* Boxes are only dropped, and one look without a drop is a check, *)
LEMMA CheckedFacts ==
  ASSUME ProgOk, NEW f \in All, NEW seed, NEW ib
  PROVE  /\ CheckedBody(f, seed, ib) \subseteq ib
         /\ CheckedBody(f, seed, ib) = ib => Checks(Context(f, seed, sigs, ib))
<1> DEFINE c == Context(f, seed, sigs, ib)
           d == DropAll(c, Code(f))
<1>1. IsCtx(c) /\ c.code = Code(f) /\ c.ib = ib
  BY ContextFields
<1>2. Len(Code(f)) \in Nat
  BY CodeFacts DEF IsCode
<1>3. CheckedBody(f, seed, ib) = d.ib
  BY DEF CheckedBody
<1> HIDE DEF c
<1>4. d.ib \subseteq c.ib /\ (d.ib = c.ib => \A k \in 1..Len(Code(f)) : Stores(c, Code(f)[k]))
  BY <1>1, <1>2, DropsFacts
<1> HIDE DEF d
<1>5. d.ib = ib => Checks(c)
  BY <1>4, <1>1 DEF Checks
<1> QED BY <1>1, <1>3, <1>4, <1>5 DEF c

(* as are both looks at a body that is called directly. *)
LEMMA SettleBoxes ==
  ASSUME ProgOk, NEW f \in All
  PROVE  /\ Checked(f) \subseteq ibox
         /\ Checked(f) = ibox => BoxesChecked(f)
<1> DEFINE ib == CheckedBody(f, NoSeed, ibox)
           two == f # Main /\ sigs[f].site
           last == CheckedBody(f, sigs[f].params, ib)
<1>1. ib \subseteq ibox /\ (ib = ibox => Checks(Context(f, NoSeed, sigs, ibox)))
  BY CheckedFacts
<1>2. last \subseteq ib /\ (last = ib => Checks(Context(f, sigs[f].params, sigs, ib)))
  BY CheckedFacts
<1>3. Checked(f) = IF two THEN last ELSE ib
  BY DEF Checked
<1>4. \A seed \in Seeds(f) : seed = NoSeed \/ (two /\ seed = sigs[f].params)
  BY DEF Seeds
<1> HIDE DEF ib, last, two
<1>5. ASSUME Checked(f) = ibox, NEW seed \in Seeds(f) PROVE Checks(Context(f, seed, sigs, ibox))
  <2>1. ib = ibox
    BY <1>1, <1>2, <1>3, <1>5
  <2>2. two => last = ibox
    BY <1>3, <1>5
  <2>3. CASE seed = NoSeed
    BY <2>3, <2>1, <1>1
  <2>4. CASE two /\ seed = sigs[f].params
    BY <2>4, <2>1, <2>2, <1>2
  <2> QED BY <1>4, <2>3, <2>4
<1> QED BY <1>1, <1>2, <1>3, <1>5 DEF BoxesChecked

(* There are no boxes at the start. *)
LEMMA InitBoxes == ASSUME Init PROVE BoxInv
  BY DEF Init, BoxInv, BoxOk

(* A round without a drop has checked each body under the boxes there are. *)
LEMMA SettleKeeps == ASSUME TextInv, BoxInv, SettleBody PROVE BoxInv'
<1>1. /\ phase = "settle" /\ ibox' = Checked(at) /\ UNCHANGED <<prog, slotFn, upFn, sigs>>
      /\ changed' = (changed \/ ibox' # ibox)
      /\ IF at = N THEN phase' = "settled" /\ UNCHANGED at ELSE at' = at + 1 /\ UNCHANGED phase
  BY DEF SettleBody
<1>2. ProgOk /\ ControlOk
  BY DEF TextInv
<1>3. at \in All
  BY <1>2 DEF ControlOk
<1>4. Checked(at) \subseteq ibox /\ (Checked(at) = ibox => BoxesChecked(at))
  BY <1>2, <1>3, SettleBoxes
<1>5. BoxOk'
  BY <1>1, <1>4 DEF BoxOk, BoxInv, Candidates, Captured
<1>6. ASSUME changed' = FALSE, NEW f \in Seen' PROVE BoxesChecked(f)'
  <2>1. changed = FALSE /\ ibox' = ibox
    BY <1>1, <1>6, <1>2 DEF ControlOk
  <2>2. f \in All /\ (f < at \/ f = at)
    <3>1. CASE at = N
      BY <3>1, <1>1, <1>6, NatN DEF Seen, All
    <3>2. CASE at # N
      BY <3>2, <1>1, <1>3, <1>6, NatN DEF Seen, All
    <3> QED BY <3>1, <3>2
  <2>3. BoxesChecked(f)
    <3>1. CASE f = at
      BY <3>1, <2>1, <1>1, <1>4
    <3>2. CASE f < at
      BY <3>2, <2>1, <2>2, <1>1 DEF BoxInv, Seen
    <3> QED BY <2>2, <3>1, <3>2
  <2> QED BY <2>1, <2>3, <1>1, BoxesSame
<1>7. phase' # "done"
  BY <1>1
<1> QED BY <1>5, <1>6, <1>7 DEF BoxInv

(* Every step keeps the second part, *)
LEMMA NextBoxes == ASSUME TextInv, BoxInv, [Next]_vars PROVE BoxInv'
<1>c. Candidates' = Candidates
  BY DEF Candidates, Captured
<1>1. CASE SettleBody BY <1>1, SettleKeeps
<1>2. CASE Pass1 \/ Pass2
  <2>1. ibox' = ibox /\ phase' \in {"bind origins", "bind upvalues"}
    BY <1>2 DEF Pass1, Pass2
  <2> QED BY <2>1, <1>c DEF BoxInv, BoxOk
<1>3. CASE Pass3
  <2>1. ibox' = Candidates /\ phase' = "infer"
    BY <1>3 DEF Pass3, StartInference
  <2> QED BY <2>1, <1>c DEF BoxInv, BoxOk
<1>4. CASE InferBody \/ InferMain \/ Repeat \/ Reinfer
  <2>1. ibox' = ibox /\ phase' \in {"infer", "round"}
    BY <1>4 DEF InferBody, InferMain, Repeat, Reinfer, StartInference
  <2> QED BY <2>1, <1>c DEF BoxInv, BoxOk
<1>5. CASE Finalize
  <2>1. /\ ibox' = ibox /\ at' = Main /\ phase' = (IF Candidates = {} THEN "done" ELSE "settle")
    BY <1>5 DEF Finalize
  <2>2. BoxOk'
    BY <2>1, <1>c DEF BoxInv, BoxOk
  <2>3. CASE Candidates = {}
    <3>1. (ibox = {})'
      BY <2>1, <2>3 DEF BoxInv, BoxOk
    <3>2. \A f : BoxesChecked(f)'
      <4>1. \A f, seed : Context(f, seed, sigs, ibox)' = Context(f, seed, sigs', ibox')
        BY ContextSame, <1>5 DEF Finalize
      <4>2. ASSUME NEW f, NEW seed PROVE Checks(Context(f, seed, sigs', ibox'))
        <5> DEFINE c == Context(f, seed, sigs', ibox')
        <5>1. c.ib = {}
          BY <3>1, ContextFields
        <5> HIDE DEF c
        <5>2. Checks(c)
          BY <5>1 DEF Checks, Stores
        <5> QED BY <5>2 DEF c
      <4> QED BY <4>1, <4>2 DEF BoxesChecked
    <3>3. phase' = "done"
      BY <2>1, <2>3
    <3> QED BY <2>2, <3>2, <3>3 DEF BoxInv
  <2>4. CASE Candidates # {}
    <3>1. phase' = "settle"
      BY <2>1, <2>4
    <3>2. \A f \in Seen' : FALSE
      BY <3>1, <2>1, NatN DEF Seen, All, Main
    <3> QED BY <2>2, <3>1, <3>2 DEF BoxInv
  <2> QED BY <2>3, <2>4
<1>6. CASE Resettle
  <2>1. ibox' = ibox /\ phase' = "settle" /\ at' = Main
    BY <1>6 DEF Resettle
  <2>2. \A f \in Seen' : FALSE
    BY <2>1, NatN DEF Seen, All, Main
  <2> QED BY <2>1, <2>2, <1>c DEF BoxInv, BoxOk
<1>7. CASE Emit
  <2>1. /\ UNCHANGED <<prog, slotFn, upFn, sigs, ibox>> /\ phase = "settled" /\ phase' = "done" /\ ~changed
    BY <1>7 DEF Emit
  <2>2. changed = FALSE
    BY <2>1 DEF TextInv, ControlOk
  <2>3. \A f \in All : BoxesChecked(f)
    BY <2>1, <2>2 DEF BoxInv, Seen
  <2>4. \A f \in All : BoxesChecked(f)'
    BY <2>1, <2>3, BoxesSame
  <2> QED BY <2>1, <2>4, <1>c DEF BoxInv, BoxOk
<1>8. CASE UNCHANGED vars
  <2>1. UNCHANGED <<prog, slotFn, upFn, sigs, ibox, phase, at, changed>>
    BY <1>8 DEF vars
  <2>2. \A f : BoxesChecked(f)' <=> BoxesChecked(f)
    BY <2>1, BoxesSame
  <2>3. Seen' = Seen
    BY <2>1 DEF Seen
  <2> QED BY <2>1, <2>2, <2>3, <1>c DEF BoxInv, BoxOk
<1> QED BY <1>1, <1>2, <1>3, <1>4, <1>5, <1>6, <1>7, <1>8 DEF Next, Done

(* which gives the property. *)
LEMMA BoxesOk == ASSUME TextInv, BoxInv PROVE BoxStoresAreInts
<1> SUFFICES ASSUME phase = "done", NEW f \in All, NEW seed \in Seeds(f), NEW s \in Body(f),
                    NEW j \in 1..Len(s.targets), Owner(f, s.targets[j]) \in ibox
             PROVE  StoresInt(Context(f, seed, sigs, ibox), s, j)
  BY DEF BoxStoresAreInts
<1> DEFINE c == Context(f, seed, sigs, ibox)
<1>1. c.f = f /\ c.code = Code(f) /\ c.ib = ibox
  BY ContextFields
<1>2. Checks(c)
  BY DEF BoxInv, BoxesChecked
<1> HIDE DEF c
<1>3. PICK k \in 1..Len(Code(f)) : s = Code(f)[k]
  BY CodeFacts DEF TextInv
<1>4. Stores(c, s)
  BY <1>1, <1>2, <1>3 DEF Checks
<1>5. StoresInt(c, s, j)
  BY <1>4, <1>1 DEF Stores
<1> QED BY <1>5 DEF c

-----------------------------------------------------------------------------
(* Signatures and types are well formed. *)

(* The types of expressions. *)
Ty3 == {"any", "int", "float"}

(* Signatures of g. *)
Sig(g) == [params : [1..NParams[g] -> NumTys], ret : Ty3, site : BOOLEAN]
(* A signature for each function. *)
AllSigs == {sg \in [Fns -> UNION {Sig(g) : g \in Fns}] : \A g \in Fns : sg[g] \in Sig(g)}
(* sg has one. *)
SigsOk(sg) == sg \in AllSigs

(* The fields of a signature. *)
LEMMA SigsFacts ==
  ASSUME NEW sg, SigsOk(sg), NEW g \in Fns
  PROVE  /\ sg[g].params \in [1..NParams[g] -> NumTys] /\ sg[g].ret \in Ty3 /\ sg[g].site \in BOOLEAN
         /\ sg[g] = [params |-> sg[g].params, ret |-> sg[g].ret, site |-> sg[g].site]
         /\ sg = [h \in Fns |-> sg[h]] /\ sg[g] \in Sig(g)
<1>1. sg[g] \in Sig(g) /\ sg = [h \in Fns |-> sg[h]]
  BY DEF SigsOk, AllSigs
<1> QED BY <1>1 DEF Sig

(* How signatures are shown to be such. *)
LEMMA SigsIntro ==
  ASSUME NEW sg, sg = [h \in Fns |-> sg[h]], \A g \in Fns : sg[g] \in Sig(g)
  PROVE  SigsOk(sg)
<1>1. \A g \in Fns : sg[g] \in UNION {Sig(h) : h \in Fns}
  OBVIOUS
<1> HIDE DEF Sig
<1>2. sg \in [Fns -> UNION {Sig(h) : h \in Fns}]
  BY <1>1
<1> QED BY <1>2 DEF SigsOk, AllSigs

(* The bindings of a context. *)
FnsIn(c) ==
  /\ c.slotFn \in [1..NLocals[c.f] -> Fns \cup {NoFn}]
  /\ c.f # Main => c.upFn \in [1..Len(Upvals[c.f]) -> Fns \cup {NoFn}]
(* A well-formed context. *)
CtxOk(c) == IsCtx(c) /\ c.f \in All /\ IsCode(c.f, c.code) /\ FnsIn(c) /\ SigsOk(c.sigs)

(* A direct call passes as many arguments as its callee has parameters. *)
LEMMA TargetFacts ==
  ASSUME NEW c, CtxOk(c), NEW e, IsExpr(c.f, e), NEW n \in 1..Len(e), e[n].t = "call",
         NEW g, g = DirectTarget(c, e, n)
  PROVE  /\ g \in Fns \cup {NoFn}
         /\ Len(e[n].args) \in Nat /\ \A j \in 1..Len(e[n].args) : e[n].args[j] \in 1..(n - 1)
         /\ g # NoFn => g \in Fns /\ Len(e[n].args) = NParams[g]
<1> DEFINE nd == e[n]
           h == IF nd.fn.k = "local" THEN c.slotFn[nd.fn.i] ELSE c.upFn[nd.fn.i]
           v == nd.fn
<1>1. nd.fn \in Vars(c.f) /\ nd.args \in Seq(1..(n - 1))
  BY DEF IsExpr, IsNode
<1>2. Len(nd.args) \in Nat /\ \A j \in 1..Len(nd.args) : nd.args[j] \in 1..(n - 1)
  BY <1>1, SeqFacts
<1>3. h \in Fns \cup {NoFn}
  <2>1. c.f \in All
    BY DEF CtxOk
  <2> HIDE DEF v
  <2>2. v \in Vars(c.f)
    BY <1>1 DEF v
  <2>3. /\ v.k \in {"local", "upval"} /\ (v.k = "local" => v.i \in 1..NLocals[c.f])
        /\ (v.k = "upval" => c.f \in Fns /\ v.i \in 1..Len(Upvals[c.f]))
    BY <2>1, <2>2, OwnerSlot
  <2>4. c.f \in Fns => c.f # Main
    BY NatN DEF Fns, Main
  <2>5. (IF v.k = "local" THEN c.slotFn[v.i] ELSE c.upFn[v.i]) \in Fns \cup {NoFn}
    BY <2>3, <2>4 DEF CtxOk, FnsIn
  <2> QED BY <2>5 DEF v
<1>4. /\ g = h \/ g = NoFn
      /\ g # NoFn => Len(nd.args) = NParams[g]
  BY DEF DirectTarget
<1> HIDE DEF h
<1> QED BY <1>2, <1>3, <1>4

(* Operators have types, *)
LEMMA OpTyIn == ASSUME NEW op, NEW l \in Ty3, NEW r \in Ty3 PROVE OpTy(op, l, r) \in Ty3
  BY DEF OpTy, Ty3

(* variables, *)
LEMMA VarTyIn == ASSUME NEW c, NEW v PROVE VarTy(c, v) \in Ty3
  BY DEF VarTy, Ty3

(* and nodes. *)
LEMMA NodeTyIn ==
  ASSUME NEW c, CtxOk(c), NEW e, IsExpr(c.f, e), NEW n \in 1..Len(e), NEW tys, \A i \in 1..(n - 1) : tys[i] \in Ty3
  PROVE  NodeTy(c, e, n, tys) \in Ty3
<1> DEFINE nd == e[n]
           g == DirectTarget(c, e, n)
           A == ArgsTyped(c.sigs[g].params, [j \in 1..Len(nd.args) |-> tys[nd.args[j]]])
<1>1. IsNode(c.f, nd, n)
  BY DEF IsExpr
<1>2. CASE nd.t \in {"int", "float"}
  BY <1>2 DEF NodeTy, Ty3
<1>3. CASE nd.t \in {"any", "fn"}
  BY <1>3 DEF NodeTy, Ty3
<1>4. CASE nd.t = "var"
  <2>1. NodeTy(c, e, n, tys) = VarTy(c, nd.v)
    BY <1>4 DEF NodeTy
  <2> QED BY <2>1, VarTyIn
<1>5. CASE nd.t = "bin"
  <2>1. NodeTy(c, e, n, tys) = OpTy(nd.op, tys[nd.l], tys[nd.r])
    BY <1>5 DEF NodeTy
  <2>2. tys[nd.l] \in Ty3 /\ tys[nd.r] \in Ty3
    BY <1>1, <1>5 DEF IsNode
  <2> QED BY <2>1, <2>2, OpTyIn
<1>6. CASE nd.t = "call"
  <2>1. NodeTy(c, e, n, tys) = IF g # NoFn /\ A THEN c.sigs[g].ret ELSE "any"
    BY <1>6 DEF NodeTy
  <2>2. g # NoFn => c.sigs[g].ret \in Ty3
    <3>1. g # NoFn => g \in Fns
      BY <1>6, TargetFacts
    <3> HIDE DEF g
    <3> QED BY <3>1, SigsFacts DEF CtxOk
  <2> HIDE DEF A, g
  <2> QED BY <2>1, <2>2 DEF Ty3
<1> QED BY <1>1, <1>2, <1>3, <1>4, <1>5, <1>6 DEF IsNode

(* The nodes before n are typed alike. *)
AgreeBelow(s, t, n) == \A i \in 1..(n - 1) : s[i] = t[i]

(* Only they matter. *)
LEMMA NodeTyLocal ==
  ASSUME NEW c, CtxOk(c), NEW e, IsExpr(c.f, e), NEW n \in 1..Len(e), NEW s, NEW t, AgreeBelow(s, t, n)
  PROVE  NodeTy(c, e, n, s) = NodeTy(c, e, n, t)
<1> DEFINE nd == e[n]
           g == DirectTarget(c, e, n)
<1>1. IsNode(c.f, nd, n)
  BY DEF IsExpr
<1>2. CASE nd.t = "bin"
  <2>1. s[nd.l] = t[nd.l] /\ s[nd.r] = t[nd.r]
    BY <1>1, <1>2 DEF IsNode, AgreeBelow
  <2> QED BY <2>1, <1>2 DEF NodeTy
<1>3. CASE nd.t = "call"
  <2>1. Len(nd.args) \in Nat /\ \A j \in 1..Len(nd.args) : nd.args[j] \in 1..(n - 1)
    BY <1>3, TargetFacts
  <2>2. [j \in 1..Len(nd.args) |-> s[nd.args[j]]] = [j \in 1..Len(nd.args) |-> t[nd.args[j]]]
    BY <2>1 DEF AgreeBelow
  <2>3. \A u : NodeTy(c, e, n, u) = IF g # NoFn /\ ArgsTyped(c.sigs[g].params, [j \in 1..Len(nd.args) |-> u[nd.args[j]]])
                                    THEN c.sigs[g].ret ELSE "any"
    BY <1>3 DEF NodeTy
  <2> HIDE DEF g
  <2> QED BY <2>2, <2>3
<1>4. CASE nd.t \notin {"bin", "call"}
  BY <1>4 DEF NodeTy
<1> QED BY <1>2, <1>3, <1>4

(* g types the first k nodes. *)
NodesTyped(g, c, e, k) == g \in [1..k -> Ty3] /\ \A n \in 1..k : g[n] = NodeTy(c, e, n, g)

(* They can be typed in order, *)
LEMMA NodesExist ==
  ASSUME NEW c, CtxOk(c), NEW e, IsExpr(c.f, e)
  PROVE  \A k \in 0..Len(e) : \E g : NodesTyped(g, c, e, k)
<1> DEFINE T == {k \in 0..Len(e) : ~ \E g : NodesTyped(g, c, e, k)}
<1> SUFFICES ASSUME T # {} PROVE FALSE
  OBVIOUS
<1>0. Len(e) \in Nat
  BY DEF IsExpr
<1>t. T \subseteq Nat
  BY <1>0
<1>1. PICK k \in T : \A j \in T : k <= j
  <2> HIDE DEF T
  <2> QED BY <1>t, LeastNat
<1>2. k # 0
  <2> DEFINE z == [i \in 1..0 |-> "any"]
  <2>1. NodesTyped(z, c, e, 0)
    BY DEF NodesTyped
  <2> QED BY <2>1
<1>3. k \in 1..Len(e) /\ k \in Nat /\ k - 1 \in 0..Len(e) /\ k - 1 \notin T
  BY <1>0, <1>1, <1>2
<1>4. PICK g : NodesTyped(g, c, e, k - 1)
  BY <1>3
<1>5. g \in [1..(k - 1) -> Ty3] /\ \A n \in 1..(k - 1) : g[n] = NodeTy(c, e, n, g)
  BY <1>4 DEF NodesTyped
<1> DEFINE x == NodeTy(c, e, k, g)
           h == [n \in 1..k |-> IF n = k THEN x ELSE g[n]]
<1>6. x \in Ty3
  BY <1>3, <1>5, NodeTyIn
<1> HIDE DEF x
<1>7. h \in [1..k -> Ty3] /\ h[k] = x /\ \A n \in 1..(k - 1) : h[n] = g[n]
  BY <1>3, <1>5, <1>6
<1> HIDE DEF h
<1>8. ASSUME NEW n \in 1..k PROVE h[n] = NodeTy(c, e, n, h)
  <2>1. n \in 1..Len(e) /\ AgreeBelow(g, h, n)
    BY <1>3, <1>7, <1>0 DEF AgreeBelow
  <2>2. NodeTy(c, e, n, g) = NodeTy(c, e, n, h)
    BY <2>1, NodeTyLocal
  <2>3. CASE n = k
    BY <2>2, <2>3, <1>7 DEF x
  <2>4. CASE n # k
    <3>1. n \in 1..(k - 1)
      BY <2>4, <1>3
    <3> QED BY <3>1, <2>2, <1>5, <1>7
  <2> QED BY <2>3, <2>4
<1>9. NodesTyped(h, c, e, k)
  BY <1>7, <1>8 DEF NodesTyped
<1> QED BY <1>9

(* in one way, *)
LEMMA NodesUnique ==
  ASSUME NEW c, CtxOk(c), NEW e, IsExpr(c.f, e), NEW g, NodesTyped(g, c, e, Len(e)),
         NEW h, h = [n \in 1..Len(e) |-> NodeTy(c, e, n, h)]
  PROVE  h = g
<1> DEFINE m == Len(e)
           T == {k \in 1..m : h[k] # g[k]}
<1>0. m \in Nat
  BY DEF IsExpr
<1>1. ASSUME T # {} PROVE FALSE
  <2>t. T \subseteq Nat
    BY <1>0
  <2>1. PICK k \in T : \A j \in T : k <= j
    <3> HIDE DEF T
    <3> QED BY <1>1, <2>t, LeastNat
  <2>2. k \in 1..m /\ k \in Nat /\ \A i \in 1..(k - 1) : i \in 1..m /\ i \notin T
    BY <2>1, <1>0
  <2>3. AgreeBelow(h, g, k)
    BY <2>2 DEF AgreeBelow
  <2> HIDE DEF T
  <2>4. NodeTy(c, e, k, h) = NodeTy(c, e, k, g)
    BY <2>2, <2>3, NodeTyLocal
  <2>5. h[k] = NodeTy(c, e, k, h) /\ g[k] = NodeTy(c, e, k, g)
    BY <2>2 DEF NodesTyped
  <2> QED BY <2>1, <2>4, <2>5 DEF T
<1>2. \A k \in 1..m : h[k] = g[k]
  BY <1>1
<1>3. DOMAIN h = 1..m /\ h = [k \in 1..m |-> h[k]]
  <2> DEFINE b(n) == NodeTy(c, e, n, h)
  <2>1. h = [n \in 1..m |-> b(n)]
    OBVIOUS
  <2> HIDE DEF b
  <2> QED BY <2>1
<1>4. g = [k \in 1..m |-> g[k]]
  BY DEF NodesTyped
<1> QED BY <1>2, <1>3, <1>4

(* and NodeTys does. *)
LEMMA NodeTysIs ==
  ASSUME NEW c, CtxOk(c), NEW e, IsExpr(c.f, e)
  PROVE  NodesTyped(NodeTys(c, e), c, e, Len(e))
<1> DEFINE Eq(h) == h = [n \in 1..Len(e) |-> NodeTy(c, e, n, h)]
<1>1. Len(e) \in 0..Len(e)
  BY DEF IsExpr
<1>2. PICK g : NodesTyped(g, c, e, Len(e))
  BY <1>1, NodesExist
<1>3. Eq(g)
  <2>1. g = [n \in 1..Len(e) |-> g[n]] /\ \A n \in 1..Len(e) : g[n] = NodeTy(c, e, n, g)
    BY <1>2 DEF NodesTyped
  <2> QED BY <2>1
<1> DEFINE f == CHOOSE h : Eq(h)
<1>4. Eq(f)
  <2> HIDE DEF Eq
  <2> QED BY <1>3, Zenon
<1>5. NodeTys(c, e) = f
  BY Zenon DEF NodeTys
<1> HIDE DEF f
<1>6. f = g
  BY <1>2, <1>4, NodesUnique
<1> QED BY <1>2, <1>5, <1>6

-----------------------------------------------------------------------------
(* Types depend on what the signatures of the functions called say, *)

(* The context under other signatures. *)
WithSigs(c, sg) == Ctx(c.f, c.code, c.slotFn, c.upFn, c.ints, c.floats, sg, c.ib)

(* Two contexts that differ in their signatures only. *)
Kin(x, y) ==
  /\ CtxOk(x) /\ CtxOk(y) /\ x.f = y.f /\ x.code = y.code /\ x.slotFn = y.slotFn /\ x.upFn = y.upFn
  /\ x.ints = y.ints /\ x.floats = y.floats /\ x.ib = y.ib
(* The signature of g says the same in both. *)
SameSig(x, y, g) == x.sigs[g].params = y.sigs[g].params /\ x.sigs[g].ret = y.sigs[g].ret
(* Node n is a call. *)
IsCall(e, n) == n \in 1..Len(e) /\ e[n].t = "call"
(* The functions e calls directly have the same signatures in both, *)
AgreeOn(x, y, e) ==
  \A n \in 1..Len(e) : IsCall(e, n) /\ DirectTarget(x, e, n) # NoFn => SameSig(x, y, DirectTarget(x, e, n))
(* and those the body calls. *)
AgreeBody(x, y) ==
  \A k \in 1..Len(x.code) : \A v \in 1..Len(x.code[k].vals) : AgreeOn(x, y, x.code[k].vals[v])

(* Targets depend on the bindings. *)
LEMMA TargetSame ==
  ASSUME NEW x, NEW y, x.f = y.f, x.slotFn = y.slotFn, x.upFn = y.upFn
  PROVE  \A e, n : DirectTarget(x, e, n) = DirectTarget(y, e, n)
  BY DEF DirectTarget

(* So a node has the same type, *)
LEMMA NodeTySame ==
  ASSUME NEW x, NEW y, Kin(x, y), NEW e, AgreeOn(x, y, e), NEW n \in 1..Len(e), NEW t
  PROVE  NodeTy(x, e, n, t) = NodeTy(y, e, n, t)
<1> DEFINE nd == e[n]
           g == DirectTarget(x, e, n)
           ts == [j \in 1..Len(nd.args) |-> t[nd.args[j]]]
<1>1. CASE nd.t = "call"
  <2>1. DirectTarget(y, e, n) = g
    BY TargetSame DEF Kin
  <2>2. NodeTy(x, e, n, t) = IF g # NoFn /\ ArgsTyped(x.sigs[g].params, ts) THEN x.sigs[g].ret ELSE "any"
    BY <1>1 DEF NodeTy
  <2>3. NodeTy(y, e, n, t) = IF g # NoFn /\ ArgsTyped(y.sigs[g].params, ts) THEN y.sigs[g].ret ELSE "any"
    BY <1>1, <2>1 DEF NodeTy
  <2>4. g # NoFn => SameSig(x, y, g)
    BY <1>1 DEF AgreeOn, IsCall
  <2> HIDE DEF g, ts
  <2> QED BY <2>2, <2>3, <2>4 DEF SameSig
<1>2. CASE nd.t = "var"
  <2>1. VarTy(x, nd.v) = VarTy(y, nd.v)
    BY DEF VarTy, Kin
  <2> QED BY <2>1, <1>2 DEF NodeTy
<1>3. CASE nd.t \notin {"call", "var"}
  BY <1>3 DEF NodeTy
<1> QED BY <1>1, <1>2, <1>3

(* and all of them, *)
LEMMA NodeTysSame ==
  ASSUME NEW x, NEW y, Kin(x, y), NEW e, IsExpr(x.f, e), AgreeOn(x, y, e)
  PROVE  NodeTys(x, e) = NodeTys(y, e)
<1> DEFINE s == NodeTys(x, e)
           t == NodeTys(y, e)
<1>1. CtxOk(x) /\ CtxOk(y) /\ IsExpr(y.f, e)
  BY DEF Kin
<1>2. NodesTyped(s, x, e, Len(e)) /\ NodesTyped(t, y, e, Len(e))
  BY <1>1, NodeTysIs
<1> HIDE DEF s, t
<1>3. \A n \in 1..Len(e) : t[n] = NodeTy(x, e, n, t)
  BY <1>2, NodeTySame DEF NodesTyped
<1>4. t = [n \in 1..Len(e) |-> NodeTy(x, e, n, t)]
  <2>1. t = [n \in 1..Len(e) |-> t[n]]
    BY <1>2 DEF NodesTyped
  <2> QED BY <2>1, <1>3
<1>5. t = s
  BY <1>1, <1>2, <1>4, NodesUnique
<1> QED BY <1>5 DEF s, t

(* and each value of a statement. *)
LEMMA NumTySame ==
  ASSUME NEW x, NEW y, Kin(x, y), AgreeBody(x, y), NEW k \in 1..Len(x.code), NEW v \in 1..Len(x.code[k].vals)
  PROVE  /\ NodeTys(x, x.code[k].vals[v]) = NodeTys(y, x.code[k].vals[v])
         /\ NumTy(x, x.code[k].vals[v]) = NumTy(y, x.code[k].vals[v])
         /\ NumTy(x, x.code[k].vals[v]) \in Ty3
         /\ IsExpr(x.f, x.code[k].vals[v])
<1> DEFINE e == x.code[k].vals[v]
<1>1. IsExpr(x.f, e)
  BY DEF Kin, CtxOk, IsCode, IsStmt
<1>2. AgreeOn(x, y, e)
  BY DEF AgreeBody
<1> HIDE DEF e
<1>3. NodeTys(x, e) = NodeTys(y, e)
  BY <1>1, <1>2, NodeTysSame
<1>4. NodesTyped(NodeTys(x, e), x, e, Len(e))
  BY <1>1, NodeTysIs DEF Kin
<1>5. Len(e) \in 1..Len(e)
  BY <1>1 DEF IsExpr
<1>6. NumTy(x, e) = NumTy(y, e) /\ NumTy(x, e) \in Ty3
  BY <1>3, <1>4, <1>5 DEF NumTy, NodesTyped
<1> QED BY <1>1, <1>3, <1>6 DEF e

(* So a store keeps its type in both, *)
LEMMA KeepsSame ==
  ASSUME NEW x, NEW y, Kin(x, y), AgreeBody(x, y), NEW k \in 1..Len(x.code), NEW j, j \in 1..Len(x.code[k].targets), NEW ty
  PROVE  Keeps(x, x.code[k], j, ty) <=> Keeps(y, x.code[k], j, ty)
<1> DEFINE s == x.code[k]
<1>1. \A v \in 1..Len(s.vals) : NumTy(x, s.vals[v]) = NumTy(y, s.vals[v])
  BY NumTySame
<1> HIDE DEF s
<1>2. Keeps(x, s, j, ty) <=> Keeps(y, s, j, ty)
  BY <1>1 DEF Keeps, HasTy, IsInt, s
<1> QED BY <1>2 DEF s

(* and the same slots are contradicted. *)
LEMMA KilledSame ==
  ASSUME NEW x, NEW y, Kin(x, y), AgreeBody(x, y), NEW slots, NEW ty
  PROVE  Killed(x, slots, ty) = Killed(y, slots, ty)
<1>1. ToSet(x.code) = {x.code[k] : k \in 1..Len(x.code)} /\ ToSet(y.code) = ToSet(x.code)
  BY DEF Kin, CtxOk, IsCode, ToSet
<1>2. \A s \in ToSet(x.code) : \A j \in 1..Len(s.targets) : Keeps(x, s, j, ty) <=> Keeps(y, s, j, ty)
  BY <1>1, KeepsSame
<1> QED BY <1>1, <1>2 DEF Killed

-----------------------------------------------------------------------------
(* and so do the slots typed. *)

(* There are m slots. *)
SlotCount(c, m) == m \in Nat /\ m = NLocals[c.f]

(* Each step is a pass. *)
PassSteps(D, F, c0, ty, m) ==
  \A k \in 1..m : \A x \in D : Pass(c0, ty, x) \in D /\ F[k][x] = Pass(c0, ty, x)

(* SlotsLeft makes as many as there are slots. *)
LEMMA Passes ==
  ASSUME NEW c0, NEW ty, NEW c, NEW m, SlotCount(c0, m), NEW D, c \in D, NEW F,
         PassSteps(D, F, c0, ty, m)
  PROVE  Reaches(D, F, c, m, SlotsLeft(c0, ty, c))
<1>0. m \in Nat /\ m = NLocals[c0.f]
  BY DEF SlotCount
<1> DEFINE Eq(h) == h = [i \in 0..m |-> IF i = 0 THEN c ELSE Pass(c0, ty, h[i - 1])]
<1>1. PICK g : Steps(g, D, F, c, m)
  BY <1>0, StepsExist DEF Stays, PassSteps
<1>2. Eq(g)
  <2>1. ASSUME NEW i \in 0..m PROVE g[i] = IF i = 0 THEN c ELSE Pass(c0, ty, g[i - 1])
    <3>1. CASE i = 0
      BY <1>1, <3>1 DEF Steps
    <3>2. CASE i # 0
      <4>1. i \in 1..m /\ i - 1 \in 0..m
        BY <3>2, <1>0
      <4>2. g[i] = F[i][g[i - 1]] /\ g[i - 1] \in D
        BY <1>1, <4>1 DEF Steps
      <4> QED BY <4>1, <4>2, <3>2 DEF PassSteps
    <3> QED BY <3>1, <3>2
  <2>2. g = [i \in 0..m |-> g[i]]
    BY <1>1 DEF Steps
  <2> QED BY <2>1, <2>2
<1> DEFINE f == CHOOSE h : Eq(h)
<1>3. Eq(f)
  <2> HIDE DEF Eq
  <2> QED BY <1>2, Zenon
<1>4. SlotsLeft(c0, ty, c) = f[m]
  BY <1>0, Zenon DEF SlotsLeft
<1> HIDE DEF f
<1>5. f[0] = c /\ \A k \in 1..m : f[k] = Pass(c0, ty, f[k - 1])
  <2>1. ASSUME NEW i \in 0..m PROVE f[i] = IF i = 0 THEN c ELSE Pass(c0, ty, f[i - 1])
    BY <1>3
  <2>2. \A k \in 1..m : k \in 0..m /\ k # 0 /\ 0 \in 0..m
    BY <1>0
  <2> HIDE DEF Eq
  <2>3. f[0] = c
    BY <1>0, <2>1
  <2>4. ASSUME NEW k \in 1..m PROVE f[k] = Pass(c0, ty, f[k - 1])
    BY <2>1, <2>2
  <2> QED BY <2>3, <2>4
<1>6. Follows(f, D, F, m)
  BY <1>5 DEF Follows, PassSteps
<1>7. Same(f, g, m)
  <2> HIDE DEF Eq
  <2>1. f[0] = c
    BY <1>5
  <2>2. m \in Nat
    BY <1>0
  <2> QED BY <1>1, <2>1, <2>2, <1>6, StepsSame, Zenon
<1> QED BY <1>1, <1>4, <1>7, <1>0 DEF Same, Reaches

(* Steps from one base end at one place. *)
LEMMA StepsUnique ==
  ASSUME NEW D, NEW F, NEW b, NEW n \in Nat, NEW g, Steps(g, D, F, b, n), NEW h, Steps(h, D, F, b, n)
  PROVE  h[n] = g[n]
<1>1. h[0] = b /\ Follows(h, D, F, n)
  BY DEF Steps, Follows
<1>2. Same(h, g, n)
  BY <1>1, StepsSame
<1> QED BY <1>2 DEF Same

(* Some slots taken as typed, *)
LEMMA TakingFields ==
  ASSUME NEW c, CtxOk(c), NEW ty, NEW X, NEW d, d = Taking(c, ty, X)
  PROVE  /\ CtxOk(d) /\ Alike(d, c)
         /\ d.ints = (IF ty = "int" THEN X ELSE c.ints)
         /\ d.floats = (IF ty = "int" THEN c.floats ELSE X)
<1>1. IsCtx(c)
  BY DEF CtxOk
<1>2. d = Ctx(c.f, c.code, c.slotFn, c.upFn, IF ty = "int" THEN X ELSE c.ints, IF ty = "int" THEN c.floats ELSE X, c.sigs, c.ib)
  <2>1. CASE ty = "int"
    BY <1>1, <2>1, CtxWrites DEF Taking
  <2>2. CASE ty # "int"
    BY <1>1, <2>2, CtxWrites DEF Taking
  <2> QED BY <2>1, <2>2
<1>3. /\ Alike(d, c) /\ d.ints = (IF ty = "int" THEN X ELSE c.ints)
      /\ d.floats = (IF ty = "int" THEN c.floats ELSE X)
  <2> DEFINE I == IF ty = "int" THEN X ELSE c.ints
             J == IF ty = "int" THEN c.floats ELSE X
  <2>1. d = Ctx(c.f, c.code, c.slotFn, c.upFn, I, J, c.sigs, c.ib)
    BY <1>2
  <2> HIDE DEF I, J
  <2>2. Alike(d, c) /\ d.ints = I /\ d.floats = J
    BY <2>1, CtxFields DEF Alike
  <2> QED BY <2>2 DEF I, J
<1>4. CtxOk(d)
  <2>1. d.f = c.f /\ d.code = c.code /\ d.slotFn = c.slotFn /\ d.upFn = c.upFn /\ d.sigs = c.sigs /\ IsCtx(d)
    BY <1>3 DEF Alike
  <2> QED BY <2>1 DEF CtxOk, FnsIn
<1> QED BY <1>3, <1>4

(* in both. *)
LEMMA TakingKin ==
  ASSUME NEW x, NEW y, Kin(x, y), AgreeBody(x, y), NEW ty, NEW X
  PROVE  Kin(Taking(x, ty, X), Taking(y, ty, X)) /\ AgreeBody(Taking(x, ty, X), Taking(y, ty, X))
<1> DEFINE p == Taking(x, ty, X)
           q == Taking(y, ty, X)
<1>1. /\ CtxOk(p) /\ Alike(p, x) /\ p.ints = (IF ty = "int" THEN X ELSE x.ints)
      /\ p.floats = (IF ty = "int" THEN x.floats ELSE X)
  BY TakingFields DEF Kin
<1>2. /\ CtxOk(q) /\ Alike(q, y) /\ q.ints = (IF ty = "int" THEN X ELSE y.ints)
      /\ q.floats = (IF ty = "int" THEN y.floats ELSE X)
  BY TakingFields DEF Kin
<1> HIDE DEF p, q
<1>3. Kin(p, q)
  BY <1>1, <1>2 DEF Kin, Alike
<1>4. \A e, n : DirectTarget(p, e, n) = DirectTarget(x, e, n)
  BY <1>1, TargetSame DEF Alike
<1>5. p.code = x.code /\ p.sigs = x.sigs /\ q.sigs = y.sigs
  BY <1>1, <1>2 DEF Alike
<1>6. \A g : SameSig(x, y, g) => SameSig(p, q, g)
  BY <1>5 DEF SameSig
<1>7. \A e : AgreeOn(x, y, e) => AgreeOn(p, q, e)
  BY <1>4, <1>6 DEF AgreeOn
<1>8. AgreeBody(p, q)
  BY <1>5, <1>7 DEF AgreeBody
<1> QED BY <1>3, <1>8 DEF p, q

(* A pass drops the same, *)
LEMMA PassSame ==
  ASSUME NEW x, NEW y, Kin(x, y), AgreeBody(x, y), NEW ty, NEW X
  PROVE  Pass(x, ty, X) = Pass(y, ty, X) /\ Pass(x, ty, X) \subseteq X
<1>1. Kin(Taking(x, ty, X), Taking(y, ty, X)) /\ AgreeBody(Taking(x, ty, X), Taking(y, ty, X))
  BY TakingKin
<1>2. Killed(Taking(x, ty, X), X, ty) = Killed(Taking(y, ty, X), X, ty)
  BY <1>1, KilledSame
<1> QED BY <1>2 DEF Pass

(* and so do all passes. *)
LEMMA SlotsSame ==
  ASSUME NEW x, NEW y, Kin(x, y), AgreeBody(x, y), NEW ty, NEW start
  PROVE  SlotsLeft(x, ty, start) = SlotsLeft(y, ty, start)
<1> DEFINE m == NLocals[x.f]
           D == SUBSET start
           F == [k \in 1..m |-> [X \in D |-> Pass(x, ty, X)]]
<1>1. m \in Nat /\ m = NLocals[x.f] /\ m = NLocals[y.f]
  BY ShapeAssumption DEF Kin, CtxOk
<1>2. \A k \in 1..m : \A X \in D : F[k][X] = Pass(x, ty, X)
  BY Zenon
<1>3. \A X \in D : Pass(x, ty, X) = Pass(y, ty, X) /\ Pass(x, ty, X) \in D
  BY PassSame
<1> HIDE DEF F, m
<1>s. SlotCount(x, m) /\ SlotCount(y, m)
  BY <1>1 DEF SlotCount
<1>4. PassSteps(D, F, x, ty, m) /\ PassSteps(D, F, y, ty, m) /\ start \in D
  BY <1>2, <1>3 DEF PassSteps
<1> HIDE DEF D
<1>r. Reaches(D, F, start, m, SlotsLeft(x, ty, start)) /\ Reaches(D, F, start, m, SlotsLeft(y, ty, start))
  BY <1>s, <1>4, Passes
<1>5. PICK g : Steps(g, D, F, start, m) /\ SlotsLeft(x, ty, start) = g[m]
  BY <1>r DEF Reaches
<1>6. PICK h : Steps(h, D, F, start, m) /\ SlotsLeft(y, ty, start) = h[m]
  BY <1>r DEF Reaches
<1>7. g[m] = h[m]
  BY <1>1, <1>5, <1>6, StepsUnique
<1> QED BY <1>5, <1>6, <1>7

(* Typing a body under signatures that say the same of what it calls. *)
LEMMA TypedSame ==
  ASSUME NEW x, NEW y, Kin(x, y), AgreeBody(x, y), NEW seed
  PROVE  Kin(Typed(x, seed), Typed(y, seed)) /\ AgreeBody(Typed(x, seed), Typed(y, seed))
<1> DEFINE S == Startable(x, seed, {"int", "unset"})
           I == SlotsLeft(x, "int", S)
           p == Taking(x, "int", I)
           q == Taking(y, "int", I)
           T == Startable(x, seed, {"float"}) \ I
           J == SlotsLeft(p, "float", T)
<1>1. \A tys : Startable(x, seed, tys) = Startable(y, seed, tys)
  BY DEF Startable, Kin
<1>2. SlotsLeft(y, "int", Startable(y, seed, {"int", "unset"})) = I
  BY <1>1, SlotsSame
<1>3. Kin(p, q) /\ AgreeBody(p, q)
  BY TakingKin
<1>4. p.ints = I /\ q.ints = I
  <2> HIDE DEF I
  <2> QED BY TakingFields DEF Kin
<1>5. Typed(x, seed) = Taking(p, "float", J)
  <2>1. p = [x EXCEPT !.ints = I]
    BY DEF Taking
  <2>2. \A c, X : Taking(c, "float", X) = [c EXCEPT !.floats = X]
    BY DEF Taking
  <2> HIDE DEF Taking, S
  <2>3. Typed(x, seed) = [p EXCEPT !.floats = SlotsLeft(p, "float", Startable(x, seed, {"float"}) \ p.ints)]
    <3>1. I = SlotsLeft(x, "int", Startable(x, seed, {"int", "unset"}))
      BY DEF S
    <3> HIDE DEF I, p
    <3> QED BY <3>1, <2>1 DEF Typed
  <2>4. J = SlotsLeft(p, "float", Startable(x, seed, {"float"}) \ p.ints)
    <3> HIDE DEF I, p
    <3> QED BY <1>4
  <2> HIDE DEF p, I, J
  <2> QED BY <2>2, <2>3, <2>4
<1>6. SlotsLeft(q, "float", T) = J
  <2> HIDE DEF p, q, T
  <2> QED BY <1>3, SlotsSame
<1>7. Typed(y, seed) = Taking(q, "float", J)
  <2>1. q = [y EXCEPT !.ints = I]
    BY DEF Taking
  <2>2. \A c, X : Taking(c, "float", X) = [c EXCEPT !.floats = X]
    BY DEF Taking
  <2>3. T = Startable(y, seed, {"float"}) \ q.ints
    BY <1>1, <1>4
  <2> HIDE DEF Taking, T, J, S
  <2>4. Typed(y, seed) = [q EXCEPT !.floats = SlotsLeft(q, "float", Startable(y, seed, {"float"}) \ q.ints)]
    <3> HIDE DEF I, q
    <3> QED BY <1>2, <2>1 DEF Typed
  <2> HIDE DEF q, I
  <2> QED BY <2>2, <2>3, <2>4, <1>6
<1> HIDE DEF p, q, I, J, T, S
<1> QED BY <1>3, <1>5, <1>7, TakingKin

-----------------------------------------------------------------------------
(* Visits: signatures move one way, and what has been met stays met. *)

(* A parameter typed a may be narrowed to b. *)
Below(a, b) == a = b \/ a = "unset" \/ b = "any"
(* t is what s may become while calls are visited. *)
Narrowed(s, t) ==
  \A g \in Fns : /\ t[g].ret = s[g].ret /\ (s[g].site => t[g].site)
                 /\ \A j \in 1..NParams[g] : Below(s[g].params[j], t[g].params[j])
(* No parameter changed. *)
SameParams(s, t) == \A g \in Fns : \A j \in 1..NParams[g] : s[g].params[j] = t[g].params[j]

(* p is the argument p[3] of the call at node p[2] of p[1]. *)
Hit(c, p, g) == IsCall(p[1], p[2]) /\ DirectTarget(c, p[1], p[2]) = g
(* The argument tells its callee nothing new, and the callee knows it is called. *)
MetAt(c, p, g) ==
  /\ c.sigs[g].site
  /\ p[3] \in 1..NParams[g] =>
       NumMeet(c.sigs[g].params[p[3]], NodeTys(c, p[1])[p[1][p[2]].args[p[3]]]) = c.sigs[g].params[p[3]]
(* Whichever it is. *)
Met(c, p) == \A g \in Fns : Hit(c, p, g) => MetAt(c, p, g)
(* P has points of expressions. *)
PlacesOk(c, P) == \A p \in P : IsExpr(c.f, p[1])
(* The sites new in y are hit from P. *)
HitFrom(x, y, P) == \A g \in Fns : y.sigs[g].site => x.sigs[g].site \/ \E p \in P : Hit(x, p, g)
(* All arguments of P are met. *)
AllMet(c, P) == \A p \in P : Met(c, p)
(* y is x after a visit of P: if no parameter changed, all of P is met. *)
Visited(x, y, P) ==
  /\ Kin(x, y) /\ Narrowed(x.sigs, y.sigs) /\ HitFrom(x, y, P)
  /\ SameParams(x.sigs, y.sigs) => AllMet(y, P)

(* A parameter that moved does not come back, *)
LEMMA NarrowedTrans ==
  ASSUME NEW s, NEW t, NEW u, Narrowed(s, t), Narrowed(t, u)
  PROVE  Narrowed(s, u) /\ (SameParams(s, u) => SameParams(s, t) /\ SameParams(t, u))
<1>1. Narrowed(s, u)
  BY DEF Narrowed, Below
<1>2. ASSUME SameParams(s, u) PROVE SameParams(s, t) /\ SameParams(t, u)
  BY <1>2 DEF SameParams, Narrowed, Below
<1> QED BY <1>1, <1>2

(* so with the same parameters the signatures say the same. *)
LEMMA SameParamsSame ==
  ASSUME NEW x, NEW y, CtxOk(x), CtxOk(y), Narrowed(x.sigs, y.sigs), SameParams(x.sigs, y.sigs)
  PROVE  \A g \in Fns : SameSig(x, y, g)
<1> SUFFICES ASSUME NEW g \in Fns PROVE SameSig(x, y, g)
  OBVIOUS
<1>1. x.sigs[g].params \in [1..NParams[g] -> NumTys] /\ y.sigs[g].params \in [1..NParams[g] -> NumTys]
  BY SigsFacts DEF CtxOk
<1>2. x.sigs[g].params = y.sigs[g].params
  <2> DEFINE s == x.sigs[g].params
             t == y.sigs[g].params
  <2>1. \A j \in 1..NParams[g] : s[j] = t[j]
    BY DEF SameParams
  <2>2. s \in [1..NParams[g] -> NumTys] /\ t \in [1..NParams[g] -> NumTys]
    BY <1>1
  <2> HIDE DEF s, t
  <2>4. s = [j \in 1..NParams[g] |-> s[j]] /\ t = [j \in 1..NParams[g] |-> t[j]]
    BY <2>2
  <2>3. s = t
    BY <2>1, <2>4
  <2> QED BY <2>3 DEF s, t
<1>3. x.sigs[g].ret = y.sigs[g].ret
  BY DEF Narrowed
<1> QED BY <1>2, <1>3 DEF SameSig

(* Then they do of what e calls. *)
LEMMA AgreeAnywhere ==
  ASSUME NEW x, NEW y, Kin(x, y), \A g \in Fns : SameSig(x, y, g), NEW e, IsExpr(x.f, e)
  PROVE  AgreeOn(x, y, e)
<1> SUFFICES ASSUME NEW n \in 1..Len(e), IsCall(e, n), NEW g, g = DirectTarget(x, e, n), g # NoFn
             PROVE  SameSig(x, y, g)
  BY DEF AgreeOn
<1>1. g \in Fns
  BY TargetFacts DEF Kin, IsCall
<1> QED BY <1>1

(* Targets do not move. *)
LEMMA HitSame ==
  ASSUME NEW x, NEW y, Kin(x, y) PROVE \A p, g : Hit(x, p, g) <=> Hit(y, p, g)
<1>1. \A e, n : DirectTarget(x, e, n) = DirectTarget(y, e, n)
  BY TargetSame DEF Kin
<1> QED BY <1>1 DEF Hit

(* What is met stays met while no parameter changes. *)
LEMMA MetKept ==
  ASSUME NEW x, NEW y, Kin(x, y), Narrowed(x.sigs, y.sigs), SameParams(x.sigs, y.sigs),
         NEW p, IsExpr(x.f, p[1]), Met(x, p)
  PROVE  Met(y, p)
<1> SUFFICES ASSUME NEW g \in Fns, Hit(y, p, g) PROVE MetAt(y, p, g)
  BY DEF Met
<1>1. \A h \in Fns : SameSig(x, y, h)
  BY SameParamsSame DEF Kin
<1>2. AgreeOn(x, y, p[1])
  BY <1>1, AgreeAnywhere
<1>3. NodeTys(x, p[1]) = NodeTys(y, p[1])
  BY <1>2, NodeTysSame
<1>4. MetAt(x, p, g)
  BY HitSame DEF Met
<1>5. x.sigs[g].params = y.sigs[g].params
  BY <1>1 DEF SameSig
<1>6. y.sigs[g].site
  BY <1>4 DEF MetAt, Narrowed
<1> QED BY <1>3, <1>4, <1>5, <1>6 DEF MetAt

(* Kinship is transitive. *)
LEMMA KinTrans ==
  ASSUME NEW x, NEW y, NEW z, Kin(x, y), Kin(y, z) PROVE Kin(x, z)
  BY DEF Kin

(* Visits follow one another. *)
LEMMA VisitedTrans ==
  ASSUME NEW x, NEW y, NEW z, NEW P, NEW Q, Visited(x, y, P), Visited(y, z, Q), PlacesOk(x, P)
  PROVE  Visited(x, z, P \cup Q)
<1>1. Kin(x, y) /\ Kin(y, z) /\ Kin(x, z)
  BY KinTrans DEF Visited
<1>2. Narrowed(x.sigs, y.sigs) /\ Narrowed(y.sigs, z.sigs)
  BY DEF Visited
<1>3. Narrowed(x.sigs, z.sigs) /\ (SameParams(x.sigs, z.sigs) => SameParams(x.sigs, y.sigs) /\ SameParams(y.sigs, z.sigs))
  BY <1>2, NarrowedTrans
<1>4. HitFrom(x, z, P \cup Q)
  <2>1. \A p, g : Hit(x, p, g) <=> Hit(y, p, g)
    BY <1>1, HitSame
  <2>2. HitFrom(x, y, P) /\ HitFrom(y, z, Q)
    BY DEF Visited
  <2> SUFFICES ASSUME NEW g \in Fns, z.sigs[g].site, ~x.sigs[g].site
               PROVE  \E p \in P \cup Q : Hit(x, p, g)
    BY DEF HitFrom
  <2>3. CASE y.sigs[g].site
    BY <2>2, <2>3 DEF HitFrom
  <2>4. CASE ~y.sigs[g].site
    BY <2>1, <2>2, <2>4 DEF HitFrom
  <2> QED BY <2>3, <2>4
<1>5. ASSUME SameParams(x.sigs, z.sigs) PROVE AllMet(z, P \cup Q)
  <2>1. SameParams(x.sigs, y.sigs) /\ SameParams(y.sigs, z.sigs)
    BY <1>3, <1>5
  <2>2. AllMet(y, P) /\ AllMet(z, Q)
    BY <2>1 DEF Visited
  <2>3. ASSUME NEW p \in P PROVE Met(z, p)
    <3>1. Met(y, p) /\ IsExpr(y.f, p[1])
      BY <2>2, <1>1 DEF AllMet, PlacesOk, Kin
    <3> QED BY <3>1, <1>1, <1>2, <2>1, MetKept
  <2> QED BY <2>2, <2>3 DEF AllMet
<1> QED BY <1>1, <1>3, <1>4, <1>5 DEF Visited

(* A context is kin to itself, *)
LEMMA KinSelf == ASSUME NEW c, CtxOk(c) PROVE Kin(c, c)
  BY DEF Kin

(* and visiting nothing is a visit. *)
LEMMA VisitedSelf ==
  ASSUME NEW c, CtxOk(c) PROVE Visited(c, c, {})
<1>1. Kin(c, c) /\ Narrowed(c.sigs, c.sigs)
  BY KinSelf DEF Narrowed, Below
<1> QED BY <1>1 DEF Visited, HitFrom, AllMet

(* The contexts kin to c. *)
KinOf(c) == {WithSigs(c, sg) : sg \in AllSigs}

(* Other signatures give one, *)
LEMMA WithSigsFields ==
  ASSUME NEW c, CtxOk(c), NEW sg, SigsOk(sg), NEW x, x = WithSigs(c, sg)
  PROVE  Kin(c, x) /\ x.sigs = sg /\ x \in KinOf(c)
<1>1. /\ x.f = c.f /\ x.code = c.code /\ x.slotFn = c.slotFn /\ x.upFn = c.upFn
      /\ x.ints = c.ints /\ x.floats = c.floats /\ x.sigs = sg /\ x.ib = c.ib /\ IsCtx(x)
  BY CtxFields DEF WithSigs
<1>2. CtxOk(x)
  BY <1>1 DEF CtxOk, FnsIn
<1>3. Kin(c, x)
  BY <1>1, <1>2 DEF Kin
<1>4. sg \in AllSigs
  BY DEF SigsOk
<1> QED BY <1>1, <1>3, <1>4 DEF KinOf

(* and there are no more. *)
LEMMA KinIn ==
  ASSUME NEW c, NEW x, CtxOk(c) PROVE x \in KinOf(c) <=> Kin(c, x)
<1>1. ASSUME x \in KinOf(c) PROVE Kin(c, x)
  <2>1. PICK sg \in AllSigs : x = WithSigs(c, sg)
    BY <1>1 DEF KinOf
  <2> QED BY <2>1, WithSigsFields DEF SigsOk
<1>2. ASSUME Kin(c, x) PROVE x \in KinOf(c)
  <2>1. IsCtx(x) /\ SigsOk(x.sigs)
    BY <1>2 DEF Kin, CtxOk
  <2>2. x = WithSigs(c, x.sigs)
    BY <1>2, <2>1 DEF Kin, WithSigs, IsCtx
  <2> QED BY <2>1, <2>2 DEF KinOf, SigsOk
<1> QED BY <1>1, <1>2

(* Step k visits P[k]. *)
VisitsAll(D, F, P, m) == \A k \in 1..m : \A x \in D : Visited(x, F[k][x], P[k])
(* Points of expressions. *)
PlacesAll(c, P, m) == \A k \in 1..m : PlacesOk(c, P[k])
(* All of them. *)
Together(P, m) == UNION {P[k] : k \in 1..m}

(* The steps together visit all of them. *)
LEMMA VisitFold ==
  ASSUME NEW c, CtxOk(c), NEW D, c \in D, D \subseteq KinOf(c), NEW F, NEW P, NEW m \in Nat,
         VisitsAll(D, F, P, m), PlacesAll(c, P, m), NEW d, Reaches(D, F, c, m, d)
  PROVE  Visited(c, d, Together(P, m)) /\ d \in D
<1> DEFINE I == [k \in 0..m |-> {y \in D : Visited(c, y, Together(P, k))}]
<1>1. PICK g : Steps(g, D, F, c, m) /\ d = g[m]
  BY DEF Reaches
<1>2. c \in I[0]
  <2>1. Together(P, 0) = {}
    BY DEF Together
  <2>2. 0 \in 0..m
    OBVIOUS
  <2> QED BY <2>1, <2>2, VisitedSelf
<1>3. PlacesOk(c, {}) /\ \A k \in 0..m : PlacesOk(c, Together(P, k))
  BY DEF PlacesOk, PlacesAll, Together
<1>4. ASSUME NEW k \in 1..m, NEW y \in D, y \in I[k - 1], F[k][y] \in D PROVE F[k][y] \in I[k]
  <2>1. k - 1 \in 0..m /\ k \in 0..m
    OBVIOUS
  <2>2. Visited(c, y, Together(P, k - 1)) /\ Visited(y, F[k][y], P[k])
    BY <1>4, <2>1 DEF VisitsAll
  <2>3. Visited(c, F[k][y], Together(P, k - 1) \cup P[k])
    BY <2>1, <2>2, <1>3, VisitedTrans
  <2>4. Together(P, k - 1) \cup P[k] = Together(P, k)
    <3>1. 1..k = 1..(k - 1) \cup {k}
      OBVIOUS
    <3> QED BY <3>1 DEF Together
  <2> QED BY <2>1, <2>3, <2>4, <1>4
<1>5. \A k \in 1..m : \A y \in D : g[k - 1] = y => g[k] = F[k][y] /\ F[k][y] \in D
  <2> SUFFICES ASSUME NEW k \in 1..m, NEW y \in D, g[k - 1] = y PROVE g[k] = F[k][y] /\ F[k][y] \in D
    OBVIOUS
  <2>1. g[k] = F[k][g[k - 1]] /\ g[k] \in D
    <3>1. k \in 0..m
      OBVIOUS
    <3> QED BY <1>1, <3>1 DEF Steps
  <2> QED BY <2>1
<1> DEFINE T == {k \in 0..m : g[k] \notin I[k]}
<1>6. T = {}
  <2> SUFFICES ASSUME T # {} PROVE FALSE
    OBVIOUS
  <2>0. T \subseteq Nat
    OBVIOUS
  <2>1. PICK k \in T : \A j \in T : k <= j
    <3> HIDE DEF T
    <3> QED BY <2>0, LeastNat
  <2>2. k # 0
    BY <1>1, <1>2 DEF Steps
  <2>3. k \in 1..m /\ k - 1 \in 0..m /\ k - 1 \notin T
    BY <2>1, <2>2
  <2> HIDE DEF I
  <2>4. g[k - 1] \in I[k - 1] /\ g[k - 1] \in D
    BY <2>3, <1>1 DEF Steps
  <2>5. g[k] \in I[k]
    BY <2>3, <2>4, <1>5, <1>4
  <2> QED BY <2>1, <2>5
<1>7. m \in 0..m /\ g[m] \in I[m]
  <2>1. m \in 0..m
    OBVIOUS
  <2> HIDE DEF I
  <2>2. m \notin T
    <3> HIDE DEF T
    <3> QED BY <1>6
  <2> QED BY <2>1, <2>2
<1>8. I[m] = {y \in D : Visited(c, y, Together(P, m))}
  BY <1>7
<1> HIDE DEF I, T
<1>9. d \in I[m]
  BY <1>1, <1>7
<1> QED BY <1>8, <1>9, Zenon

-----------------------------------------------------------------------------
(* One argument met. *)

(* t met into parameter j of g, *)
MetSigs(sg, g, j, t) == [sg EXCEPT ![g].params[j] = NumMeet(@, t)]
(* and g known to be called. *)
SitedSigs(sg, g) == [sg EXCEPT ![g].site = TRUE]

(* num_meet goes one way. *)
LEMMA MeetIn ==
  ASSUME NEW a \in NumTys, NEW t \in Ty3
  PROVE  NumMeet(a, t) \in NumTys /\ Below(a, NumMeet(a, t))
  BY DEF NumMeet, NumTys, Ty3, Below

(* MeetArg changes the signatures only. *)
LEMMA MeetArgIs ==
  ASSUME NEW c, CtxOk(c), NEW e, NEW n, NEW g, NEW j, NEW t, t = NodeTys(c, e)[e[n].args[j]]
  PROVE  MeetArg(c, e, n, g, j) = WithSigs(c, MetSigs(c.sigs, g, j, t))
<1>1. MeetArg(c, e, n, g, j) = [c EXCEPT !.sigs = MetSigs(c.sigs, g, j, t)]
  BY DEF MeetArg, MetSigs
<1>2. IsCtx(c)
  BY DEF CtxOk
<1> QED BY <1>1, <1>2, CtxWrites DEF WithSigs

(* What meeting changes, *)
LEMMA MetSigsFacts ==
  ASSUME NEW sg, SigsOk(sg), NEW g \in Fns, NEW j \in 1..NParams[g], NEW t \in Ty3, NEW sh, sh = MetSigs(sg, g, j, t)
  PROVE  /\ SigsOk(sh) /\ Narrowed(sg, sh) /\ sh[g].params[j] = NumMeet(sg[g].params[j], t)
         /\ \A h \in Fns : sh[h].site = sg[h].site
<1> DEFINE s == sg[g]
           X == [s.params EXCEPT ![j] = NumMeet(@, t)]
           u == [s EXCEPT !.params = X]
<1>1. s.params \in [1..NParams[g] -> NumTys] /\ s.ret \in Ty3 /\ s.site \in BOOLEAN
      /\ s = [params |-> s.params, ret |-> s.ret, site |-> s.site]
  BY SigsFacts
<1>2. sh = [sg EXCEPT ![g] = u]
  BY DEF MetSigs
<1>3. NumMeet(s.params[j], t) \in NumTys /\ Below(s.params[j], NumMeet(s.params[j], t))
  BY <1>1, MeetIn
<1> HIDE DEF s
<1>4. /\ X \in [1..NParams[g] -> NumTys] /\ X[j] = NumMeet(s.params[j], t)
      /\ \A i \in 1..NParams[g] : i # j => X[i] = s.params[i]
  BY <1>1, <1>3
<1> HIDE DEF X
<1>5. u.params = X /\ u.ret = s.ret /\ u.site = s.site /\ u \in Sig(g)
  BY <1>1, <1>4 DEF Sig
<1> HIDE DEF u
<1>6. sg = [h \in Fns |-> sg[h]] /\ \A h \in Fns : sg[h] \in Sig(h)
  BY SigsFacts
<1>7. sh = [h \in Fns |-> sh[h]] /\ sh[g] = u /\ \A h \in Fns : h # g => sh[h] = sg[h]
  BY <1>2, <1>6
<1>8. SigsOk(sh)
  <2>1. \A h \in Fns : sh[h] \in Sig(h)
    BY <1>5, <1>6, <1>7
  <2> QED BY <2>1, <1>7, SigsIntro
<1>9. Narrowed(sg, sh)
  <2> SUFFICES ASSUME NEW h \in Fns
               PROVE  /\ sh[h].ret = sg[h].ret /\ (sg[h].site => sh[h].site)
                      /\ \A i \in 1..NParams[h] : Below(sg[h].params[i], sh[h].params[i])
    BY DEF Narrowed
  <2>1. CASE h # g
    BY <2>1, <1>7 DEF Below
  <2>2. CASE h = g
    <3>1. \A i \in 1..NParams[g] : Below(s.params[i], X[i])
      BY <1>3, <1>4 DEF Below
    <3> QED BY <3>1, <2>2, <1>5, <1>7 DEF s
  <2> QED BY <2>1, <2>2
<1> QED BY <1>4, <1>5, <1>7, <1>8, <1>9 DEF s

(* and what a site does. *)
LEMMA SitedSigsFacts ==
  ASSUME NEW sg, SigsOk(sg), NEW g \in Fns, NEW sh, sh = SitedSigs(sg, g)
  PROVE  /\ SigsOk(sh) /\ Narrowed(sg, sh) /\ sh[g].site
         /\ \A h \in Fns : h # g => sh[h] = sg[h]
<1> DEFINE s == sg[g]
           u == [s EXCEPT !.site = TRUE]
<1>1. s.params \in [1..NParams[g] -> NumTys] /\ s.ret \in Ty3 /\ s.site \in BOOLEAN
      /\ s = [params |-> s.params, ret |-> s.ret, site |-> s.site]
  BY SigsFacts
<1>2. sh = [sg EXCEPT ![g] = u]
  BY DEF SitedSigs
<1> HIDE DEF s
<1>5. u.params = s.params /\ u.ret = s.ret /\ u.site = TRUE /\ u \in Sig(g)
  BY <1>1 DEF Sig
<1> HIDE DEF u
<1>6. sg = [h \in Fns |-> sg[h]] /\ \A h \in Fns : sg[h] \in Sig(h)
  BY SigsFacts
<1>7. sh = [h \in Fns |-> sh[h]] /\ sh[g] = u /\ \A h \in Fns : h # g => sh[h] = sg[h]
  BY <1>2, <1>6
<1>8. SigsOk(sh)
  <2>1. \A h \in Fns : sh[h] \in Sig(h)
    BY <1>5, <1>6, <1>7
  <2> QED BY <2>1, <1>7, SigsIntro
<1>9. Narrowed(sg, sh)
  <2> SUFFICES ASSUME NEW h \in Fns
               PROVE  /\ sh[h].ret = sg[h].ret /\ (sg[h].site => sh[h].site)
                      /\ \A i \in 1..NParams[h] : Below(sg[h].params[i], sh[h].params[i])
    BY DEF Narrowed
  <2>1. CASE h # g
    BY <2>1, <1>7 DEF Below
  <2>2. CASE h = g
    BY <2>2, <1>5, <1>7 DEF s, Below
  <2> QED BY <2>1, <2>2
<1> QED BY <1>5, <1>7, <1>8, <1>9

(* The call at node n of e reaches g. *)
CallOf(c, e, n, g) ==
  IsExpr(c.f, e) /\ IsCall(e, n) /\ DirectTarget(c, e, n) = g /\ g \in Fns /\ Len(e[n].args) = NParams[g]

(* Arguments have types. *)
LEMMA ArgTyIn ==
  ASSUME NEW c, CtxOk(c), NEW e, NEW n, NEW g, CallOf(c, e, n, g), NEW j \in 1..NParams[g]
  PROVE  NodeTys(c, e)[e[n].args[j]] \in Ty3
<1>1. IsExpr(c.f, e) /\ n \in 1..Len(e) /\ e[n].t = "call" /\ Len(e[n].args) = NParams[g] /\ Len(e) \in Nat
  BY DEF CallOf, IsCall, IsExpr
<1>2. NodesTyped(NodeTys(c, e), c, e, Len(e))
  BY <1>1, NodeTysIs
<1>3. e[n].args[j] \in 1..(n - 1)
  BY <1>1, TargetFacts
<1>4. e[n].args[j] \in 1..Len(e)
  BY <1>3, <1>1
<1> QED BY <1>2, <1>4 DEF NodesTyped

(* Meeting an argument visits it. *)
LEMMA ArgVisited ==
  ASSUME NEW c, CtxOk(c), NEW e, NEW n, NEW g, CallOf(c, e, n, g), c.sigs[g].site, NEW j \in 1..NParams[g],
         NEW d, d = MeetArg(c, e, n, g, j)
  PROVE  Visited(c, d, {<<e, n, j>>}) /\ d.sigs[g].site
<1> DEFINE t == NodeTys(c, e)[e[n].args[j]]
           sh == MetSigs(c.sigs, g, j, t)
           p == <<e, n, j>>
<1>0. g \in Fns /\ IsExpr(c.f, e)
  BY DEF CallOf
<1>1. t \in Ty3
  BY ArgTyIn
<1>2. d = WithSigs(c, sh)
  BY MeetArgIs
<1> HIDE DEF t
<1>3. SigsOk(c.sigs)
  BY DEF CtxOk
<1>4. /\ SigsOk(sh) /\ Narrowed(c.sigs, sh) /\ sh[g].params[j] = NumMeet(c.sigs[g].params[j], t)
      /\ \A h \in Fns : sh[h].site = c.sigs[h].site
  BY <1>0, <1>1, <1>3, MetSigsFacts
<1> HIDE DEF sh
<1>5. Kin(c, d) /\ d.sigs = sh
  BY <1>2, <1>4, WithSigsFields
<1>6. d.sigs[g].site
  BY <1>0, <1>4, <1>5
<1>7. HitFrom(c, d, {p})
  BY <1>4, <1>5 DEF HitFrom
<1>8. ASSUME SameParams(c.sigs, d.sigs) PROVE Met(d, p)
  <2>1. \A h \in Fns : SameSig(c, d, h)
    BY <1>4, <1>5, <1>8, SameParamsSame DEF Kin
  <2>2. NodeTys(c, e) = NodeTys(d, e)
    BY <1>0, <1>5, <2>1, AgreeAnywhere, NodeTysSame
  <2>3. p[1] = e /\ p[2] = n /\ p[3] = j
    OBVIOUS
  <2>4. DirectTarget(c, e, n) = g
    BY DEF CallOf
  <2>5. DirectTarget(d, e, n) = g
    BY <2>4, <1>5, TargetSame DEF Kin
  <2>6. NumMeet(d.sigs[g].params[j], NodeTys(d, e)[e[n].args[j]]) = d.sigs[g].params[j]
    <3>1. d.sigs[g].params = c.sigs[g].params
      BY <2>1, <1>0 DEF SameSig
    <3>2. d.sigs[g].params[j] = NumMeet(c.sigs[g].params[j], t)
      BY <1>4, <1>5
    <3> QED BY <3>1, <3>2, <2>2 DEF t
  <2> HIDE DEF p
  <2>7. MetAt(d, p, g)
    BY <2>3, <2>6, <1>6 DEF MetAt
  <2> QED BY <2>3, <2>5, <2>7 DEF Met, Hit
<1> QED BY <1>4, <1>5, <1>6, <1>7, <1>8 DEF Visited, AllMet

-----------------------------------------------------------------------------
(* The four nested walks of infer_sites_visit, as steps. *)

(* Step k meets argument k. *)
ArgSteps(D, F, e, n, q, seq, m) ==
  \A k \in 1..m : \A x \in D : MeetArg(x, e, n, q, seq[k]) \in D /\ F[k][x] = MeetArg(x, e, n, q, seq[k])

(* MeetArgs makes these steps. *)
LEMMA Args ==
  ASSUME NEW e, NEW n, NEW q, NEW c, NEW seq, NEW m \in Nat, m = Len(seq), NEW D, c \in D, NEW F, seq = Indexes(e[n].args),
         ArgSteps(D, F, e, n, q, seq, m)
  PROVE  Reaches(D, F, c, m, MeetArgs(c, e, n, q))
<1> DEFINE Eq(h) == h = [i \in 0..m |-> IF i = 0 THEN c ELSE MeetArg(h[i - 1], e, n, q, seq[i])]
<1>1. PICK g : Steps(g, D, F, c, m)
  BY StepsExist DEF Stays, ArgSteps
<1>2. Eq(g)
  <2>1. ASSUME NEW i \in 0..m PROVE g[i] = IF i = 0 THEN c ELSE MeetArg(g[i - 1], e, n, q, seq[i])
    <3>1. CASE i = 0
      BY <1>1, <3>1 DEF Steps
    <3>2. CASE i # 0
      <4>1. i \in 1..m /\ i - 1 \in 0..m
        BY <3>2
      <4>2. g[i] = F[i][g[i - 1]] /\ g[i - 1] \in D
        BY <1>1, <4>1 DEF Steps
      <4> QED BY <4>1, <4>2, <3>2 DEF ArgSteps
    <3> QED BY <3>1, <3>2
  <2>2. g = [i \in 0..m |-> g[i]]
    BY <1>1 DEF Steps
  <2> QED BY <2>1, <2>2
<1> DEFINE f == CHOOSE h : Eq(h)
<1>3. Eq(f)
  <2> HIDE DEF Eq
  <2> QED BY <1>2, Zenon
<1>4. MeetArgs(c, e, n, q) = f[m]
  BY Zenon DEF MeetArgs, Over
<1> HIDE DEF f
<1>5. f[0] = c /\ \A k \in 1..m : f[k] = MeetArg(f[k - 1], e, n, q, seq[k])
  <2>1. ASSUME NEW i \in 0..m PROVE f[i] = IF i = 0 THEN c ELSE MeetArg(f[i - 1], e, n, q, seq[i])
    BY <1>3
  <2>2. \A k \in 1..m : k \in 0..m /\ k # 0 /\ 0 \in 0..m
    OBVIOUS
  <2> HIDE DEF Eq
  <2>3. f[0] = c
    BY <2>1
  <2>4. ASSUME NEW k \in 1..m PROVE f[k] = MeetArg(f[k - 1], e, n, q, seq[k])
    BY <2>1, <2>2
  <2> QED BY <2>3, <2>4
<1>6. Follows(f, D, F, m)
  BY <1>5 DEF Follows, ArgSteps
<1>7. Same(f, g, m)
  <2> HIDE DEF Eq
  <2>1. f[0] = c
    BY <1>5
  <2>2. m \in Nat
    OBVIOUS
  <2> QED BY <1>1, <2>1, <2>2, <1>6, StepsSame, Zenon
<1> QED BY <1>1, <1>4, <1>7 DEF Same, Reaches

(* Step k is at node k. *)
NodeSteps(D, F, e, seq, m) ==
  \A k \in 1..m : \A x \in D : InferSite(x, e, seq[k]) \in D /\ F[k][x] = InferSite(x, e, seq[k])

(* InferExpr makes these steps. *)
LEMMA Nodes ==
  ASSUME NEW e, NEW c, NEW seq, NEW m \in Nat, m = Len(seq), NEW D, c \in D, NEW F, seq = Indexes(e),
         NodeSteps(D, F, e, seq, m)
  PROVE  Reaches(D, F, c, m, InferExpr(c, e))
<1> DEFINE Eq(h) == h = [i \in 0..m |-> IF i = 0 THEN c ELSE InferSite(h[i - 1], e, seq[i])]
<1>1. PICK g : Steps(g, D, F, c, m)
  BY StepsExist DEF Stays, NodeSteps
<1>2. Eq(g)
  <2>1. ASSUME NEW i \in 0..m PROVE g[i] = IF i = 0 THEN c ELSE InferSite(g[i - 1], e, seq[i])
    <3>1. CASE i = 0
      BY <1>1, <3>1 DEF Steps
    <3>2. CASE i # 0
      <4>1. i \in 1..m /\ i - 1 \in 0..m
        BY <3>2
      <4>2. g[i] = F[i][g[i - 1]] /\ g[i - 1] \in D
        BY <1>1, <4>1 DEF Steps
      <4> QED BY <4>1, <4>2, <3>2 DEF NodeSteps
    <3> QED BY <3>1, <3>2
  <2>2. g = [i \in 0..m |-> g[i]]
    BY <1>1 DEF Steps
  <2> QED BY <2>1, <2>2
<1> DEFINE f == CHOOSE h : Eq(h)
<1>3. Eq(f)
  <2> HIDE DEF Eq
  <2> QED BY <1>2, Zenon
<1>4. InferExpr(c, e) = f[m]
  BY Zenon DEF InferExpr, Over
<1> HIDE DEF f
<1>5. f[0] = c /\ \A k \in 1..m : f[k] = InferSite(f[k - 1], e, seq[k])
  <2>1. ASSUME NEW i \in 0..m PROVE f[i] = IF i = 0 THEN c ELSE InferSite(f[i - 1], e, seq[i])
    BY <1>3
  <2>2. \A k \in 1..m : k \in 0..m /\ k # 0 /\ 0 \in 0..m
    OBVIOUS
  <2> HIDE DEF Eq
  <2>3. f[0] = c
    BY <2>1
  <2>4. ASSUME NEW k \in 1..m PROVE f[k] = InferSite(f[k - 1], e, seq[k])
    BY <2>1, <2>2
  <2> QED BY <2>3, <2>4
<1>6. Follows(f, D, F, m)
  BY <1>5 DEF Follows, NodeSteps
<1>7. Same(f, g, m)
  <2> HIDE DEF Eq
  <2>1. f[0] = c
    BY <1>5
  <2>2. m \in Nat
    OBVIOUS
  <2> QED BY <1>1, <2>1, <2>2, <1>6, StepsSame, Zenon
<1> QED BY <1>1, <1>4, <1>7 DEF Same, Reaches

(* Step k is at value k. *)
ValSteps(D, F, seq, m) ==
  \A k \in 1..m : \A x \in D : InferExpr(x, seq[k]) \in D /\ F[k][x] = InferExpr(x, seq[k])

(* InferStmt makes these steps. *)
LEMMA Vals ==
  ASSUME NEW s, NEW c, NEW seq, NEW m \in Nat, m = Len(seq), NEW D, c \in D, NEW F, seq = s.vals,
         ValSteps(D, F, seq, m)
  PROVE  Reaches(D, F, c, m, InferStmt(c, s))
<1> DEFINE Eq(h) == h = [i \in 0..m |-> IF i = 0 THEN c ELSE InferExpr(h[i - 1], seq[i])]
<1>1. PICK g : Steps(g, D, F, c, m)
  BY StepsExist DEF Stays, ValSteps
<1>2. Eq(g)
  <2>1. ASSUME NEW i \in 0..m PROVE g[i] = IF i = 0 THEN c ELSE InferExpr(g[i - 1], seq[i])
    <3>1. CASE i = 0
      BY <1>1, <3>1 DEF Steps
    <3>2. CASE i # 0
      <4>1. i \in 1..m /\ i - 1 \in 0..m
        BY <3>2
      <4>2. g[i] = F[i][g[i - 1]] /\ g[i - 1] \in D
        BY <1>1, <4>1 DEF Steps
      <4> QED BY <4>1, <4>2, <3>2 DEF ValSteps
    <3> QED BY <3>1, <3>2
  <2>2. g = [i \in 0..m |-> g[i]]
    BY <1>1 DEF Steps
  <2> QED BY <2>1, <2>2
<1> DEFINE f == CHOOSE h : Eq(h)
<1>3. Eq(f)
  <2> HIDE DEF Eq
  <2> QED BY <1>2, Zenon
<1>4. InferStmt(c, s) = f[m]
  BY Zenon DEF InferStmt, Over
<1> HIDE DEF f
<1>5. f[0] = c /\ \A k \in 1..m : f[k] = InferExpr(f[k - 1], seq[k])
  <2>1. ASSUME NEW i \in 0..m PROVE f[i] = IF i = 0 THEN c ELSE InferExpr(f[i - 1], seq[i])
    BY <1>3
  <2>2. \A k \in 1..m : k \in 0..m /\ k # 0 /\ 0 \in 0..m
    OBVIOUS
  <2> HIDE DEF Eq
  <2>3. f[0] = c
    BY <2>1
  <2>4. ASSUME NEW k \in 1..m PROVE f[k] = InferExpr(f[k - 1], seq[k])
    BY <2>1, <2>2
  <2> QED BY <2>3, <2>4
<1>6. Follows(f, D, F, m)
  BY <1>5 DEF Follows, ValSteps
<1>7. Same(f, g, m)
  <2> HIDE DEF Eq
  <2>1. f[0] = c
    BY <1>5
  <2>2. m \in Nat
    OBVIOUS
  <2> QED BY <1>1, <2>1, <2>2, <1>6, StepsSame, Zenon
<1> QED BY <1>1, <1>4, <1>7 DEF Same, Reaches

(* Step k is at statement k. *)
StmtSteps(D, F, seq, m) ==
  \A k \in 1..m : \A x \in D : InferStmt(x, seq[k]) \in D /\ F[k][x] = InferStmt(x, seq[k])

(* InferSites makes these steps. *)
LEMMA Stmts ==
  ASSUME NEW c, NEW seq, NEW m \in Nat, m = Len(seq), NEW D, c \in D, NEW F, seq = c.code,
         StmtSteps(D, F, seq, m)
  PROVE  Reaches(D, F, c, m, InferSites(c))
<1> DEFINE Eq(h) == h = [i \in 0..m |-> IF i = 0 THEN c ELSE InferStmt(h[i - 1], seq[i])]
<1>1. PICK g : Steps(g, D, F, c, m)
  BY StepsExist DEF Stays, StmtSteps
<1>2. Eq(g)
  <2>1. ASSUME NEW i \in 0..m PROVE g[i] = IF i = 0 THEN c ELSE InferStmt(g[i - 1], seq[i])
    <3>1. CASE i = 0
      BY <1>1, <3>1 DEF Steps
    <3>2. CASE i # 0
      <4>1. i \in 1..m /\ i - 1 \in 0..m
        BY <3>2
      <4>2. g[i] = F[i][g[i - 1]] /\ g[i - 1] \in D
        BY <1>1, <4>1 DEF Steps
      <4> QED BY <4>1, <4>2, <3>2 DEF StmtSteps
    <3> QED BY <3>1, <3>2
  <2>2. g = [i \in 0..m |-> g[i]]
    BY <1>1 DEF Steps
  <2> QED BY <2>1, <2>2
<1> DEFINE f == CHOOSE h : Eq(h)
<1>3. Eq(f)
  <2> HIDE DEF Eq
  <2> QED BY <1>2, Zenon
<1>4. InferSites(c) = f[m]
  BY Zenon DEF InferSites, Over
<1> HIDE DEF f
<1>5. f[0] = c /\ \A k \in 1..m : f[k] = InferStmt(f[k - 1], seq[k])
  <2>1. ASSUME NEW i \in 0..m PROVE f[i] = IF i = 0 THEN c ELSE InferStmt(f[i - 1], seq[i])
    BY <1>3
  <2>2. \A k \in 1..m : k \in 0..m /\ k # 0 /\ 0 \in 0..m
    OBVIOUS
  <2> HIDE DEF Eq
  <2>3. f[0] = c
    BY <2>1
  <2>4. ASSUME NEW k \in 1..m PROVE f[k] = InferStmt(f[k - 1], seq[k])
    BY <2>1, <2>2
  <2> QED BY <2>3, <2>4
<1>6. Follows(f, D, F, m)
  BY <1>5 DEF Follows, StmtSteps
<1>7. Same(f, g, m)
  <2> HIDE DEF Eq
  <2>1. f[0] = c
    BY <1>5
  <2>2. m \in Nat
    OBVIOUS
  <2> QED BY <1>1, <2>1, <2>2, <1>6, StepsSame, Zenon
<1> QED BY <1>1, <1>4, <1>7 DEF Same, Reaches

-----------------------------------------------------------------------------
(* All arguments of one call, *)

(* The indexes of a sequence. *)
LEMMA IndexesFacts ==
  ASSUME NEW seq, NEW m \in Nat, m = Len(seq), NEW ix, ix = Indexes(seq)
  PROVE  Len(ix) = m /\ \A k \in 1..m : ix[k] = k
<1>1. ix = [k \in 1..m |-> k]
  BY DEF Indexes
<1>2. ix \in Seq(Nat)
  BY <1>1
<1>3. DOMAIN ix = 1..m
  BY <1>1
<1> QED BY <1>1, <1>2, <1>3

(* A call is one in every kin context. *)
LEMMA CallOfKin ==
  ASSUME NEW c, NEW x, Kin(c, x), NEW e, NEW n, NEW g, CallOf(c, e, n, g) PROVE CallOf(x, e, n, g)
<1>1. DirectTarget(x, e, n) = DirectTarget(c, e, n) /\ x.f = c.f
  BY TargetSame DEF Kin
<1> QED BY <1>1 DEF CallOf

(* All arguments of a call are visited. *)
LEMMA ArgsVisited ==
  ASSUME NEW c, CtxOk(c), NEW e, NEW n, NEW q, CallOf(c, e, n, q), c.sigs[q].site,
         NEW P, P = [j \in 1..NParams[q] |-> {<<e, n, j>>}], NEW d, d = MeetArgs(c, e, n, q)
  PROVE  Visited(c, d, Together(P, NParams[q]))
<1> DEFINE m == NParams[q]
           D == {x \in KinOf(c) : x.sigs[q].site}
           ix == Indexes(e[n].args)
           F == [k \in 1..m |-> [x \in D |-> MeetArg(x, e, n, q, k)]]
<1>0. q \in Fns /\ m \in Nat /\ Len(e[n].args) = m /\ IsExpr(c.f, e)
  BY ShapeAssumption, NatN DEF CallOf, Fns, All
<1>1. c \in D
  BY KinSelf, KinIn
<1>2. D \subseteq KinOf(c)
  OBVIOUS
<1>3. ASSUME NEW k \in 1..m, NEW x \in D
      PROVE  Visited(x, MeetArg(x, e, n, q, k), {<<e, n, k>>}) /\ MeetArg(x, e, n, q, k) \in D
  <2> DEFINE y == MeetArg(x, e, n, q, k)
  <2>1. Kin(c, x) /\ x.sigs[q].site
    BY KinIn
  <2>2. CtxOk(x) /\ CallOf(x, e, n, q)
    BY <2>1, CallOfKin DEF Kin
  <2>3. Visited(x, y, {<<e, n, k>>}) /\ y.sigs[q].site
    BY <2>1, <2>2, ArgVisited
  <2> HIDE DEF y
  <2>4. Kin(c, y)
    BY <2>1, <2>3, KinTrans DEF Visited
  <2>5. y \in D
    BY <2>3, <2>4, KinIn
  <2> QED BY <2>3, <2>5 DEF y
<1>4. Len(ix) = m /\ \A k \in 1..m : ix[k] = k
  BY <1>0, IndexesFacts
<1>5. \A k \in 1..m : \A x \in D : F[k][x] = MeetArg(x, e, n, q, k)
  BY Zenon
<1>6. \A k \in 1..m : P[k] = {<<e, n, k>>}
  OBVIOUS
<1>7. ix = Indexes(e[n].args)
  OBVIOUS
<1> HIDE DEF F, D, ix, m
<1>8. ArgSteps(D, F, e, n, q, ix, m)
  BY <1>3, <1>4, <1>5 DEF ArgSteps
<1>9. VisitsAll(D, F, P, m)
  BY <1>3, <1>5, <1>6 DEF VisitsAll
<1>10. PlacesAll(c, P, m)
  BY <1>0, <1>6 DEF PlacesAll, PlacesOk
<1>11. Reaches(D, F, c, m, d)
  BY <1>0, <1>1, <1>4, <1>7, <1>8, Args
<1>12. Visited(c, d, Together(P, m))
  BY <1>0, <1>1, <1>2, <1>9, <1>10, <1>11, VisitFold
<1> QED BY <1>12 DEF m

(* The arguments of node n. *)
Points(e, n) == {<<e, n, j>> : j \in Nat}

(* A node is visited, whether or not it is a direct call. *)
LEMMA SiteVisited ==
  ASSUME NEW c, CtxOk(c), NEW e, IsExpr(c.f, e), NEW n \in 1..Len(e), NEW d, d = InferSite(c, e, n)
  PROVE  Visited(c, d, Points(e, n))
<1> DEFINE q == DirectTarget(c, e, n)
<1>p. \A p \in Points(e, n) : p[1] = e /\ p[2] = n
  BY DEF Points
<1>1. CASE e[n].t # "call" \/ q = NoFn
  <2>1. d = c
    BY <1>1 DEF InferSite
  <2>2. \A p \in Points(e, n), g \in Fns : ~Hit(c, p, g)
    <3>1. NoFn \notin Fns
      BY NatN DEF NoFn, Fns
    <3> QED BY <3>1, <1>1, <1>p DEF Hit, IsCall
  <2>3. AllMet(c, Points(e, n))
    BY <2>2 DEF AllMet, Met
  <2>4. Kin(c, c) /\ Narrowed(c.sigs, c.sigs) /\ HitFrom(c, c, Points(e, n))
    BY VisitedSelf DEF Visited, HitFrom
  <2> QED BY <2>1, <2>3, <2>4 DEF Visited
<1>2. CASE e[n].t = "call" /\ q # NoFn
  <2> DEFINE sh == SitedSigs(c.sigs, q)
             b == WithSigs(c, sh)
             m == NParams[q]
             P == [j \in 1..m |-> {<<e, n, j>>}]
             z == <<e, n, 0>>
             Q == {z} \cup Together(P, m)
  <2>1. q \in Fns /\ CallOf(c, e, n, q)
    BY <1>2, TargetFacts DEF CallOf, IsCall
  <2>2. d = MeetArgs(b, e, n, q)
    <3>1. [c EXCEPT !.sigs[q].site = TRUE] = [c EXCEPT !.sigs = sh]
      BY DEF SitedSigs
    <3>2. [c EXCEPT !.sigs = sh] = b
      <4> HIDE DEF sh
      <4> QED BY CtxWrites DEF CtxOk, WithSigs
    <3>3. d = MeetArgs([c EXCEPT !.sigs[q].site = TRUE], e, n, q)
      <4> HIDE DEF b
      <4> QED BY <1>2 DEF InferSite
    <3> HIDE DEF b, sh, q
    <3> QED BY <3>1, <3>2, <3>3
  <2> HIDE DEF q
  <2>3. /\ SigsOk(sh) /\ Narrowed(c.sigs, sh) /\ sh[q].site
        /\ \A h \in Fns : h # q => sh[h] = c.sigs[h]
    BY <2>1, SitedSigsFacts DEF CtxOk
  <2> HIDE DEF sh
  <2>4. Kin(c, b) /\ b.sigs = sh
    BY <2>3, WithSigsFields
  <2> HIDE DEF b
  <2>5. Hit(c, z, q) /\ \A g : Hit(c, z, g) => g = q
    BY <2>1 DEF Hit, CallOf
  <2>6. Visited(c, b, {z})
    <3>1. HitFrom(c, b, {z})
      BY <2>3, <2>4, <2>5 DEF HitFrom
    <3>2. Met(b, z)
      <4>1. \A g : Hit(b, z, g) => g = q
        BY <2>4, <2>5, HitSame
      <4>2. MetAt(b, z, q)
        BY <2>3, <2>4 DEF MetAt
      <4> HIDE DEF z
      <4> QED BY <4>1, <4>2 DEF Met
    <3> HIDE DEF z
    <3> QED BY <3>1, <3>2, <2>3, <2>4 DEF Visited, AllMet
  <2>7. Visited(b, d, Together(P, m))
    <3>1. CtxOk(b) /\ CallOf(b, e, n, q) /\ b.sigs[q].site
      BY <2>1, <2>3, <2>4, CallOfKin DEF Kin
    <3> HIDE DEF m
    <3>2. P = [j \in 1..NParams[q] |-> {<<e, n, j>>}]
      BY DEF m
    <3> HIDE DEF P
    <3>3. Visited(b, d, Together(P, NParams[q]))
      BY <3>1, <3>2, <2>2, ArgsVisited
    <3> QED BY <3>3 DEF m
  <2>8. Visited(c, d, Q)
    <3>1. PlacesOk(c, {z})
      BY DEF PlacesOk
    <3> HIDE DEF z, P, m
    <3> QED BY <3>1, <2>6, <2>7, VisitedTrans
  <2>9. Q \subseteq Points(e, n)
    <3>1. m \in Nat
      BY <2>1, ShapeAssumption, NatN DEF Fns, All
    <3> HIDE DEF m
    <3> QED BY <3>1 DEF Together, Points
  <2>10. HitFrom(c, d, Points(e, n))
    <3>1. HitFrom(c, d, Q)
      BY <2>8 DEF Visited
    <3> HIDE DEF Q
    <3> QED BY <3>1, <2>9 DEF HitFrom
  <2>11. ASSUME AllMet(d, Q), NEW p \in Points(e, n) PROVE Met(d, p)
    <3>1. Kin(c, d)
      BY <2>8 DEF Visited
    <3>2. PICK j \in Nat : p = <<e, n, j>>
      BY DEF Points
    <3>3. CASE j \in 1..m
      <4>1. P[j] = {p}
        BY <3>3, <3>2
      <4>2. p \in Together(P, m)
        <5> HIDE DEF P, m
        <5> QED BY <4>1, <3>3 DEF Together
      <4> HIDE DEF P, m
      <4> QED BY <4>2, <2>11 DEF AllMet
    <3>4. CASE j \notin 1..m
      <4>1. Met(d, z) /\ Hit(d, z, q)
        BY <2>11, <2>5, <3>1, HitSame DEF AllMet
      <4>2. d.sigs[q].site
        <5> HIDE DEF z
        <5> QED BY <4>1, <2>1 DEF Met, MetAt
      <4>3. p[3] = j /\ p[1] = e /\ p[2] = n
        BY <3>2
      <4>4. MetAt(d, p, q)
        BY <4>2, <4>3, <3>4 DEF MetAt
      <4>5. \A g : Hit(d, p, g) => g = q
        <5>1. DirectTarget(d, e, n) = q
          BY <4>1 DEF Hit
        <5> QED BY <5>1, <4>3 DEF Hit
      <4> QED BY <4>4, <4>5 DEF Met
    <3> QED BY <3>3, <3>4
  <2> HIDE DEF Q
  <2> QED BY <2>8, <2>10, <2>11 DEF Visited, AllMet
<1> QED BY <1>1, <1>2

-----------------------------------------------------------------------------
(* all calls of an expression, a statement and a body. *)

(* The arguments of an expression, *)
ExprPoints(e) == UNION {Points(e, n) : n \in 1..Len(e)}
(* a statement, *)
StmtPoints(s) == UNION {ExprPoints(s.vals[v]) : v \in 1..Len(s.vals)}
(* a body. *)
BodyPoints(code) == UNION {StmtPoints(code[k]) : k \in 1..Len(code)}

(* They are points of expressions. *)
LEMMA PointsPlaces ==
  ASSUME NEW c, NEW e, IsExpr(c.f, e)
  PROVE  PlacesOk(c, ExprPoints(e)) /\ \A n \in 1..Len(e) : PlacesOk(c, Points(e, n))
  BY DEF PlacesOk, ExprPoints, Points

(* An expression is visited, *)
LEMMA ExprVisited ==
  ASSUME NEW c, CtxOk(c), NEW e, IsExpr(c.f, e), NEW d, d = InferExpr(c, e)
  PROVE  Visited(c, d, ExprPoints(e))
<1> DEFINE m == Len(e)
           D == KinOf(c)
           ix == Indexes(e)
           F == [k \in 1..m |-> [x \in D |-> InferSite(x, e, k)]]
           P == [k \in 1..m |-> Points(e, k)]
<1>0. m \in Nat /\ m = Len(e)
  BY DEF IsExpr
<1>1. c \in D /\ D \subseteq KinOf(c)
  BY KinSelf, KinIn
<1>2. ASSUME NEW k \in 1..m, NEW x \in D
      PROVE  Visited(x, InferSite(x, e, k), Points(e, k)) /\ InferSite(x, e, k) \in D
  <2> DEFINE y == InferSite(x, e, k)
  <2>1. Kin(c, x)
    BY KinIn
  <2>2. CtxOk(x) /\ IsExpr(x.f, e)
    BY <2>1 DEF Kin
  <2>3. Visited(x, y, Points(e, k))
    BY <2>2, SiteVisited
  <2> HIDE DEF y
  <2>4. Kin(c, y)
    BY <2>1, <2>3, KinTrans DEF Visited
  <2>5. y \in D
    BY <2>4, KinIn
  <2> QED BY <2>3, <2>5 DEF y
<1>3. Len(ix) = m /\ \A k \in 1..m : ix[k] = k
  <2> HIDE DEF m
  <2> QED BY <1>0, IndexesFacts
<1>4. \A k \in 1..m : \A x \in D : F[k][x] = InferSite(x, e, k)
  BY Zenon
<1>5. \A k \in 1..m : P[k] = Points(e, k)
  OBVIOUS
<1>6. Together(P, m) = ExprPoints(e)
  BY DEF Together, ExprPoints
<1>7. ix = Indexes(e)
  OBVIOUS
<1> HIDE DEF F, D, ix, m, P
<1>8. NodeSteps(D, F, e, ix, m)
  BY <1>2, <1>3, <1>4 DEF NodeSteps
<1>9. VisitsAll(D, F, P, m)
  BY <1>2, <1>4, <1>5 DEF VisitsAll
<1>10. PlacesAll(c, P, m)
  BY <1>0, <1>5, PointsPlaces DEF PlacesAll
<1>11. Reaches(D, F, c, m, d)
  BY <1>0, <1>1, <1>3, <1>7, <1>8, Nodes
<1>12. Visited(c, d, Together(P, m))
  BY <1>0, <1>1, <1>9, <1>10, <1>11, VisitFold
<1> QED BY <1>12, <1>6

(* a statement, *)
LEMMA StmtVisited ==
  ASSUME NEW c, CtxOk(c), NEW s, IsStmt(c.f, s), NEW d, d = InferStmt(c, s)
  PROVE  Visited(c, d, StmtPoints(s)) /\ PlacesOk(c, StmtPoints(s))
<1> DEFINE seq == s.vals
           m == Len(seq)
           D == KinOf(c)
           F == [k \in 1..m |-> [x \in D |-> InferExpr(x, seq[k])]]
           P == [k \in 1..m |-> ExprPoints(seq[k])]
<1>0. m \in Nat /\ m = Len(seq) /\ \A k \in 1..m : IsExpr(c.f, seq[k])
  BY DEF IsStmt
<1>1. c \in D /\ D \subseteq KinOf(c)
  BY KinSelf, KinIn
<1>2. ASSUME NEW k \in 1..m, NEW x \in D
      PROVE  Visited(x, InferExpr(x, seq[k]), ExprPoints(seq[k])) /\ InferExpr(x, seq[k]) \in D
  <2> DEFINE y == InferExpr(x, seq[k])
  <2>1. Kin(c, x)
    BY KinIn
  <2>2. CtxOk(x) /\ IsExpr(x.f, seq[k])
    BY <1>0, <2>1 DEF Kin
  <2>3. Visited(x, y, ExprPoints(seq[k]))
    BY <2>2, ExprVisited
  <2> HIDE DEF y
  <2>4. Kin(c, y)
    BY <2>1, <2>3, KinTrans DEF Visited
  <2>5. y \in D
    BY <2>4, KinIn
  <2> QED BY <2>3, <2>5 DEF y
<1>4. \A k \in 1..m : \A x \in D : F[k][x] = InferExpr(x, seq[k])
  BY Zenon
<1>5. \A k \in 1..m : P[k] = ExprPoints(seq[k])
  OBVIOUS
<1>6. Together(P, m) = StmtPoints(s)
  BY DEF Together, StmtPoints
<1>7. seq = s.vals
  OBVIOUS
<1> HIDE DEF F, D, seq, m, P
<1>8. ValSteps(D, F, seq, m)
  BY <1>2, <1>4 DEF ValSteps
<1>9. VisitsAll(D, F, P, m)
  BY <1>2, <1>4, <1>5 DEF VisitsAll
<1>10. PlacesAll(c, P, m)
  BY <1>0, <1>5, PointsPlaces DEF PlacesAll
<1>11. Reaches(D, F, c, m, d)
  BY <1>0, <1>1, <1>7, <1>8, Vals
<1>12. Visited(c, d, Together(P, m))
  BY <1>0, <1>1, <1>9, <1>10, <1>11, VisitFold
<1>13. PlacesOk(c, Together(P, m))
  BY <1>10 DEF PlacesAll, PlacesOk, Together
<1> QED BY <1>12, <1>13, <1>6

(* and a body. *)
LEMMA BodyVisited ==
  ASSUME NEW c, CtxOk(c), NEW d, d = InferSites(c)
  PROVE  Visited(c, d, BodyPoints(c.code)) /\ PlacesOk(c, BodyPoints(c.code))
<1> DEFINE seq == c.code
           m == Len(seq)
           D == KinOf(c)
           F == [k \in 1..m |-> [x \in D |-> InferStmt(x, seq[k])]]
           P == [k \in 1..m |-> StmtPoints(seq[k])]
<1>0. m \in Nat /\ m = Len(seq) /\ \A k \in 1..m : IsStmt(c.f, seq[k])
  BY DEF CtxOk, IsCode
<1>1. c \in D /\ D \subseteq KinOf(c)
  BY KinSelf, KinIn
<1>2. ASSUME NEW k \in 1..m, NEW x \in D
      PROVE  Visited(x, InferStmt(x, seq[k]), StmtPoints(seq[k])) /\ InferStmt(x, seq[k]) \in D
  <2> DEFINE y == InferStmt(x, seq[k])
  <2>1. Kin(c, x)
    BY KinIn
  <2>2. CtxOk(x) /\ IsStmt(x.f, seq[k])
    BY <1>0, <2>1 DEF Kin
  <2>3. Visited(x, y, StmtPoints(seq[k]))
    BY <2>2, StmtVisited
  <2> HIDE DEF y
  <2>4. Kin(c, y)
    BY <2>1, <2>3, KinTrans DEF Visited
  <2>5. y \in D
    BY <2>4, KinIn
  <2> QED BY <2>3, <2>5 DEF y
<1>4. \A k \in 1..m : \A x \in D : F[k][x] = InferStmt(x, seq[k])
  BY Zenon
<1>5. \A k \in 1..m : P[k] = StmtPoints(seq[k])
  OBVIOUS
<1>6. Together(P, m) = BodyPoints(c.code)
  BY DEF Together, BodyPoints
<1>7. seq = c.code
  OBVIOUS
<1> HIDE DEF F, D, seq, m, P
<1>8. StmtSteps(D, F, seq, m)
  BY <1>2, <1>4 DEF StmtSteps
<1>9. VisitsAll(D, F, P, m)
  BY <1>2, <1>4, <1>5 DEF VisitsAll
<1>10. PlacesAll(c, P, m)
  BY <1>0, <1>5, StmtVisited DEF PlacesAll
<1>11. Reaches(D, F, c, m, d)
  BY <1>0, <1>1, <1>7, <1>8, Stmts
<1>12. Visited(c, d, Together(P, m))
  BY <1>0, <1>1, <1>9, <1>10, <1>11, VisitFold
<1>13. PlacesOk(c, Together(P, m))
  BY <1>10 DEF PlacesAll, PlacesOk, Together
<1> QED BY <1>12, <1>13, <1>6

-----------------------------------------------------------------------------
(* The result type. *)

(* Step k is at statement k. *)
ReturnSteps(D, F, c0, seq, m) ==
  \A k \in 1..m : \A x \in D : MeetReturn(c0, x, seq[k]) \in D /\ F[k][x] = MeetReturn(c0, x, seq[k])

(* compute_ret_ty makes these steps. *)
LEMMA ReturnsMet ==
  ASSUME NEW c0, NEW c, NEW seq, NEW m \in Nat, m = Len(seq), NEW D, c \in D, NEW F, seq = c0.code, c = "unset",
         ReturnSteps(D, F, c0, seq, m)
  PROVE  Reaches(D, F, c, m, MeetReturns(c0))
<1> DEFINE Eq(h) == h = [i \in 0..m |-> IF i = 0 THEN c ELSE MeetReturn(c0, h[i - 1], seq[i])]
<1>1. PICK g : Steps(g, D, F, c, m)
  BY StepsExist DEF Stays, ReturnSteps
<1>2. Eq(g)
  <2>1. ASSUME NEW i \in 0..m PROVE g[i] = IF i = 0 THEN c ELSE MeetReturn(c0, g[i - 1], seq[i])
    <3>1. CASE i = 0
      BY <1>1, <3>1 DEF Steps
    <3>2. CASE i # 0
      <4>1. i \in 1..m /\ i - 1 \in 0..m
        BY <3>2
      <4>2. g[i] = F[i][g[i - 1]] /\ g[i - 1] \in D
        BY <1>1, <4>1 DEF Steps
      <4> QED BY <4>1, <4>2, <3>2 DEF ReturnSteps
    <3> QED BY <3>1, <3>2
  <2>2. g = [i \in 0..m |-> g[i]]
    BY <1>1 DEF Steps
  <2> QED BY <2>1, <2>2
<1> DEFINE f == CHOOSE h : Eq(h)
<1>3. Eq(f)
  <2> HIDE DEF Eq
  <2> QED BY <1>2, Zenon
<1>4. MeetReturns(c0) = f[m]
  BY Zenon DEF MeetReturns, Over
<1> HIDE DEF f
<1>5. f[0] = c /\ \A k \in 1..m : f[k] = MeetReturn(c0, f[k - 1], seq[k])
  <2>1. ASSUME NEW i \in 0..m PROVE f[i] = IF i = 0 THEN c ELSE MeetReturn(c0, f[i - 1], seq[i])
    BY <1>3
  <2>2. \A k \in 1..m : k \in 0..m /\ k # 0 /\ 0 \in 0..m
    OBVIOUS
  <2> HIDE DEF Eq
  <2>3. f[0] = c
    BY <2>1
  <2>4. ASSUME NEW k \in 1..m PROVE f[k] = MeetReturn(c0, f[k - 1], seq[k])
    BY <2>1, <2>2
  <2> QED BY <2>3, <2>4
<1>6. Follows(f, D, F, m)
  BY <1>5 DEF Follows, ReturnSteps
<1>7. Same(f, g, m)
  <2> HIDE DEF Eq
  <2>1. f[0] = c
    BY <1>5
  <2>2. m \in Nat
    OBVIOUS
  <2> QED BY <1>1, <2>1, <2>2, <1>6, StepsSame, Zenon
<1> QED BY <1>1, <1>4, <1>7 DEF Same, Reaches

(* If statement k returns, it is one value of the type. *)
IsReturn(c, k, ty) ==
  c.code[k].op = "return" => Len(c.code[k].vals) = 1 /\ NumTy(c, c.code[k].vals[1]) = ty
(* All returns are. *)
Returns(c, ty) == ty # "any" => \A k \in 1..Len(c.code) : IsReturn(c, k, ty)

(* The values of a statement have types. *)
LEMMA NumTyIn ==
  ASSUME NEW c, CtxOk(c), NEW k \in 1..Len(c.code), NEW v \in 1..Len(c.code[k].vals)
  PROVE  NumTy(c, c.code[k].vals[v]) \in Ty3
<1>1. AgreeBody(c, c)
  BY DEF AgreeBody, AgreeOn, SameSig
<1> QED BY <1>1, KinSelf, NumTySame

(* The result type is one, and that of all returns. *)
LEMMA RetFacts ==
  ASSUME NEW c, CtxOk(c)
  PROVE  RetTy(c) \in Ty3 /\ Returns(c, RetTy(c))
<1> DEFINE seq == c.code
           m == Len(seq)
           D == NumTys
           F == [k \in 1..m |-> [ty \in D |-> MeetReturn(c, ty, seq[k])]]
           I == [k \in 0..m |-> {ty \in D : ty # "any" => \A i \in 1..k : IsReturn(c, i, ty)}]
           r == MeetReturns(c)
<1>0. m \in Nat /\ m = Len(seq) /\ \A k \in 1..m : IsStmt(c.f, seq[k])
  BY DEF CtxOk, IsCode
<1>1. ASSUME NEW k \in 1..m, NEW ty \in D
      PROVE  /\ MeetReturn(c, ty, seq[k]) \in D
             /\ MeetReturn(c, ty, seq[k]) # "any" => IsReturn(c, k, MeetReturn(c, ty, seq[k]))
             /\ MeetReturn(c, ty, seq[k]) # "any" => ty = "unset" \/ MeetReturn(c, ty, seq[k]) = ty
             /\ seq[k].op # "return" => MeetReturn(c, ty, seq[k]) = ty
             /\ seq[k].op = "return" => MeetReturn(c, ty, seq[k]) # "unset"
  <2>1. CASE seq[k].op # "return"
    BY <2>1 DEF MeetReturn, IsReturn
  <2>2. CASE seq[k].op = "return" /\ Len(seq[k].vals) # 1
    BY <2>2 DEF MeetReturn, NumMeet, NumTys
  <2>3. CASE seq[k].op = "return" /\ Len(seq[k].vals) = 1
    <3> DEFINE t == NumTy(c, seq[k].vals[1])
    <3>1. t \in Ty3
      BY <2>3, NumTyIn
    <3>2. MeetReturn(c, ty, seq[k]) = NumMeet(ty, t) /\ IsReturn(c, k, t)
      BY <2>3 DEF MeetReturn, IsReturn
    <3> HIDE DEF t
    <3>3. NumMeet(ty, t) \in D /\ NumMeet(ty, t) # "unset" /\ (NumMeet(ty, t) # "any" => NumMeet(ty, t) = t /\ (ty = "unset" \/ ty = t))
      BY <3>1 DEF NumMeet, NumTys, Ty3
    <3> QED BY <2>3, <3>2, <3>3
  <2> QED BY <2>1, <2>2, <2>3
<1>u. ASSUME NEW i \in 1..m, IsReturn(c, i, "unset") PROVE \A t : IsReturn(c, i, t)
  <2>1. CASE seq[i].op # "return"
    BY <2>1 DEF IsReturn
  <2>2. CASE seq[i].op = "return"
    <3>1. Len(seq[i].vals) = 1 /\ NumTy(c, seq[i].vals[1]) = "unset"
      BY <2>2, <1>u DEF IsReturn
    <3>3. 1 \in 1..Len(c.code[i].vals) /\ i \in 1..Len(c.code)
      BY <3>1
    <3>2. NumTy(c, c.code[i].vals[1]) \in Ty3
      BY <3>3, NumTyIn
    <3> QED BY <3>1, <3>2 DEF Ty3
  <2> QED BY <2>1, <2>2
<1>2. \A k \in 1..m : \A x \in D : F[k][x] = MeetReturn(c, x, seq[k])
  BY Zenon
<1>3. "unset" \in D /\ D = NumTys
  BY DEF NumTys
<1>4. \A k \in 0..m : I[k] = {ty \in D : ty # "any" => \A i \in 1..k : IsReturn(c, i, ty)}
  OBVIOUS
<1>7. seq = c.code
  OBVIOUS
<1> HIDE DEF F, I, seq, m, D, r
<1>5. ReturnSteps(D, F, c, seq, m)
  BY <1>1, <1>2 DEF ReturnSteps
<1>6. Reaches(D, F, "unset", m, r)
  BY <1>0, <1>3, <1>5, <1>7, ReturnsMet DEF r
<1>8. PICK g : Steps(g, D, F, "unset", m) /\ r = g[m]
  BY <1>6 DEF Reaches
<1>9. "unset" \in I[0]
  <2>1. 0 \in 0..m /\ \A i \in 1..0 : FALSE
    BY <1>0
  <2> QED BY <2>1, <1>3, <1>4
<1>10. Carries(I, D, F, m)
  <2> SUFFICES ASSUME NEW k \in 1..m, NEW x \in D, x \in I[k - 1] PROVE F[k][x] \in I[k]
    BY DEF Carries
  <2> DEFINE y == MeetReturn(c, x, seq[k])
  <2>1. k - 1 \in 0..m /\ k \in 0..m
    BY <1>0
  <2>2. F[k][x] = y
    BY <1>2
  <2>3. /\ y \in D /\ (y # "any" => IsReturn(c, k, y)) /\ (y # "any" => x = "unset" \/ y = x)
    BY <1>1
  <2> HIDE DEF y
  <2>4. x # "any" => \A i \in 1..(k - 1) : IsReturn(c, i, x)
    BY <2>1, <1>4
  <2>5. ASSUME y # "any", NEW i \in 1..k PROVE IsReturn(c, i, y)
    <3>1. CASE i = k
      BY <3>1, <2>3, <2>5
    <3>2. CASE i # k
      <4>1. i \in 1..(k - 1) /\ i \in 1..m
        BY <3>2, <1>0
      <4>2. x # "any"
        BY <2>3, <2>5
      <4>3. IsReturn(c, i, x)
        BY <4>1, <4>2, <2>4
      <4> QED BY <4>1, <4>3, <2>3, <2>5, <1>u
    <3> QED BY <3>1, <3>2
  <2> QED BY <2>1, <2>2, <2>3, <2>5, <1>4
<1>11. \A k \in 0..m : g[k] \in I[k]
  BY <1>0, <1>8, <1>9, <1>10, StepsKeep
<1>12. r \in D /\ (r # "any" => \A i \in 1..m : IsReturn(c, i, r))
  <2>1. m \in 0..m
    BY <1>0
  <2> QED BY <2>1, <1>8, <1>11, <1>4
<1>13. CASE Len(c.code) = 0 \/ Last(c.code).op # "return"
  <2>1. RetTy(c) = "any"
    BY <1>13 DEF RetTy
  <2> QED BY <2>1 DEF Returns, Ty3
<1>14. CASE ~(Len(c.code) = 0 \/ Last(c.code).op # "return")
  <2>1. RetTy(c) = r
    BY <1>14 DEF RetTy, r
  <2>2. m \in 1..m /\ seq[m].op = "return"
    BY <1>14, <1>0, <1>7 DEF Last
  <2>3. r # "unset"
    <3>1. g[m] = F[m][g[m - 1]] /\ g[m - 1] \in D
      <4>1. m - 1 \in 0..m
        BY <2>2, <1>0
      <4> QED BY <2>2, <4>1, <1>8 DEF Steps
    <3>2. r = MeetReturn(c, g[m - 1], seq[m])
      BY <3>1, <2>2, <1>2, <1>8
    <3> QED BY <3>1, <3>2, <2>2, <1>1
  <2>4. r \in Ty3
    BY <2>3, <1>12, <1>3 DEF NumTys, Ty3
  <2>5. Returns(c, r)
    BY <1>12, <1>0, <1>7 DEF Returns
  <2> QED BY <2>1, <2>4, <2>5
<1> QED BY <1>13, <1>14

-----------------------------------------------------------------------------
(* A body that holds. *)

(* What infer_step_body seeds the slots of f with. *)
Seed(f, sg) == IF f = Main THEN NoSeed ELSE sg[f].params
(* The body's calls are met, and its returns have the type its signature says. *)
Holds(c) == AllMet(c, BodyPoints(c.code)) /\ (c.f # Main => Returns(c, c.sigs[c.f].ret))
(* The body of f does under these signatures and boxes. *)
HoldsIn(f, sg, ib) == Holds(Context(f, Seed(f, sg), sg, ib))

(* The bodies are those of the main chunk and the functions. *)
LEMMA FnIsAll == ASSUME NEW f PROVE f \in All <=> f = Main \/ f \in Fns
  BY NatN DEF All, Main, Fns

(* The main chunk is no function. *)
LEMMA MainNoFn == Main \notin Fns /\ NoFn \notin Fns
  BY NatN DEF Main, NoFn, Fns

(* A body has a well-formed context, *)
LEMMA BodyCtxOk ==
  ASSUME TextInv, NEW f \in All, NEW sg, SigsOk(sg), NEW ib, NEW b, b = BodyOf(f, sg, ib)
  PROVE  CtxOk(b)
<1>1. /\ IsCtx(b) /\ b.f = f /\ b.code = Code(f) /\ b.slotFn = slotFn[f] /\ b.sigs = sg /\ b.ib = ib
      /\ b.upFn = IF f = Main THEN <<>> ELSE upFn[f]
  BY BodyOfFields
<1>2. IsCode(f, Code(f))
  BY CodeFacts DEF TextInv
<1>3. FnsIn(b)
  BY <1>1, FnIsAll DEF FnsIn, TextInv, FnsOk
<1> QED BY <1>1, <1>2, <1>3 DEF CtxOk

(* kin under signatures that say the same of what it calls, *)
LEMMA ContextKin ==
  ASSUME TextInv, NEW f \in All, NEW s, SigsOk(s), NEW t, SigsOk(t), NEW ib, NEW seed,
         AgreeBody(BodyOf(f, s, ib), BodyOf(f, t, ib))
  PROVE  /\ Kin(Context(f, seed, s, ib), Context(f, seed, t, ib))
         /\ AgreeBody(Context(f, seed, s, ib), Context(f, seed, t, ib))
<1> DEFINE x == BodyOf(f, s, ib)
           y == BodyOf(f, t, ib)
<1>1. CtxOk(x) /\ CtxOk(y)
  BY BodyCtxOk
<1>2. /\ x.f = y.f /\ x.code = y.code /\ x.slotFn = y.slotFn /\ x.upFn = y.upFn
      /\ x.ints = y.ints /\ x.floats = y.floats /\ x.ib = y.ib
  BY DEF BodyOf
<1>3. Context(f, seed, s, ib) = Typed(x, seed) /\ Context(f, seed, t, ib) = Typed(y, seed)
  BY DEF Context
<1> HIDE DEF x, y
<1>4. Kin(x, y)
  BY <1>1, <1>2 DEF Kin
<1>5. AgreeBody(x, y)
  BY DEF x, y
<1> QED BY <1>3, <1>4, <1>5, TypedSame

(* its slots typed too. *)
LEMMA ContextOk ==
  ASSUME TextInv, NEW f \in All, NEW s, SigsOk(s), NEW ib, NEW seed
  PROVE  CtxOk(Context(f, seed, s, ib))
<1>1. AgreeBody(BodyOf(f, s, ib), BodyOf(f, s, ib))
  BY DEF AgreeBody, AgreeOn, SameSig
<1>2. Kin(Context(f, seed, s, ib), Context(f, seed, s, ib))
  BY <1>1, ContextKin
<1> QED BY <1>2 DEF Kin

(* A point of a body is one of an expression of it, *)
LEMMA PointExpr ==
  ASSUME NEW code, NEW p \in BodyPoints(code)
  PROVE  \E k \in 1..Len(code) : \E v \in 1..Len(code[k].vals) : p[1] = code[k].vals[v]
<1>1. PICK k \in 1..Len(code) : p \in StmtPoints(code[k])
  BY DEF BodyPoints
<1>2. PICK v \in 1..Len(code[k].vals) : p \in ExprPoints(code[k].vals[v])
  BY <1>1 DEF StmtPoints
<1>3. PICK n \in 1..Len(code[k].vals[v]) : p \in Points(code[k].vals[v], n)
  BY <1>2 DEF ExprPoints
<1>4. p[1] = code[k].vals[v]
  BY <1>3 DEF Points
<1> QED BY <1>4

(* and the other way round. *)
LEMMA PointIs ==
  ASSUME NEW code, NEW k \in 1..Len(code), NEW v \in 1..Len(code[k].vals), NEW e, e = code[k].vals[v],
         NEW n \in 1..Len(e), NEW j \in Nat
  PROVE  <<e, n, j>> \in BodyPoints(code)
<1>1. <<e, n, j>> \in Points(e, n)
  BY DEF Points
<1>2. <<e, n, j>> \in ExprPoints(e)
  BY <1>1 DEF ExprPoints
<1>3. <<e, n, j>> \in StmtPoints(code[k])
  BY <1>2 DEF StmtPoints
<1> QED BY <1>3 DEF BodyPoints

(* What y's signatures say of the calls hit is what x's do. *)
SitesIn(x, y) == \A p \in BodyPoints(x.code), g \in Fns : Hit(x, p, g) => y.sigs[g].site

(* And what they say of the body itself. *)
SameOwn(x, y) == x.f # Main => SameSig(x, y, x.f)

(* Then it holds in both. *)
LEMMA HoldsKin ==
  ASSUME NEW x, NEW y, Kin(x, y), AgreeBody(x, y), SitesIn(x, y), SameOwn(x, y), Holds(x)
  PROVE  Holds(y)
<1>1. y.code = x.code /\ y.f = x.f
  BY DEF Kin
<1>2. ASSUME NEW p \in BodyPoints(x.code), NEW g \in Fns, Hit(y, p, g) PROVE MetAt(y, p, g)
  <2>0. PICK k \in 1..Len(x.code) : \E v \in 1..Len(x.code[k].vals) : p[1] = x.code[k].vals[v]
    BY PointExpr
  <2>1. PICK v \in 1..Len(x.code[k].vals) : p[1] = x.code[k].vals[v]
    BY <2>0
  <2>2. NodeTys(x, p[1]) = NodeTys(y, p[1]) /\ AgreeOn(x, y, p[1])
    <3>1. NodeTys(x, x.code[k].vals[v]) = NodeTys(y, x.code[k].vals[v])
      BY NumTySame
    <3>2. AgreeOn(x, y, x.code[k].vals[v])
      BY DEF AgreeBody
    <3> QED BY <3>1, <3>2, <2>1
  <2>3. Hit(x, p, g)
    BY <1>2, HitSame
  <2>4. MetAt(x, p, g) /\ y.sigs[g].site
    BY <2>3 DEF Holds, AllMet, Met, SitesIn
  <2>5. x.sigs[g].params = y.sigs[g].params
    <3>1. IsCall(p[1], p[2]) /\ DirectTarget(x, p[1], p[2]) = g /\ g # NoFn /\ p[2] \in 1..Len(p[1])
      BY <2>3, MainNoFn DEF Hit, IsCall
    <3> QED BY <3>1, <2>2 DEF AgreeOn, SameSig
  <2> QED BY <2>2, <2>4, <2>5 DEF MetAt
<1>3. AllMet(y, BodyPoints(y.code))
  BY <1>1, <1>2 DEF AllMet, Met
<1>4. ASSUME y.f # Main PROVE Returns(y, y.sigs[y.f].ret)
  <2> DEFINE ty == x.sigs[x.f].ret
  <2>1. y.sigs[y.f].ret = ty /\ Returns(x, ty)
    BY <1>1, <1>4 DEF SameOwn, SameSig, Holds
  <2> HIDE DEF ty
  <2>2. ASSUME NEW k \in 1..Len(x.code), IsReturn(x, k, ty) PROVE IsReturn(y, k, ty)
    <3>1. \A v \in 1..Len(x.code[k].vals) : NumTy(x, x.code[k].vals[v]) = NumTy(y, x.code[k].vals[v])
      BY NumTySame
    <3> QED BY <2>2, <3>1, <1>1 DEF IsReturn
  <2>3. Returns(y, ty)
    BY <1>1, <2>1, <2>2 DEF Returns
  <2> QED BY <2>1, <2>3
<1> QED BY <1>3, <1>4 DEF Holds

(* The signatures say the same. *)
SameTypes(s, t) == \A g \in Fns : s[g].params = t[g].params /\ s[g].ret = t[g].ret
(* Functions once called stay so. *)
MoreSites(s, t) == \A g \in Fns : s[g].site => t[g].site

(* Then they do of what f calls. *)
LEMMA SameTypesAgree ==
  ASSUME TextInv, NEW f \in All, NEW s, SigsOk(s), NEW t, SigsOk(t), SameTypes(s, t), NEW ib
  PROVE  AgreeBody(BodyOf(f, s, ib), BodyOf(f, t, ib))
<1> DEFINE x == BodyOf(f, s, ib)
           y == BodyOf(f, t, ib)
<1>1. CtxOk(x) /\ CtxOk(y)
  BY BodyCtxOk
<1>2. /\ x.f = y.f /\ x.code = y.code /\ x.slotFn = y.slotFn /\ x.upFn = y.upFn
      /\ x.ints = y.ints /\ x.floats = y.floats /\ x.ib = y.ib /\ x.sigs = s /\ y.sigs = t
  BY DEF BodyOf
<1> HIDE DEF x, y
<1>3. Kin(x, y)
  BY <1>1, <1>2 DEF Kin
<1>4. \A g \in Fns : SameSig(x, y, g)
  BY <1>2 DEF SameSig, SameTypes
<1>5. ASSUME NEW k \in 1..Len(x.code), NEW v \in 1..Len(x.code[k].vals) PROVE AgreeOn(x, y, x.code[k].vals[v])
  <2>1. IsExpr(x.f, x.code[k].vals[v])
    BY <1>1 DEF CtxOk, IsCode, IsStmt
  <2> QED BY <2>1, <1>3, <1>4, AgreeAnywhere
<1>6. AgreeBody(x, y)
  BY <1>5 DEF AgreeBody
<1> QED BY <1>6 DEF x, y

(* A body that holds does so as long as signatures say the same. *)
LEMMA HoldsSame ==
  ASSUME TextInv, NEW f \in All, NEW s, SigsOk(s), NEW t, SigsOk(t), SameTypes(s, t), MoreSites(s, t), NEW ib,
         HoldsIn(f, s, ib)
  PROVE  HoldsIn(f, t, ib)
<1> DEFINE x == Context(f, Seed(f, s), s, ib)
           y == Context(f, Seed(f, t), t, ib)
<1>1. Seed(f, s) = Seed(f, t)
  BY FnIsAll DEF Seed, SameTypes
<1>2. AgreeBody(BodyOf(f, s, ib), BodyOf(f, t, ib))
  BY SameTypesAgree
<1>3. Kin(x, y) /\ AgreeBody(x, y)
  BY <1>1, <1>2, ContextKin
<1>4. x.sigs = s /\ y.sigs = t /\ x.f = f
  BY ContextFields
<1>5. Holds(x)
  BY DEF HoldsIn
<1> HIDE DEF x, y
<1>6. SitesIn(x, y)
  BY <1>4, <1>5 DEF SitesIn, Holds, AllMet, Met, MetAt, MoreSites
<1>7. SameOwn(x, y)
  BY <1>4, FnIsAll DEF SameOwn, SameSig, SameTypes
<1>8. Holds(y)
  BY <1>3, <1>5, <1>6, <1>7, HoldsKin
<1> QED BY <1>8 DEF HoldsIn, y

-----------------------------------------------------------------------------
(* infer_step_body. *)

(* Some call of the program reaches g directly. *)
Called(g) == \E f \in All : \E p \in BodyPoints(Code(f)) : Hit(BodyOf(f, <<>>, {}), p, g)

(* Calls reach the same functions under all signatures. *)
LEMMA CalledFrom ==
  ASSUME NEW f \in All, NEW seed, NEW s, NEW ib, NEW c, c = Context(f, seed, s, ib), NEW p, NEW g
  PROVE  Hit(c, p, g) <=> Hit(BodyOf(f, <<>>, {}), p, g)
<1> DEFINE b == BodyOf(f, <<>>, {})
<1>1. c.f = f /\ c.slotFn = slotFn[f] /\ c.upFn = IF f = Main THEN <<>> ELSE upFn[f]
  BY ContextFields
<1>2. b.f = f /\ b.slotFn = slotFn[f] /\ b.upFn = IF f = Main THEN <<>> ELSE upFn[f]
  BY BodyOfFields
<1> HIDE DEF b
<1>3. \A e, n : DirectTarget(c, e, n) = DirectTarget(b, e, n)
  BY <1>1, <1>2, TargetSame
<1>4. Hit(c, p, g) <=> Hit(b, p, g)
  BY <1>3 DEF Hit
<1> QED BY <1>4 DEF b

(* What infer_step_body makes of the signatures. *)
Inferred(f, sg, ib) ==
  LET d == InferSites(Context(f, Seed(f, sg), sg, ib))
  IN  IF f = Main THEN d.sigs ELSE [d.sigs EXCEPT ![f].ret = RetTy(d)]

(* The result type of f written. *)
WithRet(sg, f, ty) == [sg EXCEPT ![f].ret = ty]

(* What that changes. *)
LEMMA RetSigs ==
  ASSUME NEW sg, SigsOk(sg), NEW f \in Fns, NEW ty \in Ty3, NEW sh, sh = WithRet(sg, f, ty)
  PROVE  /\ SigsOk(sh) /\ sh[f].ret = ty /\ \A g \in Fns : g # f => sh[g] = sg[g]
         /\ \A g \in Fns : sh[g].params = sg[g].params /\ sh[g].site = sg[g].site
         /\ sg[f].ret = ty => sh = sg
<1> DEFINE s == sg[f]
           u == [s EXCEPT !.ret = ty]
<1>1. s.params \in [1..NParams[f] -> NumTys] /\ s.ret \in Ty3 /\ s.site \in BOOLEAN
      /\ s = [params |-> s.params, ret |-> s.ret, site |-> s.site]
  BY SigsFacts
<1>2. sh = [sg EXCEPT ![f] = u]
  BY DEF WithRet
<1> HIDE DEF s
<1>3. u.params = s.params /\ u.ret = ty /\ u.site = s.site /\ u \in Sig(f) /\ (s.ret = ty => u = s)
  BY <1>1 DEF Sig
<1> HIDE DEF u
<1>4. sg = [h \in Fns |-> sg[h]] /\ \A h \in Fns : sg[h] \in Sig(h)
  BY SigsFacts
<1>5. sh = [h \in Fns |-> sh[h]] /\ sh[f] = u /\ \A h \in Fns : h # f => sh[h] = sg[h]
  BY <1>2, <1>4
<1>6. \A h \in Fns : sh[h] \in Sig(h)
  BY <1>3, <1>4, <1>5
<1>7. SigsOk(sh)
  BY <1>5, <1>6, SigsIntro
<1>8. ASSUME s.ret = ty PROVE sh = sg
  <2>1. \A h \in Fns : sh[h] = sg[h]
    BY <1>3, <1>5, <1>8 DEF s
  <2> QED BY <2>1, <1>4, <1>5
<1>9. \A g \in Fns : sh[g].params = sg[g].params /\ sh[g].site = sg[g].site
  BY <1>3, <1>5 DEF s
<1> QED BY <1>3, <1>5, <1>7, <1>8, <1>9 DEF s

(* A step that changes no type leaves a body that holds. *)
LEMMA InferredFacts ==
  ASSUME TextInv, NEW f \in All, NEW sg, SigsOk(sg), NEW ib, NEW new, new = Inferred(f, sg, ib)
  PROVE  /\ SigsOk(new) /\ MoreSites(sg, new)
         /\ \A g \in Fns : new[g].site => sg[g].site \/ Called(g)
         /\ SameTypes(sg, new) => HoldsIn(f, new, ib)
<1> DEFINE c == Context(f, Seed(f, sg), sg, ib)
           d == InferSites(c)
           P == BodyPoints(c.code)
<1>1. c.f = f /\ c.code = Code(f) /\ c.sigs = sg
  BY ContextFields
<1>2. CtxOk(c)
  BY ContextOk
<1>3. new = IF f = Main THEN d.sigs ELSE [d.sigs EXCEPT ![f].ret = RetTy(d)]
  BY DEF Inferred
<1>c. c = Context(f, Seed(f, sg), sg, ib)
  OBVIOUS
<1> HIDE DEF c
<1>4. Visited(c, d, P)
  BY <1>2, BodyVisited
<1> HIDE DEF d
<1>5. Kin(c, d) /\ Narrowed(sg, d.sigs) /\ HitFrom(c, d, P) /\ (SameParams(sg, d.sigs) => AllMet(d, P))
  BY <1>1, <1>4 DEF Visited
<1>6. CtxOk(d) /\ SigsOk(d.sigs) /\ d.f = f /\ d.code = c.code
  BY <1>1, <1>5 DEF Kin, CtxOk
<1>7. RetTy(d) \in Ty3 /\ Returns(d, RetTy(d))
  BY <1>6, RetFacts
<1>8. /\ SigsOk(new) /\ \A g \in Fns : new[g].params = d.sigs[g].params /\ new[g].site = d.sigs[g].site
      /\ f # Main => new[f].ret = RetTy(d) /\ (d.sigs[f].ret = RetTy(d) => new = d.sigs)
      /\ f = Main => new = d.sigs
  <2>1. CASE f = Main
    BY <2>1, <1>3, <1>6
  <2>2. CASE f # Main
    <3>1. f \in Fns
      BY <2>2, FnIsAll
    <3>2. new = [d.sigs EXCEPT ![f].ret = RetTy(d)]
      BY <2>2, <1>3
    <3> DEFINE sh == d.sigs
               ty == RetTy(d)
    <3>3. SigsOk(sh) /\ ty \in Ty3 /\ new = WithRet(sh, f, ty)
      BY <3>2, <1>6, <1>7 DEF WithRet
    <3> HIDE DEF sh, ty
    <3>4. /\ SigsOk(new) /\ new[f].ret = ty
          /\ \A g \in Fns : new[g].params = sh[g].params /\ new[g].site = sh[g].site
          /\ sh[f].ret = ty => new = sh
      BY <3>1, <3>3, RetSigs
    <3> QED BY <2>2, <3>4 DEF sh, ty
  <2> QED BY <2>1, <2>2
<1>9. MoreSites(sg, new)
  BY <1>5, <1>8 DEF Narrowed, MoreSites
<1>10. ASSUME NEW g \in Fns, new[g].site, ~sg[g].site PROVE Called(g)
  <2>1. PICK p \in P : Hit(c, p, g)
    BY <1>10, <1>1, <1>5, <1>8 DEF HitFrom
  <2>2. Hit(BodyOf(f, <<>>, {}), p, g)
    BY <2>1, <1>c, CalledFrom
  <2> QED BY <2>1, <2>2, <1>1 DEF Called
<1>11. ASSUME SameTypes(sg, new) PROVE HoldsIn(f, new, ib)
  <2>1. SameParams(sg, d.sigs)
    BY <1>8, <1>11 DEF SameParams, SameTypes
  <2>2. new = d.sigs
    <3>1. CASE f = Main
      BY <3>1, <1>8
    <3>2. CASE f # Main
      <4>1. f \in Fns
        BY <3>2, FnIsAll
      <4>2. d.sigs[f].ret = sg[f].ret /\ sg[f].ret = new[f].ret
        BY <4>1, <1>5, <1>11 DEF Narrowed, SameTypes
      <4> QED BY <3>2, <4>2, <1>8
    <3> QED BY <3>1, <3>2
  <2>3. Holds(d)
    <3>1. AllMet(d, BodyPoints(d.code))
      BY <2>1, <1>5, <1>6
    <3>2. d.f # Main => Returns(d, d.sigs[d.f].ret)
      BY <2>2, <1>6, <1>7, <1>8
    <3> QED BY <3>1, <3>2 DEF Holds
  <2> DEFINE y == Context(f, Seed(f, new), new, ib)
  <2>4. Seed(f, new) = Seed(f, sg)
    BY <1>11, FnIsAll DEF Seed, SameTypes
  <2>5. Kin(c, y)
    <3>1. AgreeBody(BodyOf(f, sg, ib), BodyOf(f, new, ib))
      BY <1>8, <1>11, SameTypesAgree
    <3> QED BY <3>1, <2>4, <1>8, <1>c, ContextKin
  <2>6. y.sigs = new
    BY ContextFields
  <2> HIDE DEF y
  <2>7. y = d
    <3>1. IsCtx(y) /\ IsCtx(d)
      BY <2>5, <1>6 DEF Kin, CtxOk
    <3>2. /\ y.f = d.f /\ y.code = d.code /\ y.slotFn = d.slotFn /\ y.upFn = d.upFn
          /\ y.ints = d.ints /\ y.floats = d.floats /\ y.ib = d.ib /\ y.sigs = d.sigs
      BY <2>2, <2>5, <2>6, <1>5 DEF Kin
    <3> QED BY <3>1, <3>2 DEF IsCtx
  <2> QED BY <2>3, <2>7 DEF HoldsIn, y
<1> QED BY <1>8, <1>9, <1>10, <1>11

(* Equal but for the site. *)
SiteAside(s, t, g) == [s[g] EXCEPT !.site = TRUE] = [t[g] EXCEPT !.site = TRUE]

(* Then they say the same. *)
LEMMA SiteTrueSame ==
  ASSUME NEW s, SigsOk(s), NEW t, SigsOk(t), NEW g \in Fns, SiteAside(s, t, g)
  PROVE  s[g].params = t[g].params /\ s[g].ret = t[g].ret
<1> DEFINE u == s[g]
           v == t[g]
<1>1. /\ u = [params |-> u.params, ret |-> u.ret, site |-> u.site]
      /\ v = [params |-> v.params, ret |-> v.ret, site |-> v.site]
  BY SigsFacts
<1>2. [u EXCEPT !.site = TRUE] = [v EXCEPT !.site = TRUE]
  BY DEF SiteAside
<1> HIDE DEF u, v
<1>3. [u EXCEPT !.site = TRUE].params = u.params /\ [u EXCEPT !.site = TRUE].ret = u.ret
  BY <1>1
<1>4. [v EXCEPT !.site = TRUE].params = v.params /\ [v EXCEPT !.site = TRUE].ret = v.ret
  BY <1>1
<1>5. u.params = v.params /\ u.ret = v.ret
  BY <1>2, <1>3, <1>4
<1> QED BY <1>5 DEF u, v

(* The step of the model does. *)
LEMMA StepFacts ==
  ASSUME TextInv, NEW f \in All, SigsOk(sigs), InferStep(f)
  PROVE  /\ SigsOk(sigs') /\ MoreSites(sigs, sigs')
         /\ \A g \in Fns : sigs'[g].site => sigs[g].site \/ Called(g)
         /\ changed' = FALSE => changed = FALSE /\ SameTypes(sigs, sigs') /\ HoldsIn(f, sigs', ibox)
<1> DEFINE new == Inferred(f, sigs, ibox)
<1>1. /\ sigs' = new
      /\ changed' = (changed \/ \E g \in Fns : [new[g] EXCEPT !.site = TRUE] # [sigs[g] EXCEPT !.site = TRUE])
  BY DEF InferStep, Inferred, Seed
<1>2. /\ SigsOk(new) /\ MoreSites(sigs, new)
      /\ \A g \in Fns : new[g].site => sigs[g].site \/ Called(g)
      /\ SameTypes(sigs, new) => HoldsIn(f, new, ibox)
  BY InferredFacts
<1> HIDE DEF new
<1>3. changed \in BOOLEAN
  BY DEF TextInv, ControlOk
<1>4. ASSUME changed' = FALSE PROVE changed = FALSE /\ SameTypes(sigs, new)
  <2>1. changed = FALSE /\ \A g \in Fns : [new[g] EXCEPT !.site = TRUE] = [sigs[g] EXCEPT !.site = TRUE]
    BY <1>1, <1>3, <1>4
  <2>2. \A g \in Fns : SiteAside(sigs, new, g)
    BY <2>1 DEF SiteAside
  <2> QED BY <2>1, <2>2, <1>2, SiteTrueSame DEF SameTypes
<1>5. sigs' = new
  BY <1>1
<1>6. changed' = FALSE => changed = FALSE /\ SameTypes(sigs, new) /\ HoldsIn(f, new, ibox)
  BY <1>2, <1>4
<1>7. /\ SigsOk(sigs') /\ MoreSites(sigs, sigs')
  BY <1>2, <1>5
<1>8. \A g \in Fns : sigs'[g].site => sigs[g].site \/ Called(g)
  BY <1>2, <1>5
<1>9. changed' = FALSE => changed = FALSE /\ SameTypes(sigs, sigs') /\ HoldsIn(f, sigs', ibox)
  BY <1>6, <1>5
<1> QED BY <1>7, <1>8, <1>9

-----------------------------------------------------------------------------
(* Finalize. *)

(* A function known to be called is. *)
SitesCalled == \A g \in Fns : sigs[g].site => Called(g)
(* No parameter is undetermined. *)
Settled(sg) == \A g \in Fns : \A j \in 1..NParams[g] : sg[g].params[j] # "unset"
(* The signatures Finalize makes. *)
FinalSigs == [f \in Fns |-> FinalSig(f)]
(* Every body holds. *)
AllHold == \A f \in All : HoldsIn(f, sigs, ibox)

(* Once a round changes nothing, a parameter of a function some call reaches *)
(* is determined.                                                           *)
LEMMA SitesDetermined ==
  ASSUME TextInv, SigsOk(sigs), AllHold, NEW g \in Fns, Called(g), NEW j \in 1..NParams[g]
  PROVE  sigs[g].params[j] # "unset"
<1>1. PICK f \in All : \E p \in BodyPoints(Code(f)) : Hit(BodyOf(f, <<>>, {}), p, g)
  BY DEF Called
<1>2. PICK p \in BodyPoints(Code(f)) : Hit(BodyOf(f, <<>>, {}), p, g)
  BY <1>1
<1> DEFINE c == Context(f, Seed(f, sigs), sigs, ibox)
<1>3. c.f = f /\ c.code = Code(f) /\ c.sigs = sigs /\ CtxOk(c) /\ Holds(c)
  BY ContextFields, ContextOk DEF AllHold, HoldsIn
<1>4. Hit(c, p, g)
  BY <1>2, CalledFrom
<1> HIDE DEF c
<1>5. PICK k \in 1..Len(c.code) : \E v \in 1..Len(c.code[k].vals) : p[1] = c.code[k].vals[v]
  BY <1>3, PointExpr
<1>6. PICK v \in 1..Len(c.code[k].vals) : p[1] = c.code[k].vals[v]
  BY <1>5
<1> DEFINE e == p[1]
           n == p[2]
           q == <<e, n, j>>
<1>7. IsExpr(c.f, e)
  BY <1>3, <1>6 DEF CtxOk, IsCode, IsStmt
<1>8. IsCall(e, n) /\ DirectTarget(c, e, n) = g
  BY <1>4 DEF Hit
<1>h. e = c.code[k].vals[v]
  BY <1>6
<1>n. j \in Nat
  BY ShapeAssumption, NatN DEF Fns, All
<1> HIDE DEF e, n
<1>9. CallOf(c, e, n, g)
  <2>1. n \in 1..Len(e) /\ e[n].t = "call" /\ g # NoFn
    BY <1>8, MainNoFn DEF IsCall
  <2>2. Len(e[n].args) = NParams[g]
    BY <2>1, <1>3, <1>7, <1>8, TargetFacts
  <2> QED BY <2>2, <1>7, <1>8 DEF CallOf
<1>10. q \in BodyPoints(c.code)
  BY <1>h, <1>n, <1>8, PointIs DEF IsCall
<1>11. q[1] = e /\ q[2] = n /\ q[3] = j
  OBVIOUS
<1> HIDE DEF q
<1>12. MetAt(c, q, g)
  BY <1>3, <1>8, <1>10, <1>11 DEF Holds, AllMet, Met, Hit
<1> DEFINE t == NodeTys(c, e)[e[n].args[j]]
<1>13. NumMeet(sigs[g].params[j], t) = sigs[g].params[j]
  BY <1>12, <1>11, <1>3 DEF MetAt
<1>14. t \in Ty3
  BY <1>9, <1>3, ArgTyIn
<1> HIDE DEF t
<1> QED BY <1>13, <1>14 DEF NumMeet, Ty3

(* Finalize leaves a called and determined signature alone, *)
LEMMA FinalFacts ==
  ASSUME SigsOk(sigs), NEW g \in Fns
  PROVE  /\ FinalSig(g) \in Sig(g) /\ FinalSig(g).site = sigs[g].site
         /\ \A j \in 1..NParams[g] : FinalSig(g).params[j] # "unset"
         /\ sigs[g].site /\ (\A j \in 1..NParams[g] : sigs[g].params[j] # "unset") => FinalSig(g) = sigs[g]
<1> DEFINE s == sigs[g]
           A == [i \in 1..NParams[g] |-> "any"]
           B == [i \in 1..NParams[g] |-> IF s.params[i] = "unset" THEN "any" ELSE s.params[i]]
<1>1. s.params \in [1..NParams[g] -> NumTys] /\ s.ret \in Ty3 /\ s.site \in BOOLEAN
      /\ s = [params |-> s.params, ret |-> s.ret, site |-> s.site]
  BY SigsFacts
<1>2. FinalSig(g) = IF ~s.site THEN [s EXCEPT !.params = A, !.ret = "any"] ELSE [s EXCEPT !.params = B]
  BY DEF FinalSig
<1> HIDE DEF s
<1>3. /\ A \in [1..NParams[g] -> NumTys] /\ B \in [1..NParams[g] -> NumTys]
      /\ \A j \in 1..NParams[g] : A[j] # "unset" /\ B[j] # "unset"
      /\ (\A j \in 1..NParams[g] : s.params[j] # "unset") => B = s.params
  BY <1>1 DEF NumTys
<1> HIDE DEF A, B
<1>4. CASE ~s.site
  <2>1. FinalSig(g) = [params |-> A, ret |-> "any", site |-> s.site]
    BY <1>1, <1>2, <1>4
  <2>2. "any" \in Ty3
    BY DEF Ty3
  <2> QED BY <2>1, <2>2, <1>1, <1>3, <1>4 DEF Sig, s
<1>5. CASE s.site
  <2>1. FinalSig(g) = [params |-> B, ret |-> s.ret, site |-> s.site]
    BY <1>1, <1>2, <1>5
  <2>2. FinalSig(g) \in Sig(g) /\ FinalSig(g).site = s.site /\ \A j \in 1..NParams[g] : FinalSig(g).params[j] # "unset"
    BY <2>1, <1>1, <1>3 DEF Sig
  <2>3. ASSUME \A j \in 1..NParams[g] : s.params[j] # "unset" PROVE FinalSig(g) = s
    BY <2>1, <2>3, <1>1, <1>3
  <2> QED BY <2>2, <2>3 DEF s
<1> QED BY <1>4, <1>5

(* and leaves nothing undetermined. *)
LEMMA FinalSigsFacts ==
  ASSUME SigsOk(sigs)
  PROVE  /\ SigsOk(FinalSigs) /\ Settled(FinalSigs)
         /\ \A g \in Fns : FinalSigs[g].site = sigs[g].site
<1>1. \A g \in Fns : FinalSigs[g] = FinalSig(g)
  BY DEF FinalSigs
<1>2. FinalSigs = [g \in Fns |-> FinalSigs[g]]
  BY DEF FinalSigs
<1>3. SigsOk(FinalSigs)
  BY <1>1, <1>2, FinalFacts, SigsIntro
<1>4. Settled(FinalSigs)
  BY <1>1, FinalFacts DEF Settled
<1> QED BY <1>1, <1>3, <1>4, FinalFacts

(* So what held and is emitted typed holds. *)
LEMMA FinalHolds ==
  ASSUME TextInv, SigsOk(sigs), SitesCalled, AllHold, NEW f \in All, f = Main \/ sigs[f].site
  PROVE  HoldsIn(f, FinalSigs, ibox)
<1> DEFINE new == FinalSigs
           x == Context(f, Seed(f, sigs), sigs, ibox)
           y == Context(f, Seed(f, new), new, ibox)
           b == BodyOf(f, sigs, ibox)
           d == BodyOf(f, new, ibox)
<1>1. SigsOk(new) /\ \A g \in Fns : new[g].site = sigs[g].site
  BY FinalSigsFacts
<1>2. ASSUME NEW g \in Fns, sigs[g].site PROVE new[g] = sigs[g]
  <2>1. Called(g)
    BY <1>2 DEF SitesCalled
  <2>2. \A j \in 1..NParams[g] : sigs[g].params[j] # "unset"
    BY <2>1, SitesDetermined
  <2>3. FinalSig(g) = sigs[g]
    BY <1>2, <2>2, FinalFacts
  <2> QED BY <2>3 DEF FinalSigs
<1> HIDE DEF new
<1>3. x.f = f /\ x.code = Code(f) /\ x.sigs = sigs /\ y.sigs = new
  BY ContextFields
<1>4. Holds(x)
  BY DEF AllHold, HoldsIn
<1>5. \A p, g : Hit(x, p, g) <=> Hit(b, p, g)
  <2>1. x.slotFn = b.slotFn /\ x.upFn = b.upFn /\ x.f = b.f
    <3>1. x.f = f /\ x.slotFn = slotFn[f] /\ x.upFn = IF f = Main THEN <<>> ELSE upFn[f]
      BY ContextFields
    <3>2. b.f = f /\ b.slotFn = slotFn[f] /\ b.upFn = IF f = Main THEN <<>> ELSE upFn[f]
      BY BodyOfFields
    <3> QED BY <3>1, <3>2
  <2> HIDE DEF x, b
  <2>2. \A e, n : DirectTarget(x, e, n) = DirectTarget(b, e, n)
    BY <2>1, TargetSame
  <2> QED BY <2>2 DEF Hit
<1>6. b.sigs = sigs /\ d.sigs = new /\ b.code = Code(f) /\ CtxOk(b) /\ b.f = f
  BY <1>1, BodyOfFields, BodyCtxOk
<1>s. Seed(f, new) = Seed(f, sigs)
  BY <1>2, FnIsAll DEF Seed
<1> HIDE DEF x, b, d
<1>7. SitesIn(x, y)
  <2> SUFFICES ASSUME NEW p \in BodyPoints(x.code), NEW g \in Fns, Hit(x, p, g) PROVE y.sigs[g].site
    BY DEF SitesIn
  <2>1. MetAt(x, p, g)
    BY <1>4 DEF Holds, AllMet, Met
  <2>2. sigs[g].site
    BY <2>1, <1>3 DEF MetAt
  <2> HIDE DEF y
  <2> QED BY <2>2, <1>1, <1>3
<1>8. AgreeBody(b, d)
  <2> SUFFICES ASSUME NEW k \in 1..Len(b.code), NEW v \in 1..Len(b.code[k].vals), NEW e, e = b.code[k].vals[v],
                      NEW n \in 1..Len(e), IsCall(e, n), NEW g, g = DirectTarget(b, e, n), g # NoFn
               PROVE  SameSig(b, d, g)
    BY DEF AgreeBody, AgreeOn
  <2>1. IsExpr(b.f, e)
    BY <1>6 DEF CtxOk, IsCode, IsStmt
  <2>2. g \in Fns
    BY <2>1, <1>6, TargetFacts DEF IsCall
  <2> DEFINE p == <<e, n, 0>>
  <2>3. p \in BodyPoints(x.code)
    <3>1. 0 \in Nat
      OBVIOUS
    <3>2. p \in BodyPoints(b.code)
      BY <3>1, PointIs
    <3> QED BY <3>2, <1>3, <1>6
  <2>4. Hit(b, p, g)
    BY DEF Hit
  <2> HIDE DEF p
  <2>5. MetAt(x, p, g)
    BY <2>2, <2>3, <2>4, <1>4, <1>5 DEF Holds, AllMet, Met
  <2>6. sigs[g].site
    BY <2>5, <1>3 DEF MetAt
  <2>7. new[g] = sigs[g]
    BY <2>2, <2>6, <1>2
  <2> QED BY <2>7, <1>6 DEF SameSig
<1>9. Kin(x, y) /\ AgreeBody(x, y)
  <2>1. AgreeBody(BodyOf(f, sigs, ibox), BodyOf(f, new, ibox))
    BY <1>8 DEF b, d
  <2> QED BY <2>1, <1>1, <1>s, ContextKin DEF x
<1> HIDE DEF y
<1>10. SameOwn(x, y)
  <2>1. f # Main => new[f] = sigs[f]
    BY <1>2, FnIsAll
  <2> QED BY <2>1, <1>3 DEF SameOwn, SameSig
<1>11. Holds(y)
  BY <1>4, <1>7, <1>9, <1>10, HoldsKin
<1> QED BY <1>11 DEF HoldsIn, y, new

-----------------------------------------------------------------------------
(* The invariant, from the first step on. *)

(* The bodies of this round that infer_signatures has seen. *)
Past == IF at = Main THEN Fns ELSE {f \in Fns : f < at}
(* The main chunk and every typed entry hold. *)
EntriesHold == \A f \in All : f = Main \/ sigs[f].site => HoldsIn(f, sigs, ibox)
(* The phases before inference. *)
Unbound == {"bind locals", "bind origins", "bind upvalues"}
(* The third part of the invariant. *)
SigInv ==
  /\ SigsOk(sigs) /\ SitesCalled
  /\ phase \in Unbound => \A g \in Fns : ~sigs[g].site
  /\ phase = "infer" /\ changed = FALSE => \A f \in Past : HoldsIn(f, sigs, ibox)
  /\ phase = "round" /\ changed = FALSE => AllHold
  /\ phase \in {"settle", "settled", "done"} => Settled(sigs)
  /\ phase \in {"settle", "settled"} /\ dropped = FALSE => EntriesHold
  /\ phase = "done" => EntriesHold

(* Later, under what signatures and boxes there are then. *)
LEMMA HoldsSoon ==
  ASSUME UNCHANGED <<prog, slotFn, upFn>>
  PROVE  /\ \A f : HoldsIn(f, sigs, ibox)' <=> HoldsIn(f, sigs', ibox')
         /\ \A g : Called(g)' <=> Called(g)
<1>1. \A f : Context(f, Seed(f, sigs), sigs, ibox)' = Context(f, Seed(f, sigs'), sigs', ibox')
  BY DEF Context, BodyOf, Code, Seed
<1>2. \A f : HoldsIn(f, sigs, ibox)' <=> HoldsIn(f, sigs', ibox')
  BY <1>1 DEF HoldsIn
<1>3. \A f : BodyOf(f, <<>>, {})' = BodyOf(f, <<>>, {}) /\ Code(f)' = Code(f)
  BY DEF BodyOf, Code
<1>4. \A g : Called(g)' <=> Called(g)
  BY <1>3 DEF Called
<1> QED BY <1>2, <1>4

(* infer_signatures starts from signatures, *)
LEMMA FreshOk ==
  ASSUME NEW sg, sg = FreshSigs
  PROVE  SigsOk(sg) /\ \A g \in Fns : ~sg[g].site
<1>1. \A f \in Fns : sg[f] = [params |-> [i \in 1..NParams[f] |->
                               IF Assigns(f, Local(i)) \/ i \in Captured[f] THEN "any" ELSE "unset"],
                  ret |-> "int", site |-> FALSE]
  BY DEF FreshSigs
<1>2. sg = [f \in Fns |-> sg[f]]
  BY DEF FreshSigs
<1>3. ASSUME NEW f \in Fns PROVE sg[f] \in Sig(f) /\ ~sg[f].site
  <2> DEFINE X == [i \in 1..NParams[f] |-> IF Assigns(f, Local(i)) \/ i \in Captured[f] THEN "any" ELSE "unset"]
  <2>1. sg[f] = [params |-> X, ret |-> "int", site |-> FALSE]
    BY <1>1
  <2>2. X \in [1..NParams[f] -> NumTys] /\ "int" \in Ty3
    BY DEF NumTys, Ty3
  <2> HIDE DEF X
  <2> QED BY <2>1, <2>2 DEF Sig
<1> QED BY <1>2, <1>3, SigsIntro

(* as the program does, *)
LEMMA InitSigs == ASSUME Init PROVE SigInv
<1>1. sigs = [f \in Fns |-> [params |-> [i \in 1..NParams[f] |-> "unset"], ret |-> "any", site |-> FALSE]]
      /\ phase = "bind locals"
  BY DEF Init
<1>2. ASSUME NEW f \in Fns PROVE sigs[f] \in Sig(f) /\ ~sigs[f].site
  <2> DEFINE X == [i \in 1..NParams[f] |-> "unset"]
  <2>1. sigs[f] = [params |-> X, ret |-> "any", site |-> FALSE]
    BY <1>1
  <2>2. X \in [1..NParams[f] -> NumTys] /\ "any" \in Ty3
    BY DEF NumTys, Ty3
  <2> HIDE DEF X
  <2> QED BY <2>1, <2>2 DEF Sig
<1>3. sigs = [f \in Fns |-> sigs[f]]
  BY <1>1
<1>4. SigsOk(sigs)
  BY <1>2, <1>3, SigsIntro
<1> QED BY <1>1, <1>2, <1>4 DEF SigInv, SitesCalled

(* and nobody has been seen. *)
LEMMA StartSigs ==
  ASSUME TextInv, StartInference PROVE SigInv'
<1>1. sigs' = FreshSigs /\ phase' = "infer" /\ at' = 1
  BY DEF StartInference
<1>2. SigsOk(sigs') /\ \A g \in Fns : ~sigs'[g].site
  BY <1>1, FreshOk
<1>3. SigsOk(sigs)'
  BY <1>2 DEF SigsOk, AllSigs, Sig
<1>4. Past' = {}
  BY <1>1, NatN DEF Past, Main, Fns
<1>5. SitesCalled'
  BY <1>2 DEF SitesCalled
<1> QED BY <1>1, <1>3, <1>4, <1>5 DEF SigInv, Unbound

(* A round without a change has seen that each body holds. *)
LEMMA InferSigs ==
  ASSUME TextInv, SigInv, NEW f \in All, f = at, phase = "infer", InferStep(f),
         UNCHANGED <<prog, slotFn, upFn, ibox>>
  PROVE  /\ SigsOk(sigs)' /\ SitesCalled'
         /\ changed' = FALSE => \A h \in Past \cup {f} : HoldsIn(h, sigs, ibox)'
<1>1. SigsOk(sigs) /\ SitesCalled
  BY DEF SigInv
<1>2. /\ SigsOk(sigs') /\ MoreSites(sigs, sigs')
      /\ \A g \in Fns : sigs'[g].site => sigs[g].site \/ Called(g)
      /\ changed' = FALSE => changed = FALSE /\ SameTypes(sigs, sigs') /\ HoldsIn(f, sigs', ibox)
  BY <1>1, StepFacts
<1>3. /\ \A h : HoldsIn(h, sigs, ibox)' <=> HoldsIn(h, sigs', ibox')
      /\ \A g : Called(g)' <=> Called(g)
  BY HoldsSoon
<1>4. SigsOk(sigs)'
  BY <1>2 DEF SigsOk, AllSigs, Sig
<1>5. SitesCalled'
  BY <1>1, <1>2, <1>3 DEF SitesCalled
<1>6. ASSUME changed' = FALSE, NEW h \in Past \cup {f} PROVE HoldsIn(h, sigs', ibox)
  <2>1. changed = FALSE /\ SameTypes(sigs, sigs') /\ HoldsIn(f, sigs', ibox)
    BY <1>2, <1>6
  <2>2. CASE h = f
    BY <2>1, <2>2
  <2>3. CASE h # f
    <3>1. h \in Past /\ h \in All
      BY <2>3, <1>6, FnIsAll DEF Past
    <3>2. HoldsIn(h, sigs, ibox)
      BY <3>1, <2>1 DEF SigInv
    <3> QED BY <3>1, <3>2, <2>1, <1>1, <1>2, HoldsSame
  <2> QED BY <2>2, <2>3
<1>7. ibox' = ibox
  OBVIOUS
<1>8. ASSUME changed' = FALSE PROVE \A h \in Past \cup {f} : HoldsIn(h, sigs, ibox)'
  BY <1>8, <1>6, <1>7, <1>3
<1> QED BY <1>4, <1>5, <1>8

(* One body of a round keeps the third part, *)
LEMMA InferBodySigs == ASSUME TextInv, SigInv, InferBody PROVE SigInv'
<1>1. /\ phase = "infer" /\ phase' = "infer" /\ at # Main /\ InferStep(at) /\ at' = (IF at = N THEN Main ELSE at + 1)
      /\ UNCHANGED <<prog, slotFn, upFn, ibox>>
  BY DEF InferBody
<1>2. at \in All
  BY DEF TextInv, ControlOk
<1>3. /\ SigsOk(sigs)' /\ SitesCalled'
      /\ changed' = FALSE => \A h \in Past \cup {at} : HoldsIn(h, sigs, ibox)'
  BY <1>1, <1>2, InferSigs
<1>4. Past' \subseteq Past \cup {at}
  BY <1>1, <1>2, NatN DEF Past, Main, Fns, All
<1>5. changed' = FALSE => \A h \in Past' : HoldsIn(h, sigs, ibox)'
  BY <1>3, <1>4
<1> QED BY <1>1, <1>3, <1>5 DEF SigInv, Unbound

(* the main chunk at its end, *)
LEMMA InferMainSigs == ASSUME TextInv, SigInv, InferMain PROVE SigInv'
<1>1. /\ phase = "infer" /\ phase' = "round" /\ at = Main /\ InferStep(at)
      /\ UNCHANGED <<prog, slotFn, upFn, ibox>>
  BY DEF InferMain
<1>2. at \in All
  BY DEF TextInv, ControlOk
<1>3. /\ SigsOk(sigs)' /\ SitesCalled'
      /\ changed' = FALSE => \A h \in Past \cup {at} : HoldsIn(h, sigs, ibox)'
  BY <1>1, <1>2, InferSigs
<1>4. All \subseteq Past \cup {at}
  BY <1>1, FnIsAll DEF Past
<1>5. changed' = FALSE => AllHold'
  BY <1>3, <1>4 DEF AllHold
<1> QED BY <1>1, <1>3, <1>5 DEF SigInv, Unbound

(* and Finalize. *)
LEMMA FinalizeSigs == ASSUME TextInv, SigInv, Finalize PROVE SigInv'
<1>1. /\ phase = "round" /\ ~changed /\ sigs' = FinalSigs /\ phase' \in {"done", "settle"}
      /\ UNCHANGED <<prog, slotFn, upFn, ibox>>
  BY DEF Finalize, RoundOver, FinalSigs
<1>2. changed = FALSE
  BY <1>1 DEF TextInv, ControlOk
<1>3. SigsOk(sigs) /\ SitesCalled /\ AllHold
  BY <1>1, <1>2 DEF SigInv
<1>4. SigsOk(sigs') /\ Settled(sigs') /\ \A g \in Fns : sigs'[g].site = sigs[g].site
  BY <1>1, <1>3, FinalSigsFacts
<1>5. \A f \in All : f = Main \/ sigs[f].site => HoldsIn(f, sigs', ibox)
  BY <1>1, <1>3, FinalHolds
<1>6. /\ \A h : HoldsIn(h, sigs, ibox)' <=> HoldsIn(h, sigs', ibox')
      /\ \A g : Called(g)' <=> Called(g)
  BY <1>1, HoldsSoon
<1>7. EntriesHold'
  BY <1>1, <1>4, <1>5, <1>6, FnIsAll DEF EntriesHold
<1>8. SigsOk(sigs)' /\ Settled(sigs)'
  BY <1>4 DEF SigsOk, AllSigs, Sig, Settled
<1>9. SitesCalled'
  BY <1>3, <1>4, <1>6 DEF SitesCalled
<1> QED BY <1>1, <1>7, <1>8, <1>9 DEF SigInv, Unbound

(* Steps that leave the signatures alone. *)
LEMMA QuietSigs ==
  ASSUME SigInv, UNCHANGED <<prog, slotFn, upFn, sigs>>
  PROVE  /\ SigsOk(sigs)' /\ SitesCalled' /\ (Settled(sigs) => Settled(sigs)')
         /\ ibox' = ibox => /\ \A f : HoldsIn(f, sigs, ibox) => HoldsIn(f, sigs, ibox)'
                            /\ EntriesHold => EntriesHold'
                            /\ AllHold => AllHold'
<1>1. SigsOk(sigs) /\ SitesCalled
  BY DEF SigInv
<1>2. /\ \A h : HoldsIn(h, sigs, ibox)' <=> HoldsIn(h, sigs', ibox')
      /\ \A g : Called(g)' <=> Called(g)
  BY HoldsSoon
<1>3. SigsOk(sigs)' /\ (Settled(sigs) => Settled(sigs)')
  BY <1>1 DEF SigsOk, AllSigs, Sig, Settled
<1>4. SitesCalled'
  BY <1>1, <1>2 DEF SitesCalled
<1>5. ASSUME ibox' = ibox PROVE \A f : HoldsIn(f, sigs, ibox) => HoldsIn(f, sigs, ibox)'
  BY <1>5, <1>2
<1>6. ASSUME ibox' = ibox, EntriesHold PROVE EntriesHold'
  BY <1>5, <1>6 DEF EntriesHold
<1>7. ASSUME ibox' = ibox, AllHold PROVE AllHold'
  BY <1>5, <1>7 DEF AllHold
<1> QED BY <1>3, <1>4, <1>5, <1>6, <1>7

(* Every step keeps the third part, *)
LEMMA NextSigs == ASSUME TextInv, SigInv, [Next]_vars PROVE SigInv'
<1>c. changed \in BOOLEAN /\ dropped \in BOOLEAN
  BY DEF TextInv, ControlOk
<1>1. CASE InferBody BY <1>1, InferBodySigs
<1>2. CASE InferMain BY <1>2, InferMainSigs
<1>3. CASE Finalize BY <1>3, FinalizeSigs
<1>4. CASE Pass3 \/ Reinfer BY <1>4, StartSigs DEF Pass3, Reinfer
<1>5. CASE Pass1 \/ Pass2
  <2>1. sigs' = sigs /\ phase \in Unbound /\ phase' \in {"bind origins", "bind upvalues"}
    BY <1>5 DEF Pass1, Pass2, Unbound
  <2>2. SigsOk(sigs) /\ \A g \in Fns : ~sigs[g].site
    BY <2>1 DEF SigInv
  <2>3. SigsOk(sigs)' /\ SitesCalled' /\ \A g \in Fns : ~sigs'[g].site
    BY <2>1, <2>2 DEF SigsOk, AllSigs, Sig, SitesCalled
  <2> QED BY <2>1, <2>3 DEF SigInv
<1>6. CASE Repeat
  <2>1. UNCHANGED <<prog, slotFn, upFn, sigs>> /\ phase' = "infer" /\ at' = 1
    BY <1>6 DEF Repeat
  <2>2. Past' = {}
    BY <2>1, NatN DEF Past, Main, Fns
  <2>3. SigsOk(sigs)' /\ SitesCalled'
    BY <2>1, QuietSigs
  <2> QED BY <2>1, <2>2, <2>3 DEF SigInv, Unbound
<1>7. CASE SettleBody
  <2>1. /\ UNCHANGED <<prog, slotFn, upFn, sigs>> /\ phase = "settle" /\ phase' \in {"settle", "settled"}
        /\ dropped' = (dropped \/ ibox' # ibox)
    BY <1>7 DEF SettleBody
  <2>2. dropped' = FALSE => dropped = FALSE /\ ibox' = ibox
    BY <2>1, <1>c
  <2>3. SigsOk(sigs)' /\ SitesCalled' /\ Settled(sigs)'
    BY <2>1, QuietSigs DEF SigInv
  <2>4. ASSUME dropped' = FALSE PROVE EntriesHold'
    BY <2>1, <2>2, <2>4, QuietSigs DEF SigInv
  <2> QED BY <2>1, <2>3, <2>4 DEF SigInv, Unbound
<1>8. CASE Resettle
  <2>1. /\ UNCHANGED <<prog, slotFn, upFn, sigs, ibox, dropped>> /\ phase = "settled" /\ phase' = "settle"
    BY <1>8 DEF Resettle
  <2>2. SigsOk(sigs)' /\ SitesCalled' /\ Settled(sigs)'
    BY <2>1, QuietSigs DEF SigInv
  <2>3. ASSUME dropped' = FALSE PROVE EntriesHold'
    BY <2>1, <2>3, QuietSigs DEF SigInv
  <2> QED BY <2>1, <2>2, <2>3 DEF SigInv, Unbound
<1>9. CASE Emit
  <2>1. /\ UNCHANGED <<prog, slotFn, upFn, sigs, ibox, dropped>> /\ phase = "settled" /\ phase' = "done" /\ ~dropped
    BY <1>9 DEF Emit, MustReinfer
  <2>2. SigsOk(sigs)' /\ SitesCalled' /\ Settled(sigs)'
    BY <2>1, QuietSigs DEF SigInv
  <2>3. EntriesHold'
    BY <2>1, <1>c, QuietSigs DEF SigInv
  <2> QED BY <2>1, <2>2, <2>3 DEF SigInv, Unbound
<1>10. CASE UNCHANGED vars
  <2>1. UNCHANGED <<prog, slotFn, upFn, sigs, ibox, dropped, changed, phase, at>>
    BY <1>10 DEF vars
  <2>2. /\ SigsOk(sigs)' /\ SitesCalled' /\ (Settled(sigs) => Settled(sigs)')
        /\ \A f : HoldsIn(f, sigs, ibox) => HoldsIn(f, sigs, ibox)'
        /\ EntriesHold => EntriesHold'
        /\ AllHold => AllHold'
    BY <2>1, QuietSigs
  <2>3. Past' = Past
    BY <2>1 DEF Past
  <2> QED BY <2>1, <2>2, <2>3 DEF SigInv
<1> QED BY <1>1, <1>2, <1>3, <1>4, <1>5, <1>6, <1>7, <1>8, <1>9, <1>10 DEF Next, Done

(* which, with the others, gives the property. *)
LEMMA SigsHold == ASSUME TextInv, BoxInv, SigInv PROVE SignaturesHold
<1>1. TypeOK
  <2>1. ASSUME NEW f \in Fns
        PROVE  sigs[f].params \in [1..NParams[f] -> NumTys] /\ sigs[f].ret \in NumTys \ {"unset"}
    <3>1. sigs[f].params \in [1..NParams[f] -> NumTys] /\ sigs[f].ret \in Ty3
      BY SigsFacts DEF SigInv
    <3> QED BY <3>1 DEF Ty3, NumTys
  <2>2. phase \in {"settle", "settled", "done"} =>
          \A f \in Fns : "unset" \notin {sigs[f].params[i] : i \in 1..NParams[f]}
    BY DEF SigInv, Settled
  <2>3. ibox \subseteq Candidates
    BY DEF BoxInv, BoxOk
  <2>4. /\ \A f \in All : prog[f] \in 1..Len(Bodies[f])
        /\ \A f \in All : slotFn[f] \in [1..NLocals[f] -> Fns \cup {NoFn}]
        /\ phase \in Phases /\ at \in All /\ changed \in BOOLEAN /\ dropped \in BOOLEAN
    BY DEF TextInv, ProgOk, FnsOk, ControlOk
  <2> HIDE DEF Candidates, NumTys
  <2> QED BY <2>1, <2>2, <2>3, <2>4 DEF TypeOK, Phases
<1>2. EntriesReturnTheirType
  <2> SUFFICES ASSUME phase = "done", NEW f \in Fns, sigs[f].site, sigs[f].ret # "any",
                      NEW s \in Body(f), s.op = "return"
               PROVE  /\ Len(s.vals) = 1
                      /\ HasTy(Context(f, sigs[f].params, sigs, ibox), s.vals[1], sigs[f].ret)
    BY DEF EntriesReturnTheirType
  <2> DEFINE c == Context(f, sigs[f].params, sigs, ibox)
  <2>1. f \in All /\ f # Main
    BY FnIsAll, MainNoFn
  <2>2. Holds(c)
    BY <2>1 DEF SigInv, EntriesHold, HoldsIn, Seed
  <2>3. c.f = f /\ c.code = Code(f) /\ c.sigs = sigs
    BY ContextFields
  <2> HIDE DEF c
  <2>4. PICK k \in 1..Len(Code(f)) : s = Code(f)[k]
    BY <2>1, CodeFacts DEF TextInv
  <2>5. IsReturn(c, k, sigs[f].ret)
    BY <2>1, <2>2, <2>3 DEF Holds, Returns
  <2>6. Len(s.vals) = 1 /\ HasTy(c, s.vals[1], sigs[f].ret)
    BY <2>3, <2>4, <2>5 DEF IsReturn, HasTy
  <2> QED BY <2>6 DEF c
<1>3. SitesReachTypedEntries
  <2> SUFFICES ASSUME phase = "done", NEW f \in All, f = Main \/ sigs[f].site,
                      NEW c, c = Context(f, IF f = Main THEN NoSeed ELSE sigs[f].params, sigs, ibox),
                      NEW s \in Body(f), NEW e \in ToSet(s.vals), NEW n \in 1..Len(e), e[n].t = "call",
                      NEW g, g = DirectTarget(c, e, n), g # NoFn
               PROVE  /\ sigs[g].site
                      /\ ArgsTyped(sigs[g].params, [j \in 1..Len(e[n].args) |-> NodeTys(c, e)[e[n].args[j]]])
    BY DEF SitesReachTypedEntries
  <2>1. Holds(c)
    BY DEF SigInv, EntriesHold, HoldsIn, Seed
  <2>2. c.f = f /\ c.code = Code(f) /\ c.sigs = sigs
    BY ContextFields
  <2>3. CtxOk(c)
    BY ContextOk DEF SigInv
  <2>4. PICK k \in 1..Len(Code(f)) : s = Code(f)[k]
    BY CodeFacts DEF TextInv
  <2>5. IsStmt(f, s)
    BY CodeFacts DEF TextInv
  <2>6. PICK v \in 1..Len(s.vals) : e = s.vals[v]
    BY <2>5 DEF IsStmt, ToSet
  <2>7. IsExpr(c.f, e)
    BY <2>2, <2>5, <2>6 DEF IsStmt
  <2>8. g \in Fns /\ Len(e[n].args) = NParams[g] /\ Len(e[n].args) \in Nat
    BY <2>3, <2>7, TargetFacts
  <2>9. CallOf(c, e, n, g)
    BY <2>7, <2>8 DEF CallOf, IsCall
  <2>10. ASSUME NEW j \in Nat
         PROVE  /\ sigs[g].site
                /\ j \in 1..NParams[g] => NumMeet(sigs[g].params[j], NodeTys(c, e)[e[n].args[j]]) = sigs[g].params[j]
    <3> DEFINE p == <<e, n, j>>
    <3>1. p \in BodyPoints(c.code)
      BY <2>2, <2>4, <2>6, PointIs
    <3>2. p[1] = e /\ p[2] = n /\ p[3] = j
      OBVIOUS
    <3> HIDE DEF p
    <3>3. MetAt(c, p, g)
      BY <3>1, <3>2, <2>1, <2>8 DEF Holds, AllMet, Met, Hit, IsCall
    <3> QED BY <3>2, <3>3, <2>2 DEF MetAt
  <2>11. ASSUME NEW j \in 1..NParams[g]
         PROVE  /\ sigs[g].params[j] = "int" => NodeTys(c, e)[e[n].args[j]] = "int"
                /\ sigs[g].params[j] = "float" => NodeTys(c, e)[e[n].args[j]] \in {"int", "float"}
    <3> DEFINE t == NodeTys(c, e)[e[n].args[j]]
    <3>1. t \in Ty3
      BY <2>3, <2>9, ArgTyIn
    <3>2. j \in Nat
      BY <2>8
    <3>3. NumMeet(sigs[g].params[j], t) = sigs[g].params[j]
      BY <3>2, <2>10
    <3> HIDE DEF t
    <3>4. /\ sigs[g].params[j] = "int" => t = "int"
          /\ sigs[g].params[j] = "float" => t \in {"int", "float"}
      BY <3>1, <3>3 DEF NumMeet, Ty3
    <3> QED BY <3>4 DEF t
  <2>12. sigs[g].site
    BY <2>10
  <2> DEFINE ts == [j \in 1..Len(e[n].args) |-> NodeTys(c, e)[e[n].args[j]]]
  <2>13. Len(ts) = NParams[g] /\ \A j \in 1..NParams[g] : ts[j] = NodeTys(c, e)[e[n].args[j]]
    BY <2>8
  <2> HIDE DEF ts
  <2>14. ArgsTyped(sigs[g].params, ts)
    BY <2>11, <2>13 DEF ArgsTyped
  <2> QED BY <2>12, <2>14 DEF ts
<1> QED BY <1>1, <1>2, <1>3 DEF SignaturesHold

(* A variable the emitted code calls through without a check is assigned to  *)
(* nowhere, neither in its own function nor through an upvalue at any depth   *)
(* of nesting: compute_func_bindings finds every such assignment.            *)
THEOREM BindingsAreStable == Spec => []BindingsStable
<1>1. Init => TextInv
  BY InitText
<1>2. TextInv /\ [Next]_vars => TextInv'
  BY NextText
<1>3. TextInv => BindingsStable
  BY BindingsOk
<1> QED BY <1>1, <1>2, <1>3, PTL DEF Spec

(* The whole invariant. *)
TypingInv == TextInv /\ BoxInv /\ SigInv

(* It holds always. *)
LEMMA SpecTyping == Spec => []TypingInv
<1>1. Init => TypingInv
  BY InitText, InitBoxes, InitSigs DEF TypingInv
<1>2. TypingInv /\ [Next]_vars => TypingInv'
  BY NextText, NextBoxes, NextSigs DEF TypingInv
<1> QED BY <1>1, <1>2, PTL DEF Spec

(* Whatever the program, when code is emitted every store into an int box is  *)
(* an integer, in the boxed and in the typed form of the body that makes it: *)
(* ibox_settle ends with a round that checked all of them under the boxes     *)
(* and the signatures there are, whether or not inference ran again.         *)
THEOREM BoxesTakeInts == Spec => []BoxStoresAreInts
<1>1. TypingInv => BoxStoresAreInts
  BY BoxesOk DEF TypingInv
<1> QED BY <1>1, SpecTyping, PTL

(* Whatever the program, when code is emitted each direct call of the main    *)
(* chunk and of a typed entry passes what the parameters of its callee are    *)
(* typed, each return of a typed entry is of its result type, and no          *)
(* parameter is left undetermined: the fixpoint of infer_signatures, what     *)
(* Finalize makes of it, and the int boxes agree.                             *)
THEOREM SignaturesAreHeld == Spec => []SignaturesHold
<1>1. TypingInv => SignaturesHold
  BY SigsHold DEF TypingInv
<1> QED BY <1>1, SpecTyping, PTL
=============================================================================
