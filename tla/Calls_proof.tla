----------------------------- MODULE Calls_proof -----------------------------
(***************************************************************************)
(* Theorems about Calls, for every budget, headroom, nesting limit, set of  *)
(* weights, handlers and error values.                                      *)
(*                                                                         *)
(* The argument.  What an activation has saved is a function of the         *)
(* activations below it: its depth is the number of frames up to it, the    *)
(* handler a protected call puts back is that of the next protected call    *)
(* down, and so on.  Fits(st, a) says all of it of an activation a that     *)
(* stands on st, so a stack is sound when each of its activations fits the  *)
(* ones below, and an operation, which only works at the top, keeps it      *)
(* sound whatever it leaves there fits.                                     *)
(***************************************************************************)
EXTENDS Calls, FiniteSetTheorems, SequenceTheorems,
        NaturalsInduction, WellFoundedInduction, TLAPS

Act == FnRec \cup PcallRec \cup HandlerRec \cup ClosingRec
IsFrame(a) == a.kind = "pcall" \/ (a.kind = "fn" /\ a.framed)

(* What a stack amounts to: its frames, the handler calls in progress, and  *)
(* the message handler installed.                                           *)
Frames(st) == Cardinality({i \in 1..Len(st) : IsFrame(st[i])})
HandlerCalls(st) == Cardinality({i \in 1..Len(st) : st[i].kind = "handler"})
Installed(st) ==
  LET S == {i \in 1..Len(st) : st[i].kind = "pcall"}
  IN  IF S = {} THEN NoHandler ELSE st[MaxOf(S)].h

(* The activations that hold an error, and v is the one held last in the    *)
(* innermost protected call, if one is.                                     *)
Holds(a) == a.kind = "handler" \/ (a.kind = "closing" /\ a.pending # NoErr)
Held(a) == IF a.kind = "handler" THEN a.arg.v ELSE a.pending.v
Latest(st, v) ==
  \A s \in 1..Len(st) :
     /\ Holds(st[s])
     /\ \A j \in (s + 1)..Len(st) : ~Holds(st[j]) /\ st[j].kind # "pcall"
     => Held(st[s]) = v

(* An error has been through the handler m, unless there is none. *)
HandledBy(e, m) == e.handled = IF m = NoHandler \/ e.v = ErrorInHandling THEN 0 ELSE 1

(* The <close> variables of a function: those declared are open or closed,  *)
(* and none is both or either of them twice.                                *)
VarsApart(a) ==
  /\ \A j \in 1..Len(a.open) : a.open[j] <= a.decl
  /\ \A j \in 1..Len(a.closed) : a.closed[j] <= a.decl
  /\ \A j, k \in 1..Len(a.open) : a.open[j] = a.open[k] /\ a.open[j] # 0 => j = k
  /\ \A j, k \in 1..Len(a.closed) : a.closed[j] = a.closed[k] => j = k
  /\ \A j \in 1..Len(a.open), k \in 1..Len(a.closed) : a.open[j] # a.closed[k]
  /\ \A n \in 1..a.decl : \/ \E j \in 1..Len(a.open) : a.open[j] = n
                          \/ \E j \in 1..Len(a.closed) : a.closed[j] = n
  /\ ~a.closes => a.open = <<>> /\ a.decl = 0

(* There is room for the outermost handler, and the closes of an unwind. *)
Roomy(c) == \A w \in Weights : c + w <= Budget

FitsFn(st, a) == /\ a.depth = Frames(Append(st, a)) /\ a.cost <= Budget
                 /\ VarsApart(a)
FitsPcall(st, a) ==
  /\ st # <<>> /\ st[Len(st)].kind = "fn"
  /\ a.depth = Frames(st) + 1 /\ a.cost <= Budget
  /\ a.msgh = Installed(st) /\ a.nest = HandlerCalls(st)
  /\ Latest(st, a.newest)
FitsHandler(st, a) ==
  /\ Installed(st) # NoHandler
  /\ a.arg.handled = 0 /\ a.arg.v # ErrorInHandling
FitsClosing(st, a) ==
  /\ st # <<>> /\ st[Len(st)].kind = "fn" /\ st[Len(st)].closes
  /\ a.depth = Frames(st) /\ a.cost <= Budget
  /\ a.unwinding => a.target = 0 /\ a.pending # NoErr /\ Roomy(a.cost)
  /\ a.pending # NoErr => HandledBy(a.pending, Installed(st))

(* a can stand on st. *)
Fits(st, a) == /\ a.kind = "fn" => FitsFn(st, a)
               /\ a.kind = "pcall" => FitsPcall(st, a)
               /\ a.kind = "handler" => FitsHandler(st, a)
               /\ a.kind = "closing" => FitsClosing(st, a)

Sound(st) == /\ st \in Seq(Act)
             /\ \A i \in 1..Len(st) : Fits(SubSeq(st, 1, i - 1), st[i])

(* The globals go with the stack: while code runs they say what it amounts  *)
(* to, and while an error unwinds the stack it carries the newest value.    *)
Matches(st, d, c, m, n, e, v) ==
  /\ m = Installed(st) /\ n = HandlerCalls(st) /\ n <= MaxNest
  /\ Frames(st) <= MaxStack /\ d \in 0..MaxStack /\ c \in Int
  /\ e \in ErrRec /\ v \in ErrVals
  /\ e # NoErr => e.v = v /\ HandledBy(e, m)
  /\ e = NoErr => Latest(st, v)
  /\ e = NoErr /\ st # <<>> /\ st[Len(st)].kind # "closing" => d = Frames(st)
  /\ e = NoErr /\ st # <<>> /\ st[Len(st)].kind \in {"fn", "pcall"} => c <= Budget
  /\ e = NoErr /\ st # <<>> /\ st[Len(st)].kind = "handler" /\ st[Len(st)].outer => Roomy(c)

IInv == /\ Sound(stack) /\ weights \in [1..MaxStack -> Nat]
        /\ Matches(stack, depth, cost, msgh, nest, err, newest)

(* Costs, for programs whose calls all have frames: the weights of the      *)
(* frames, the headroom on loan, and a cost that covers them.               *)
WeightOf(st) ==
  LET sum[i \in 0..Len(st)] ==
        IF i = 0 THEN 0 ELSE sum[i - 1] + (IF IsFrame(st[i]) THEN st[i].w ELSE 0)
  IN  sum[Len(st)]
Lends(a) == (a.kind = "handler" /\ a.outer) \/ (a.kind = "closing" /\ a.unwinding)
LoanOf(st) == Headroom * Cardinality({i \in 1..Len(st) : Lends(st[i])})
Covers(st, c) == /\ WeightOf(st) <= c + LoanOf(st)
                 /\ HandlerCalls(st) = 0 => WeightOf(st) = c + LoanOf(st)

(* The cost that an activation has saved covers the stack up to it. *)
PaidFor(st, a) ==
  /\ a.kind \in {"fn", "pcall", "closing"} => Covers(Append(st, a), a.cost)
  /\ a.kind = "fn" /\ ~a.framed => st = <<>>
Paid(st) == \A i \in 1..Len(st) : PaidFor(SubSeq(st, 1, i - 1), st[i])

(* Frames have their weights in the array ws, except that a function under  *)
(* a handler or an unwinding close, which will not return, need not: it may *)
(* have raised in the middle of a tail call.  So may the function at the    *)
(* top if it is failing.                                                    *)
Spent(a) == a.kind = "handler" \/ (a.kind = "closing" /\ a.unwinding)
Enters(st, failing, ws) ==
  \A i \in 1..Len(st) :
     /\ IsFrame(st[i])
     /\ ~(st[i].kind = "fn" /\ IF i = Len(st) THEN failing ELSE Spent(st[i + 1]))
     => ws[st[i].depth] = st[i].w
Entered(st, ws) == Enters(st, FALSE, ws)
EnteredBelow(st, ws) == Enters(st, TRUE, ws)

Solvent(st, c, e, ws) ==
  /\ Paid(st)
  /\ e = NoErr => Entered(st, ws)
  /\ e # NoErr => EnteredBelow(st, ws)
  /\ e = NoErr /\ st # <<>> /\ st[Len(st)].kind # "closing" => Covers(st, c)

CostInv == Solvent(stack, cost, err, weights)
-----------------------------------------------------------------------------
(* Kinds tell the activations apart. *)
LEMMA Kinds ==
  ASSUME NEW a \in Act
  PROVE  /\ a.kind \in {"fn", "pcall", "handler", "closing"}
         /\ a.kind = "fn" => a \in FnRec
         /\ a.kind = "pcall" => a \in PcallRec
         /\ a.kind = "handler" => a \in HandlerRec
         /\ a.kind = "closing" => a \in ClosingRec
  BY DEF Act, FnRec, PcallRec, HandlerRec, ClosingRec

(* Append, element by element, and what is left when the top is dropped. *)
LEMMA Pushed ==
  ASSUME NEW S, NEW st \in Seq(S), NEW a \in S
  PROVE  /\ Append(st, a) \in Seq(S) /\ Append(st, a) # <<>>
         /\ Len(Append(st, a)) = Len(st) + 1
         /\ Append(st, a)[Len(st) + 1] = a
         /\ \A i \in 1..Len(st) : Append(st, a)[i] = st[i]
         /\ SubSeq(Append(st, a), 1, Len(st)) = st
<1>1. SubSeq(Append(st, a), 1, Len(st)) = st
  BY AppendIsConcat, SubSeqOfConcat1, SubSeqFull
<1> QED BY <1>1, AppendProperties

(* A stack that is not empty has a top, standing on the rest. *)
LEMMA Popping ==
  ASSUME NEW S, NEW st \in Seq(S), st # <<>>
  PROVE  \E rest \in Seq(S), a \in S :
            /\ st = Append(rest, a) /\ Len(st) = Len(rest) + 1
            /\ st[Len(st)] = a /\ SubSeq(st, 1, Len(st) - 1) = rest
<1>1. PICK rest \in Seq(S), a \in S : st = Append(rest, a)
  BY SequenceEmptyOrAppend
<1> QED BY <1>1, Pushed

(* Counting the positions that something holds at. *)
LEMMA Counted ==
  ASSUME NEW n \in Nat, NEW A \in SUBSET (1..n), NEW B, \A i \in 1..n : i \in B <=> i \in A,
         B \subseteq 1..(n + 1)
  PROVE  /\ Cardinality(A) \in 0..n
         /\ Cardinality(B) = Cardinality(A) + (IF n + 1 \in B THEN 1 ELSE 0)
<1>1. IsFiniteSet(1..n) /\ Cardinality(1..n) = n
  BY FS_Interval
<1>2. IsFiniteSet(A) /\ Cardinality(A) \in 0..n
  <2>1. IsFiniteSet(A) /\ Cardinality(A) <= n
    BY <1>1, FS_Subset
  <2>2. Cardinality(A) \in Nat
    BY <2>1, FS_CardinalityType
  <2> QED BY <2>1, <2>2
<1>0. \A i \in 1..(n + 1) : i = n + 1 \/ i \in 1..n
  OBVIOUS
<1>3. CASE n + 1 \in B
  <2>0. \A i : i \in B <=> i \in A \/ i = n + 1
    BY <1>0, <1>3
  <2>1. B = A \cup {n + 1} /\ n + 1 \notin A
    BY <2>0
  <2> QED BY <2>1, <1>2, <1>3, FS_AddElement
<1>4. CASE n + 1 \notin B
  <2>0. \A i : i \in B <=> i \in A
    BY <1>0, <1>4
  <2>1. B = A
    BY <2>0
  <2> QED BY <2>1, <1>2, <1>4
<1> QED BY <1>3, <1>4
-----------------------------------------------------------------------------
(* What a push does to what a stack amounts to.  First, a set of naturals   *)
(* has a least element.                                                     *)
LEMMA LeastNat ==
  ASSUME NEW T, T \subseteq Nat, T # {}
  PROVE  \E x \in T : \A y \in T : x <= y
<1> DEFINE R == OpToRel(<, Nat)
<1>1. IsWellFoundedOn(R, Nat)
  BY NatLessThanWellFounded, Zenon
<1>2. \A a, b \in Nat : a < b => <<a, b>> \in R
  BY Zenon DEF OpToRel
<1> HIDE DEF R
<1>3. \E x \in T : \A y \in T : ~(<<y, x>> \in R)
  BY <1>1, WFMin, Zenon
<1>4. PICK x \in T : \A y \in T : ~(<<y, x>> \in R)
  BY <1>3
<1>5. \A y \in T : ~(y < x)
  BY <1>2, <1>4
<1> QED BY <1>5

(* A set of positions has a last one. *)
LEMMA LastOne ==
  ASSUME NEW n \in Nat, NEW A \in SUBSET (1..n), A # {}
  PROVE  MaxOf(A) \in A /\ \A j \in A : j <= MaxOf(A)
<1> DEFINE T == {m \in Nat : \A j \in A : j <= m}
<1>1. PICK m \in T : \A y \in T : m <= y
  <2>1. n \in T /\ T \subseteq Nat
    OBVIOUS
  <2> HIDE DEF T
  <2> QED BY <2>1, LeastNat
<1>2. m \in A
  <2> SUFFICES ASSUME m \notin A PROVE FALSE
    OBVIOUS
  <2>0. \A j \in A : j \in Int /\ 1 <= j /\ j <= m /\ j # m
    BY <1>1
  <2>1. m \in Nat /\ m > 0
    <3>1. PICK j \in A : TRUE
      OBVIOUS
    <3> QED BY <3>1, <2>0
  <2>3. \A j \in A : j <= m - 1
    BY <2>0, <2>1
  <2>2. m - 1 \in T
    BY <2>1, <2>3
  <2> QED BY <1>1, <2>2
<1> QED BY <1>1, <1>2 DEF MaxOf

(* The frames are those below and the one pushed. *)
LEMMA FramesPushed ==
  ASSUME NEW st \in Seq(Act), NEW a \in Act
  PROVE  /\ Frames(st) \in 0..Len(st)
         /\ Frames(Append(st, a)) = Frames(st) + (IF IsFrame(a) THEN 1 ELSE 0)
<1> DEFINE A == {i \in 1..Len(st) : IsFrame(st[i])}
           B == {i \in 1..Len(Append(st, a)) : IsFrame(Append(st, a)[i])}
<1>1. Len(st) \in Nat /\ A \subseteq 1..Len(st)
  OBVIOUS
<1>2. /\ \A i \in 1..Len(st) : i \in B <=> i \in A
      /\ B \subseteq 1..(Len(st) + 1)
      /\ Len(st) + 1 \in B <=> IsFrame(a)
  BY Pushed
<1>3. /\ Cardinality(A) \in 0..Len(st)
      /\ Cardinality(B) = Cardinality(A) + (IF Len(st) + 1 \in B THEN 1 ELSE 0)
  <2> HIDE DEF A, B
  <2> QED BY <1>1, <1>2, Counted
<1> QED BY <1>2, <1>3 DEF Frames

(* The handler calls in progress, likewise. *)
LEMMA HandlerCallsPushed ==
  ASSUME NEW st \in Seq(Act), NEW a \in Act
  PROVE  /\ HandlerCalls(st) \in 0..Len(st)
         /\ HandlerCalls(Append(st, a)) = HandlerCalls(st) + (IF a.kind = "handler" THEN 1 ELSE 0)
<1> DEFINE A == {i \in 1..Len(st) : st[i].kind = "handler"}
           B == {i \in 1..Len(Append(st, a)) : Append(st, a)[i].kind = "handler"}
<1>1. Len(st) \in Nat /\ A \subseteq 1..Len(st)
  OBVIOUS
<1>2. /\ \A i \in 1..Len(st) : i \in B <=> i \in A
      /\ B \subseteq 1..(Len(st) + 1)
      /\ Len(st) + 1 \in B <=> a.kind = "handler"
  BY Pushed
<1>3. /\ Cardinality(A) \in 0..Len(st)
      /\ Cardinality(B) = Cardinality(A) + (IF Len(st) + 1 \in B THEN 1 ELSE 0)
  <2> HIDE DEF A, B
  <2> QED BY <1>1, <1>2, Counted
<1> QED BY <1>2, <1>3 DEF HandlerCalls

(* A protected call installs its handler. *)
LEMMA InstalledPushed ==
  ASSUME NEW st \in Seq(Act), NEW a \in Act
  PROVE  Installed(Append(st, a)) = IF a.kind = "pcall" THEN a.h ELSE Installed(st)
<1> DEFINE A == {i \in 1..Len(st) : st[i].kind = "pcall"}
           B == {i \in 1..Len(Append(st, a)) : Append(st, a)[i].kind = "pcall"}
<1>1. CASE a.kind = "pcall"
  <2>1. Len(st) + 1 \in B /\ \A j \in B : j \in Nat /\ j <= Len(st) + 1
    BY <1>1, Pushed
  <2>2. MaxOf(B) = Len(st) + 1
    <3> HIDE DEF B
    <3>1. MaxOf(B) \in B /\ \A j \in B : j <= MaxOf(B)
      BY <2>1 DEF MaxOf
    <3> QED BY <3>1, <2>1
  <2>3. Append(st, a)[Len(st) + 1] = a
    BY Pushed
  <2> QED BY <2>1, <2>2, <2>3, <1>1 DEF Installed
<1>2. CASE a.kind # "pcall"
  <2>1. A = B
    BY <1>2, Pushed
  <2>2. CASE A = {}
    BY <2>1, <2>2, <1>2 DEF Installed
  <2>3. CASE A # {}
    <3>0. Len(st) \in Nat /\ A \subseteq 1..Len(st)
      OBVIOUS
    <3>1. MaxOf(A) \in A
      <4> HIDE DEF A, B
      <4> QED BY <2>3, <3>0, LastOne
    <3>2. Append(st, a)[MaxOf(A)] = st[MaxOf(A)]
      BY <3>0, <3>1, Pushed
    <3>3. Installed(st) = st[MaxOf(A)].h
      BY <2>3 DEF Installed
    <3>4. Installed(Append(st, a)) = Append(st, a)[MaxOf(B)].h
      BY <2>1, <2>3 DEF Installed
    <3> QED BY <1>2, <2>1, <3>2, <3>3, <3>4
  <2> QED BY <2>2, <2>3
<1> QED BY <1>1, <1>2

(* What is installed is a handler, or none. *)
LEMMA InstalledType ==
  ASSUME NEW st \in Seq(Act)
  PROVE  Installed(st) \in Handlers \cup {NoHandler}
<1> DEFINE A == {i \in 1..Len(st) : st[i].kind = "pcall"}
<1>1. CASE A # {}
  <2>1. MaxOf(A) \in A
    <3>1. Len(st) \in Nat /\ A \subseteq 1..Len(st)
      OBVIOUS
    <3> HIDE DEF A
    <3> QED BY <3>1, <1>1, LastOne
  <2>2. st[MaxOf(A)] \in PcallRec
    BY <2>1, Kinds
  <2> QED BY <1>1, <2>2 DEF Installed, PcallRec
<1>2. CASE A = {}
  BY <1>2 DEF Installed
<1> QED BY <1>1, <1>2

(* A push that holds an error makes it the latest; a protected call starts  *)
(* afresh; nothing else counts.                                             *)
LEMMA LatestPushed ==
  ASSUME NEW st \in Seq(Act), NEW a \in Act, NEW v
  PROVE  /\ a.kind = "pcall" => Latest(Append(st, a), v)
         /\ Holds(a) => (Latest(Append(st, a), v) <=> Held(a) = v)
         /\ ~Holds(a) /\ a.kind # "pcall" => (Latest(Append(st, a), v) <=> Latest(st, v))
<1> DEFINE st2 == Append(st, a)
           n == Len(st)
           Open(x, s) == Holds(x[s]) /\ \A j \in (s + 1)..Len(x) : ~Holds(x[j]) /\ x[j].kind # "pcall"
<1>1. /\ Len(st2) = n + 1 /\ st2[n + 1] = a /\ n \in Nat
      /\ \A i \in 1..n : st2[i] = st[i]
  BY Pushed
<1>2. Open(st2, n + 1) <=> Holds(a)
  BY <1>1
<1>3. \A s \in 1..n : Open(st2, s) <=> Open(st, s) /\ ~Holds(a) /\ a.kind # "pcall"
  <2> SUFFICES ASSUME NEW s \in 1..n
               PROVE  Open(st2, s) <=> Open(st, s) /\ ~Holds(a) /\ a.kind # "pcall"
    OBVIOUS
  <2>1. \A j : j \in (s + 1)..(n + 1) <=> j \in (s + 1)..n \/ j = n + 1
    BY <1>1
  <2>2. st2[s] = st[s] /\ \A j \in (s + 1)..n : st2[j] = st[j]
    BY <1>1
  <2> HIDE DEF st2
  <2> QED BY <2>1, <2>2, <1>1
<1>4. Latest(st2, v) <=> \A s \in 1..(n + 1) : Open(st2, s) => Held(st2[s]) = v
  BY <1>1 DEF Latest
<1>5. Latest(st, v) <=> \A s \in 1..n : Open(st, s) => Held(st[s]) = v
  BY DEF Latest
<1>6. Holds(a) => a.kind # "pcall"
  BY DEF Holds
<1>7. \A s \in 1..(n + 1) : s \in 1..n \/ s = n + 1
  BY <1>1
<1> HIDE DEF st2, Open, n
<1>8. Latest(st2, v) <=> /\ Open(st2, n + 1) => Held(a) = v
                        /\ \A s \in 1..n : Open(st2, s) => Held(st[s]) = v
  BY <1>1, <1>4, <1>7
<1> QED BY <1>2, <1>3, <1>5, <1>6, <1>8 DEF st2

(* An activation fits a stack as it fits any other that amounts to the same. *)
LEMMA SoundPushed ==
  ASSUME NEW st \in Seq(Act), NEW a \in Act
  PROVE  Sound(Append(st, a)) <=> Sound(st) /\ Fits(st, a)
<1> DEFINE st2 == Append(st, a)
           n == Len(st)
<1>1. /\ st2 \in Seq(Act) /\ Len(st2) = n + 1 /\ st2[n + 1] = a /\ n \in Nat
      /\ \A i \in 1..n : st2[i] = st[i]
      /\ SubSeq(st2, 1, n) = st
  BY Pushed
<1>2. \A i \in 1..n : SubSeq(st2, 1, i - 1) = SubSeq(st, 1, i - 1)
  <2> TAKE i \in 1..n
  <2>1. SubSeq(st2, 1, i - 1) = SubSeq(SubSeq(st2, 1, n), 1, i - 1)
    BY <1>1, SubSeqOfSubSeq
  <2> QED BY <2>1, <1>1
<1>3. \A i \in 1..(n + 1) : i \in 1..n \/ i = n + 1
  BY <1>1
<1>4. (n + 1) - 1 = n /\ 1..n \subseteq 1..(n + 1) /\ n + 1 \in 1..(n + 1)
  BY <1>1
<1> HIDE DEF st2, n
<1>5. (\A i \in 1..(n + 1) : Fits(SubSeq(st2, 1, i - 1), st2[i]))
        <=> (\A i \in 1..n : Fits(SubSeq(st, 1, i - 1), st[i])) /\ Fits(st, a)
  BY <1>1, <1>2, <1>3, <1>4
<1> QED BY <1>1, <1>5 DEF Sound, st2, n

(* Nothing is on an empty stack. *)
LEMMA EmptyStack ==
  /\ Sound(<<>>) /\ Frames(<<>>) = 0 /\ HandlerCalls(<<>>) = 0
  /\ Installed(<<>>) = NoHandler /\ \A v : Latest(<<>>, v)
<1>1. <<>> \in Seq(Act) /\ Len(<<>>) = 0 /\ 1..0 = {}
  OBVIOUS
<1>2. Cardinality({}) = 0
  BY FS_EmptySet
<1>3. {i \in 1..Len(<<>>) : IsFrame(<<>>[i])} = {} /\ {i \in 1..Len(<<>>) : <<>>[i].kind = "handler"} = {}
      /\ {i \in 1..Len(<<>>) : <<>>[i].kind = "pcall"} = {}
  BY <1>1
<1> QED BY <1>1, <1>2, <1>3 DEF Sound, Frames, HandlerCalls, Installed, Latest
-----------------------------------------------------------------------------
(* All that a push does. *)
LEMMA Grows ==
  ASSUME NEW st \in Seq(Act), NEW a \in Act
  PROVE  /\ Append(st, a) \in Seq(Act) /\ Append(st, a) # <<>>
         /\ Len(Append(st, a)) = Len(st) + 1 /\ Len(st) \in Nat
         /\ Append(st, a)[Len(Append(st, a))] = a
         /\ Sound(Append(st, a)) <=> Sound(st) /\ Fits(st, a)
         /\ Frames(st) \in Nat /\ Frames(st) <= Len(st)
         /\ Frames(Append(st, a)) = Frames(st) + (IF IsFrame(a) THEN 1 ELSE 0)
         /\ HandlerCalls(st) \in Nat
         /\ HandlerCalls(Append(st, a)) = HandlerCalls(st) + (IF a.kind = "handler" THEN 1 ELSE 0)
         /\ Installed(Append(st, a)) = IF a.kind = "pcall" THEN a.h ELSE Installed(st)
         /\ \A v : a.kind = "pcall" => Latest(Append(st, a), v)
         /\ \A v : Holds(a) => (Latest(Append(st, a), v) <=> Held(a) = v)
         /\ \A v : ~Holds(a) /\ a.kind # "pcall" => (Latest(Append(st, a), v) <=> Latest(st, v))
<1>1. /\ Append(st, a) \in Seq(Act) /\ Append(st, a) # <<>>
      /\ Len(Append(st, a)) = Len(st) + 1 /\ Len(st) \in Nat
      /\ Append(st, a)[Len(Append(st, a))] = a
  BY Pushed
<1>2. Sound(Append(st, a)) <=> Sound(st) /\ Fits(st, a)
  BY SoundPushed
<1>3. /\ Frames(st) \in Nat /\ Frames(st) <= Len(st)
      /\ Frames(Append(st, a)) = Frames(st) + (IF IsFrame(a) THEN 1 ELSE 0)
      /\ HandlerCalls(st) \in Nat
      /\ HandlerCalls(Append(st, a)) = HandlerCalls(st) + (IF a.kind = "handler" THEN 1 ELSE 0)
  BY FramesPushed, HandlerCallsPushed
<1> QED BY <1>1, <1>2, <1>3, InstalledPushed, LatestPushed

(* What an operation at the top of st finds, at depth d and cost c. *)
Ready(st, d, c) ==
  /\ Sound(st) /\ st # <<>> /\ d = Frames(st) /\ d <= MaxStack /\ c \in Int
  /\ msgh = Installed(st) /\ nest = HandlerCalls(st) /\ nest <= MaxNest
  /\ newest \in ErrVals /\ err = NoErr /\ Latest(st, newest)
  /\ HandlerCalls(st) = 0 => c <= Budget
  /\ weights \in [1..MaxStack -> Nat]

(* An error raised goes to the handler, which has room if it is the         *)
(* outermost, or unwinds the stack as the newest error.                     *)
LEMMA RaiseStep ==
  ASSUME NEW st, NEW d, NEW c, NEW c2 \in Int, Ready(st, d, c),
         nest = 0 => Roomy(c2 - Headroom),
         NEW v \in Errors \cup {Overflow}, Raise(st, d, c2, v)
  PROVE  Sound(stack') /\ Matches(stack', depth', cost', msgh', nest', err', newest')
<1> DEFINE a == Handling(nest = 0, Raised(v))
<1>0. /\ st \in Seq(Act) /\ nest \in Nat /\ nest <= MaxNest /\ d = Frames(st) /\ d \in 0..MaxStack
      /\ Sound(st) /\ nest = HandlerCalls(st) /\ msgh = Installed(st)
  <2>1. st \in Seq(Act)
    BY DEF Ready, Sound
  <2> QED BY <2>1, FramesPushed, HandlerCallsPushed, BoundsAssumption DEF Ready
<1>1. v # "none" /\ v # ErrorInHandling /\ v \in ErrVals /\ ErrorInHandling \in ErrVals
  BY ErrorsAssumption DEF Overflow, ErrorInHandling, ErrVals
<1>2. CASE msgh # NoHandler /\ nest < MaxNest
  <2>1. /\ stack' = Append(st, a) /\ depth' = d /\ nest' = nest + 1
        /\ cost' = c2 - Lent(nest = 0) /\ newest' = v /\ err' = NoErr /\ msgh' = msgh
    BY <1>2, <1>0 DEF Raise, Ready
  <2>2. a \in HandlerRec /\ a.kind = "handler" /\ a.outer = (nest = 0) /\ a.arg = Raised(v)
    BY <1>1 DEF Handling, HandlerRec, Raised, ErrRec
  <2>3. a \in Act /\ ~IsFrame(a) /\ Holds(a) /\ Held(a) = v
    BY <2>2 DEF Act, IsFrame, Holds, Held, Raised
  <2>4. Fits(st, a)
    BY <1>0, <1>1, <1>2, <2>2 DEF Fits, FitsHandler, Raised
  <2>5. a.outer => Roomy(cost')
    BY <2>1, <2>2 DEF Lent
  <2>6. cost' \in Int
    BY <2>1, BudgetAssumption DEF Lent
  <2>7. NoErr \in ErrRec
    BY DEF NoErr, ErrRec, ErrVals
  <2> HIDE DEF a
  <2>8. /\ Sound(stack') /\ Frames(stack') = d /\ HandlerCalls(stack') = nest + 1
        /\ Installed(stack') = msgh /\ Latest(stack', v)
        /\ stack'[Len(stack')] = a
    BY <2>1, <2>2, <2>3, <2>4, <1>0, Grows
  <2> QED BY <2>1, <2>2, <2>5, <2>6, <2>7, <2>8, <1>0, <1>1, <1>2, BudgetAssumption DEF Matches
<1>3. CASE ~(msgh # NoHandler /\ nest < MaxNest)
  <2> DEFINE w == IF msgh = NoHandler THEN v ELSE ErrorInHandling
  <2>1. /\ stack' = st /\ depth' = d /\ nest' = nest /\ cost' = c2
        /\ newest' = w /\ err' = Raised(w) /\ msgh' = msgh
    BY <1>3 DEF Raise
  <2>2. w \in ErrVals /\ w # "none" /\ Raised(w) \in ErrRec /\ Raised(w) # NoErr
    BY <1>1 DEF Raised, ErrRec, NoErr, ErrorInHandling
  <2>3. HandledBy(Raised(w), msgh) /\ Raised(w).v = w
    BY DEF HandledBy, Raised
  <2> HIDE DEF w
  <2> QED BY <2>1, <2>2, <2>3, <1>0 DEF Matches
<1> QED BY <1>2, <1>3

(* A call with a frame: its activation fits if it is made. *)
LEMMA PushStep ==
  ASSUME NEW st, NEW d, NEW c, Ready(st, d, c), NEW w \in Weights, NEW a \in Act, NEW h,
         a.kind \in {"fn", "pcall"}, IsFrame(a), c + w <= Budget => Fits(st, a),
         h = IF a.kind = "pcall" THEN a.h ELSE msgh,
         Push(st, d, c, w, a, h)
  PROVE  IInv'
<1>0. /\ st \in Seq(Act) /\ w \in Nat /\ c \in Int /\ Frames(st) \in Nat /\ HandlerCalls(st) \in Nat
      /\ nest \in Nat
  <2>1. st \in Seq(Act)
    BY DEF Ready, Sound
  <2> QED BY <2>1, FramesPushed, HandlerCallsPushed, WeightsAssumption DEF Ready
<1>1. CASE c + w > Budget
  <2>1. Raise(st, d, c + w, Overflow) /\ weights' = weights
    BY <1>1, <1>0, BudgetAssumption DEF Push
  <2>2. nest = 0 => Roomy((c + w) - Headroom)
    <3> SUFFICES ASSUME nest = 0, NEW u \in Weights PROVE ((c + w) - Headroom) + u <= Budget
      BY DEF Roomy
    <3>1. c <= Budget /\ w + u <= Headroom /\ u \in Nat
      <4>1. c <= Budget
        BY DEF Ready
      <4> QED BY <4>1, HeadroomAssumption, WeightsAssumption
    <3> QED BY <3>1, <1>0, BudgetAssumption
  <2>3. c + w \in Int /\ weights' \in [1..MaxStack -> Nat]
    BY <1>0, <2>1 DEF Ready
  <2> DEFINE c2 == c + w
  <2>4. Raise(st, d, c2, Overflow) /\ c2 \in Int
    BY <2>1, <2>3
  <2>7. nest = 0 => Roomy(c2 - Headroom)
    BY <2>2
  <2> HIDE DEF c2
  <2>5. Overflow \in Errors \cup {Overflow}
    OBVIOUS
  <2>6. Sound(stack') /\ Matches(stack', depth', cost', msgh', nest', err', newest')
    BY <2>4, <2>5, <2>7, RaiseStep
  <2> QED BY <2>3, <2>6 DEF IInv
<1>2. CASE ~(c + w > Budget)
  <2>1. /\ stack' = Append(st, a) /\ depth' = d + 1 /\ cost' = c + w /\ msgh' = h
        /\ weights' = [weights EXCEPT ![d + 1] = w]
        /\ newest' = (IF a.kind = "pcall" THEN "none" ELSE newest)
        /\ nest' = nest /\ err' = err
        /\ Len(st) < MaxStack
    BY <1>2 DEF Push
  <2>2. Fits(st, a) /\ c + w <= Budget
    BY <1>2, <1>0, BudgetAssumption
  <2>3. d = Frames(st) /\ Frames(st) <= Len(st) /\ d + 1 <= MaxStack
    <3>1. Frames(st) <= Len(st) /\ Len(st) \in Nat
      BY <1>0, FramesPushed
    <3> QED BY <3>1, <2>1, <1>0, BoundsAssumption DEF Ready
  <2>4. weights' \in [1..MaxStack -> Nat]
    BY <2>1, <1>0 DEF Ready
  <2>5. a.kind # "closing" /\ a.kind # "handler" /\ ~Holds(a)
    BY DEF Holds
  <2>6. /\ Sound(stack') /\ Frames(stack') = d + 1 /\ HandlerCalls(stack') = HandlerCalls(st)
        /\ stack'[Len(stack')] = a
    BY <2>1, <2>2, <2>3, <2>5, <1>0, Grows DEF Ready
  <2>8. Installed(stack') = msgh' /\ Latest(stack', newest')
    BY <2>1, <2>5, <1>0, Grows DEF Ready
  <2>7. newest' \in ErrVals /\ err' \in ErrRec
    BY <2>1 DEF Ready, ErrVals, ErrRec, NoErr
  <2> QED BY <2>1, <2>2, <2>3, <2>4, <2>5, <2>6, <2>7, <2>8, <1>0 DEF IInv, Matches, Ready
<1> QED BY <1>1, <1>2

IsNewFn(a, framed, d, c) ==
  /\ a \in Act /\ a.kind = "fn" /\ VarsApart(a)
  /\ a.framed = framed /\ a.depth = d /\ a.cost = c

(* A new activation of a function has no variables yet. *)
LEMMA NewFn ==
  ASSUME NEW w \in Nat, NEW framed \in BOOLEAN, NEW closes \in BOOLEAN, NEW d \in Nat, NEW c \in Int
  PROVE  IsNewFn(Fn(w, framed, closes, d, c), framed, d, c)
<1>1. <<>> \in Seq(0..MaxVars) /\ <<>> \in Seq(1..MaxVars) /\ 0 \in 0..MaxVars
  BY BoundsAssumption
<1>2. Fn(w, framed, closes, d, c) \in FnRec
  BY <1>1 DEF Fn, FnRec
<1>3. VarsApart(Fn(w, framed, closes, d, c))
  BY DEF Fn, VarsApart
<1>4. Fn(w, framed, closes, d, c) \in Act
  BY <1>2 DEF Act
<1> QED BY <1>3, <1>4 DEF IsNewFn, Fn

(* closes is a truth value. *)
LEMMA ClosersBoolean == Closers \subseteq BOOLEAN
  BY DEF Closers

(* A framed call of a function keeps the invariant. *)
LEMMA EnterStep ==
  ASSUME NEW st, NEW d, NEW c, Ready(st, d, c), NEW w \in Weights, NEW closes \in Closers,
         Enter(st, d, c, w, closes)
  PROVE  IInv'
<1> DEFINE a == Fn(w, TRUE, closes, d + 1, c + w)
<1>1. /\ st \in Seq(Act) /\ w \in Nat /\ c \in Int /\ d \in Nat /\ d = Frames(st)
  <2>1. st \in Seq(Act)
    BY DEF Ready, Sound
  <2> QED BY <2>1, FramesPushed, WeightsAssumption DEF Ready
<1>2. /\ a \in Act /\ VarsApart(a) /\ a.kind = "fn" /\ a.framed = TRUE /\ a.depth = d + 1 /\ a.cost = c + w
  <2>1. closes \in BOOLEAN /\ TRUE \in BOOLEAN /\ w \in Nat /\ d + 1 \in Nat /\ c + w \in Int
    BY <1>1, ClosersBoolean
  <2>2. /\ a \in Act /\ VarsApart(a) /\ a.kind = "fn"
        /\ a.framed = TRUE /\ a.depth = d + 1 /\ a.cost = c + w
    <3> DEFINE D == d + 1
               C == c + w
    <3>1. closes \in BOOLEAN /\ TRUE \in BOOLEAN /\ w \in Nat /\ D \in Nat /\ C \in Int
      BY <2>1
    <3> HIDE DEF D, C
    <3>2. IsNewFn(Fn(w, TRUE, closes, D, C), TRUE, D, C)
      BY <3>1, NewFn, Zenon
    <3> QED BY <3>2 DEF IsNewFn, D, C
  <2> QED BY <2>2
<1>3. Push(st, d, c, w, a, msgh)
  BY DEF Enter
<1> HIDE DEF a
<1>4. IsFrame(a) /\ Frames(Append(st, a)) = d + 1
  BY <1>1, <1>2, FramesPushed DEF IsFrame
<1>5. c + w <= Budget => Fits(st, a)
  BY <1>2, <1>4 DEF Fits, FitsFn
<1> QED BY <1>2, <1>3, <1>4, <1>5, PushStep
-----------------------------------------------------------------------------
(* The stack as what is at the top and what that stands on. *)
Stands(rest, a) ==
  /\ rest \in Seq(Act) /\ a \in Act /\ stack = Append(rest, a)
  /\ Top = a /\ Dropped(1) = rest /\ Len(stack) = Len(rest) + 1
  /\ Sound(rest) /\ Fits(rest, a)
Stands2(rest, u, a) ==
  /\ rest \in Seq(Act) /\ u \in Act /\ Stands(Append(rest, u), a)
  /\ Under = u /\ Dropped(2) = rest /\ Len(stack) = Len(rest) + 2
  /\ Sound(rest) /\ Fits(rest, u)

(* A stack that is not empty has a top, *)
LEMMA HasTop ==
  ASSUME Sound(stack), stack # <<>>
  PROVE  \E rest, a : Stands(rest, a)
<1>1. stack \in Seq(Act)
  BY DEF Sound
<1>2. PICK rest \in Seq(Act), a \in Act :
         /\ stack = Append(rest, a) /\ Len(stack) = Len(rest) + 1
         /\ stack[Len(stack)] = a /\ SubSeq(stack, 1, Len(stack) - 1) = rest
  BY <1>1, Popping
<1>3. Sound(rest) /\ Fits(rest, a)
  BY <1>2, SoundPushed
<1> QED BY <1>2, <1>3 DEF Stands, Top, Dropped

(* and what stands on another activation has that one under it. *)
LEMMA HasUnder ==
  ASSUME NEW st, NEW a, Stands(st, a), st # <<>>
  PROVE  \E rest, u : st = Append(rest, u) /\ Stands2(rest, u, a)
<1>1. st \in Seq(Act) /\ stack \in Seq(Act) /\ stack = Append(st, a) /\ Len(stack) = Len(st) + 1 /\ a \in Act
  BY Pushed DEF Stands
<1>2. PICK rest \in Seq(Act), u \in Act :
         /\ st = Append(rest, u) /\ Len(st) = Len(rest) + 1
         /\ st[Len(st)] = u /\ SubSeq(st, 1, Len(st) - 1) = rest
  BY <1>1, Popping
<1>3. Sound(rest) /\ Fits(rest, u)
  BY <1>2, SoundPushed DEF Stands
<1>4. Len(rest) \in Nat /\ Len(stack) = Len(rest) + 2 /\ Len(stack) - 1 = Len(st) /\ Len(stack) - 2 = Len(st) - 1
  BY <1>1, <1>2
<1>5. stack[Len(st)] = st[Len(st)]
  BY <1>1, <1>2, <1>4, Pushed
<1>6. SubSeq(stack, 1, Len(st)) = st
  BY <1>1, Pushed
<1>7. SubSeq(stack, 1, Len(st) - 1) = SubSeq(SubSeq(stack, 1, Len(st)), 1, Len(st) - 1)
  BY <1>1, <1>2, <1>4, SubSeqOfSubSeq
<1>8. Dropped(2) = rest /\ Under = u
  BY <1>2, <1>4, <1>5, <1>6, <1>7 DEF Dropped, Under
<1> QED BY <1>2, <1>3, <1>4, <1>8 DEF Stands2

(* Code that runs at the top runs at the depth and cost of the stack. *)
LEMMA RunningReady ==
  ASSUME IInv, err = NoErr, stack # <<>>, Top.kind # "closing"
  PROVE  Ready(stack, depth, cost)
<1>1. PICK rest, a : Stands(rest, a)
  BY HasTop DEF IInv
<1>2. a.kind \in {"fn", "pcall", "handler"} /\ a = stack[Len(stack)]
  BY <1>1, Kinds DEF Stands, Top
<1>3. a.kind = "handler" => HandlerCalls(stack) # 0
  BY <1>1, HandlerCallsPushed DEF Stands
<1> QED BY <1>2, <1>3 DEF IInv, Matches, Ready
-----------------------------------------------------------------------------
(* Replacing an activation: any, the one at the top, or the one under it. *)
LEMMA Replaced ==
  ASSUME NEW st \in Seq(Act), NEW st2 \in Seq(Act), Len(st2) = Len(st),
         NEW m \in 1..Len(st), NEW b \in Act,
         \A j \in 1..Len(st) : st2[j] = IF j = m THEN b ELSE st[j]
  PROVE  st2 = [st EXCEPT ![m] = b]
<1> DEFINE x == [st EXCEPT ![m] = b]
<1>1. x \in Seq(Act) /\ Len(x) = Len(st) /\ \A j \in 1..Len(st) : x[j] = IF j = m THEN b ELSE st[j]
  OBVIOUS
<1> HIDE DEF x
<1>2. x = st2
  BY <1>1, SeqEqual
<1> QED BY <1>2 DEF x

(* The one at the top; *)
LEMMA TopReplaced ==
  ASSUME NEW rest \in Seq(Act), NEW a \in Act, NEW b \in Act
  PROVE  [Append(rest, a) EXCEPT ![Len(rest) + 1] = b] = Append(rest, b)
<1> DEFINE n == Len(rest) + 1
           x == Append(rest, a)
           y == Append(rest, b)
<1>1. /\ x \in Seq(Act) /\ Len(x) = n /\ y \in Seq(Act) /\ Len(y) = n /\ n \in Nat /\ n \in 1..n
      /\ y[n] = b
  BY Pushed
<1>2. \A j \in 1..n : y[j] = IF j = n THEN b ELSE x[j]
  <2>1. \A j \in 1..n : j \in 1..Len(rest) \/ j = n
    BY <1>1
  <2> QED BY <2>1, <1>1, Pushed
<1> HIDE DEF n, x, y
<1>3. [x EXCEPT ![n] = b] = y
  BY <1>1, <1>2, Replaced
<1> QED BY <1>3 DEF n, x, y

(* the one under it. *)
LEMMA UnderReplaced ==
  ASSUME NEW rest \in Seq(Act), NEW u \in Act, NEW a \in Act, NEW v \in Act
  PROVE  [Append(Append(rest, u), a) EXCEPT ![Len(rest) + 1] = v] = Append(Append(rest, v), a)
<1> DEFINE n == Len(rest) + 1
           x == Append(rest, u)
           y == Append(rest, v)
<1>1. /\ x \in Seq(Act) /\ Len(x) = n /\ y \in Seq(Act) /\ Len(y) = n /\ n \in Nat /\ n \in 1..(n + 1)
      /\ y[n] = v
  BY Pushed
<1>2. \A j \in 1..n : y[j] = IF j = n THEN v ELSE x[j]
  <2>1. \A j \in 1..n : j \in 1..Len(rest) \/ j = n
    BY <1>1
  <2> QED BY <2>1, <1>1, Pushed
<1>3. /\ Append(x, a) \in Seq(Act) /\ Len(Append(x, a)) = n + 1
      /\ Append(y, a) \in Seq(Act) /\ Len(Append(y, a)) = n + 1
      /\ \A j \in 1..n : Append(x, a)[j] = x[j] /\ Append(y, a)[j] = y[j]
      /\ Append(x, a)[n + 1] = a /\ Append(y, a)[n + 1] = a
  <2> HIDE DEF n, x, y
  <2> QED BY <1>1, Pushed
<1> HIDE DEF n, x, y
<1>4. \A j \in 1..(n + 1) : j \in 1..n \/ (j = n + 1 /\ j # n)
  BY <1>1
<1>5. \A j \in 1..(n + 1) : Append(y, a)[j] = IF j = n THEN v ELSE Append(x, a)[j]
  BY <1>2, <1>3, <1>4
<1> DEFINE xa == Append(x, a)
           ya == Append(y, a)
<1>6. /\ xa \in Seq(Act) /\ ya \in Seq(Act) /\ Len(ya) = Len(xa) /\ n \in 1..Len(xa)
      /\ \A j \in 1..Len(xa) : ya[j] = IF j = n THEN v ELSE xa[j]
  BY <1>1, <1>3, <1>5
<1> HIDE DEF xa, ya
<1>7. [xa EXCEPT ![n] = v] = ya
  BY <1>6, Replaced
<1> QED BY <1>7 DEF n, x, y, xa, ya

(* The two fields that a declaration, and a pop, change. *)
DeclaredAs(st, n, k) == [st EXCEPT ![Len(st)].decl = n, ![Len(st)].open = Append(@, k)]
Declaring(a, n, k) == [a EXCEPT !.decl = n, !.open = Append(@, k)]
PoppedAs(st, k) == [st EXCEPT ![Len(st) - 1].open = SubSeq(@, 1, Len(@) - 1),
                              ![Len(st) - 1].closed = IF k = 0 THEN @ ELSE Append(@, k)]
Popping1(a, k) == [a EXCEPT !.open = SubSeq(@, 1, Len(@) - 1),
                            !.closed = IF k = 0 THEN @ ELSE Append(@, k)]

(* A declaration changes the function at the top, *)
LEMMA DeclaredTop ==
  ASSUME NEW rest \in Seq(Act), NEW a \in FnRec, NEW n, NEW k, Declaring(a, n, k) \in Act
  PROVE  DeclaredAs(Append(rest, a), n, k) = Append(rest, Declaring(a, n, k))
<1> DEFINE st == Append(rest, a)
           m == Len(rest) + 1
           b == [a EXCEPT !.decl = n]
           st1 == [st EXCEPT ![m] = b]
<1>1. a \in Act /\ st \in Seq(Act) /\ Len(st) = m /\ st[m] = a /\ m \in 1..Len(st) /\ DOMAIN st = 1..Len(st)
  BY Pushed DEF Act
<1>2. b.open = a.open /\ Declaring(a, n, k) = [b EXCEPT !.open = Append(a.open, k)]
  BY DEF FnRec, Declaring
<1>3. st1[m] = b
  BY <1>1
<1>4. DeclaredAs(st, n, k) = [st1 EXCEPT ![m] = [b EXCEPT !.open = Append(a.open, k)]]
  BY <1>1, <1>2, <1>3 DEF DeclaredAs
<1>5. DeclaredAs(st, n, k) = [st EXCEPT ![m] = Declaring(a, n, k)]
  <2> HIDE DEF st, m, b
  <2> QED BY <1>1, <1>2, <1>4
<1>6. [st EXCEPT ![m] = Declaring(a, n, k)] = Append(rest, Declaring(a, n, k))
  BY <1>1, TopReplaced
<1> QED BY <1>5, <1>6

(* and a pop the function under $close_upto. *)
LEMMA PoppedUnder ==
  ASSUME NEW rest \in Seq(Act), NEW u \in FnRec, NEW a \in Act, NEW k, Popping1(u, k) \in Act
  PROVE  PoppedAs(Append(Append(rest, u), a), k) = Append(Append(rest, Popping1(u, k)), a)
<1> DEFINE st == Append(Append(rest, u), a)
           m == Len(rest) + 1
           b == [u EXCEPT !.open = SubSeq(u.open, 1, Len(u.open) - 1)]
           st1 == [st EXCEPT ![m] = b]
           x == IF k = 0 THEN u.closed ELSE Append(u.closed, k)
<1>1. /\ u \in Act /\ st \in Seq(Act) /\ Len(st) = m + 1 /\ st[m] = u /\ m \in 1..Len(st)
      /\ DOMAIN st = 1..Len(st) /\ Len(st) - 1 = m
  <2>1. u \in Act
    BY DEF Act
  <2>2. Append(rest, u) \in Seq(Act) /\ Len(Append(rest, u)) = m /\ Append(rest, u)[m] = u /\ m \in Nat \ {0}
    BY <2>1, Pushed
  <2> QED BY <2>1, <2>2, Pushed
<1>2. b.closed = u.closed /\ Popping1(u, k) = [b EXCEPT !.closed = x]
  BY DEF FnRec, Popping1
<1>3. st1[m] = b
  BY <1>1
<1>4. PoppedAs(st, k) = [st1 EXCEPT ![m] = [b EXCEPT !.closed = x]]
  BY <1>1, <1>2, <1>3 DEF PoppedAs
<1>5. PoppedAs(st, k) = [st EXCEPT ![m] = Popping1(u, k)]
  <2> HIDE DEF st, m, b, x
  <2> QED BY <1>1, <1>2, <1>4
<1>6. [st EXCEPT ![m] = Popping1(u, k)] = Append(Append(rest, Popping1(u, k)), a)
  BY <1>1, UnderReplaced
<1> QED BY <1>5, <1>6
-----------------------------------------------------------------------------
(* Each operation keeps the invariant.  First the calls of functions. *)
LEMMA CallSteps ==
  ASSUME IInv, NEW w \in Weights, NEW closes \in Closers,
         Call(w, closes) \/ CallProtected(w, closes) \/ CallHandler(w, closes)
  PROVE  IInv'
<1>1. /\ err = NoErr /\ stack # <<>> /\ Top.kind # "closing"
      /\ Enter(stack, depth, cost, w, closes)
  BY DEF Call, CallProtected, CallHandler, Running
<1> QED BY <1>1, RunningReady, EnterStep

(* Errors raised by code that runs. *)
LEMMA ErrorSteps ==
  ASSUME IInv, NEW v \in Errors, Error(v) \/ CallsNoFunction(v)
  PROVE  IInv'
<1>1. /\ err = NoErr /\ stack # <<>> /\ Top.kind \in {"fn", "pcall"}
      /\ Raise(stack, depth, cost, v) /\ weights' = weights
  BY DEF Error, CallsNoFunction, Running
<1>2. Ready(stack, depth, cost)
  BY <1>1, RunningReady
<1>3. cost <= Budget /\ cost \in Int /\ weights \in [1..MaxStack -> Nat]
  BY <1>1 DEF IInv, Matches, Top
<1>4. Roomy(cost - Headroom)
  <2> SUFFICES ASSUME NEW u \in Weights PROVE (cost - Headroom) + u <= Budget
    BY DEF Roomy
  <2>1. u + u <= Headroom /\ u \in Nat
    BY HeadroomAssumption, WeightsAssumption
  <2> QED BY <2>1, <1>3, BudgetAssumption
<1>5. Sound(stack') /\ Matches(stack', depth', cost', msgh', nest', err', newest')
  BY <1>1, <1>2, <1>3, <1>4, RaiseStep
<1> QED BY <1>1, <1>3, <1>5 DEF IInv

(* A protected call saves what is installed. *)
LEMMA PcallStep ==
  ASSUME IInv, NEW w \in Weights, NEW h \in Handlers \cup {NoHandler}, Pcall(w, h)
  PROVE  IInv'
<1> DEFINE a == Protected(w, h, depth + 1, cost + w)
<1>1. /\ err = NoErr /\ stack # <<>> /\ Top.kind = "fn"
      /\ Push(stack, depth, cost, w, a, h)
  BY DEF Pcall, Running
<1>2. Ready(stack, depth, cost)
  BY <1>1, RunningReady
<1>3. /\ stack \in Seq(Act) /\ depth = Frames(stack) /\ depth \in Nat /\ cost \in Int /\ w \in Nat
      /\ msgh = Installed(stack) /\ nest = HandlerCalls(stack) /\ nest \in Nat
      /\ Latest(stack, newest) /\ newest \in ErrVals
  <2>1. stack \in Seq(Act)
    BY <1>2 DEF Ready, Sound
  <2> QED BY <2>1, <1>2, FramesPushed, HandlerCallsPushed, WeightsAssumption DEF Ready
<1>4. msgh \in Handlers \cup {NoHandler}
  BY <1>3, InstalledType
<1>5. a \in PcallRec /\ a.kind = "pcall" /\ a.h = h
  BY <1>3, <1>4 DEF Protected, PcallRec
<1>6. FitsPcall(stack, a) \/ cost + w > Budget
  BY <1>1, <1>3, BudgetAssumption DEF Protected, FitsPcall, Top
<1> HIDE DEF a
<1>7. a \in Act /\ IsFrame(a) /\ (cost + w <= Budget => Fits(stack, a))
  BY <1>3, <1>5, <1>6, BudgetAssumption DEF Act, IsFrame, Fits
<1> QED BY <1>1, <1>2, <1>5, <1>7, PushStep

(* Calls without a frame. *)
LEMMA CallFramelessStep ==
  ASSUME IInv, NEW w \in Frameless, NEW closes \in Closers, CallFrameless(w, closes)
  PROVE  IInv'
<1> DEFINE a == Fn(w, FALSE, closes, depth, cost)
<1>1. /\ err = NoErr /\ stack # <<>> /\ Top.kind = "fn" /\ stack' = Append(stack, a)
      /\ UNCHANGED <<depth, weights, cost, msgh, nest, err, newest>>
  BY DEF CallFrameless, Running
<1>2. Ready(stack, depth, cost)
  BY <1>1, RunningReady
<1>3. /\ stack \in Seq(Act) /\ depth = Frames(stack) /\ depth \in Nat /\ cost \in Int /\ w \in Nat
      /\ cost <= Budget
  <2>1. stack \in Seq(Act)
    BY <1>2 DEF Ready, Sound
  <2>2. cost <= Budget
    BY <1>1 DEF IInv, Matches, Top
  <2> QED BY <2>1, <2>2, <1>2, FramesPushed, WeightsAssumption DEF Ready
<1>4. IsNewFn(a, FALSE, depth, cost)
  <2>1. closes \in BOOLEAN /\ FALSE \in BOOLEAN
    BY ClosersBoolean
  <2> QED BY <2>1, <1>3, NewFn, Zenon
<1> HIDE DEF a
<1>5. a \in Act /\ a.kind = "fn" /\ ~IsFrame(a) /\ ~Holds(a)
  BY <1>4 DEF IsNewFn, IsFrame, Holds
<1>6. Fits(stack, a)
  BY <1>3, <1>4, <1>5, Grows DEF IsNewFn, Fits, FitsFn
<1>7. /\ Sound(stack') /\ Frames(stack') = Frames(stack) /\ HandlerCalls(stack') = HandlerCalls(stack)
      /\ Installed(stack') = Installed(stack) /\ Latest(stack', newest)
      /\ stack'[Len(stack')] = a
  BY <1>1, <1>2, <1>3, <1>5, <1>6, Grows DEF Ready
<1> QED BY <1>1, <1>3, <1>5, <1>7 DEF IInv, Matches

(* A tail call puts its callee where the caller was. *)
LEMMA TailCallStep ==
  ASSUME IInv, NEW w \in Weights, NEW closes \in Closers, TailCall(w, closes)
  PROVE  IInv'
<1> DEFINE c == IF depth = 0 THEN cost ELSE cost - weights[depth] + w
           a == Fn(w, Top.framed, closes, depth, c)
<1>1. /\ err = NoErr /\ stack # <<>> /\ Top.kind = "fn"
      /\ weights' = IF depth = 0 THEN weights ELSE [weights EXCEPT ![depth] = w]
      /\ \/ depth > 0 /\ c > Budget /\ Raise(stack, depth, c, Overflow)
         \/ /\ depth > 0 => c <= Budget
            /\ stack' = Append(Dropped(1), a) /\ cost' = c
            /\ UNCHANGED <<depth, msgh, nest, err, newest>>
  BY DEF TailCall, Running
<1>2. Ready(stack, depth, cost)
  BY <1>1, RunningReady
<1>3. /\ depth = Frames(stack) /\ depth \in 0..MaxStack /\ cost \in Int /\ w \in Nat
      /\ cost <= Budget /\ weights \in [1..MaxStack -> Nat]
  BY <1>1, WeightsAssumption DEF IInv, Matches, Top
<1>4. c \in Int /\ weights' \in [1..MaxStack -> Nat] /\ c <= cost + w
  <2>1. CASE depth = 0
    BY <2>1, <1>1, <1>3
  <2>2. CASE depth # 0
    <3>1. depth \in 1..MaxStack /\ weights[depth] \in Nat
      BY <2>2, <1>3
    <3> QED BY <2>2, <3>1, <1>1, <1>3
  <2> QED BY <2>1, <2>2
<1>5. CASE depth > 0 /\ c > Budget /\ Raise(stack, depth, c, Overflow)
  <2>1. Roomy(c - Headroom)
    <3> SUFFICES ASSUME NEW u \in Weights PROVE (c - Headroom) + u <= Budget
      BY DEF Roomy
    <3>1. w + u <= Headroom /\ u \in Nat
      BY HeadroomAssumption, WeightsAssumption
    <3> HIDE DEF c
    <3> QED BY <3>1, <1>3, <1>4, BudgetAssumption
  <2> HIDE DEF c
  <2>2. Overflow \in Errors \cup {Overflow}
    OBVIOUS
  <2>3. Sound(stack') /\ Matches(stack', depth', cost', msgh', nest', err', newest')
    BY <1>2, <1>4, <1>5, <2>1, <2>2, RaiseStep
  <2> QED BY <1>4, <2>3 DEF IInv
<1>6. CASE /\ depth > 0 => c <= Budget
           /\ stack' = Append(Dropped(1), a) /\ cost' = c
           /\ UNCHANGED <<depth, msgh, nest, err, newest>>
  <2>1. PICK rest, old : Stands(rest, old)
    BY <1>1, HasTop DEF IInv
  <2>2. /\ old \in FnRec /\ old \in Act /\ old.kind = "fn" /\ old.framed \in BOOLEAN /\ ~Holds(old)
        /\ rest \in Seq(Act) /\ stack = Append(rest, old) /\ Top = old /\ Dropped(1) = rest /\ Sound(rest)
    <3>1. old \in FnRec /\ old.kind = "fn"
      BY <1>1, <2>1, Kinds DEF Stands
    <3> QED BY <3>1, <2>1 DEF Stands, FnRec, Holds
  <2>3. c <= Budget
    BY <1>3, <1>6
  <2>4. IsNewFn(a, old.framed, depth, c)
    <3>1. closes \in BOOLEAN /\ a = Fn(w, old.framed, closes, depth, c) /\ depth \in Nat
      BY ClosersBoolean, <1>3, <2>2
    <3> HIDE DEF a, c
    <3> QED BY <3>1, <2>2, <1>3, <1>4, NewFn
  <2> HIDE DEF a, c
  <2>5. a \in Act /\ a.kind = "fn" /\ (IsFrame(a) <=> IsFrame(old)) /\ ~Holds(a)
    BY <2>2, <2>4 DEF IsNewFn, IsFrame, Holds
  <2>6. Frames(Append(rest, a)) = Frames(stack)
    BY <2>2, <2>5, Grows
  <2>7. Fits(rest, a)
    BY <1>3, <2>3, <2>4, <2>5, <2>6 DEF IsNewFn, Fits, FitsFn
  <2>8. /\ Sound(stack') /\ HandlerCalls(stack') = HandlerCalls(stack)
        /\ Installed(stack') = Installed(stack) /\ stack'[Len(stack')] = a
    BY <1>6, <2>2, <2>5, <2>7, Grows
  <2>9. Latest(stack', newest)
    BY <1>2, <1>6, <2>2, <2>5, Grows DEF Ready
  <2> QED BY <1>1, <1>3, <1>4, <1>6, <2>2, <2>3, <2>5, <2>6, <2>8, <2>9 DEF IInv, Matches
<1> QED BY <1>1, <1>5, <1>6
-----------------------------------------------------------------------------
(* A function as it was, but for its variables. *)
SameFn(a, b) == /\ b \in FnRec /\ VarsApart(b) /\ b.kind = "fn"
                /\ b.framed = a.framed /\ b.closes = a.closes
                /\ b.depth = a.depth /\ b.cost = a.cost

(* Declaring a variable keeps the variables apart. *)
LEMMA DeclaringKeeps ==
  ASSUME NEW a \in FnRec, VarsApart(a), a.closes, NEW closable \in BOOLEAN,
         Len(a.open) < MaxVars, closable => a.decl < MaxVars,
         NEW n, n = IF closable THEN a.decl + 1 ELSE a.decl,
         NEW k, k = IF closable THEN n ELSE 0
  PROVE  SameFn(a, Declaring(a, n, k))
<1> DEFINE b == Declaring(a, n, k)
<1>1. /\ a.decl \in Nat /\ a.decl <= MaxVars /\ MaxVars \in Nat
      /\ a.open \in Seq(0..MaxVars) /\ a.closed \in Seq(1..MaxVars)
  BY BoundsAssumption DEF FnRec
<1>2. n \in 0..MaxVars /\ k \in 0..MaxVars /\ n \in Nat /\ k <= n /\ a.decl <= n
  BY <1>1
<1>3. /\ b.decl = n /\ b.open = Append(a.open, k) /\ b.closed = a.closed /\ b.closes = a.closes
      /\ b.framed = a.framed /\ b.depth = a.depth /\ b.cost = a.cost /\ b.kind = "fn"
  BY DEF Declaring, FnRec
<1>4. /\ Append(a.open, k) \in Seq(0..MaxVars) /\ Len(Append(a.open, k)) = Len(a.open) + 1 /\ Len(a.open) \in Nat
      /\ Append(a.open, k)[Len(a.open) + 1] = k
      /\ \A j \in 1..Len(a.open) : Append(a.open, k)[j] = a.open[j]
  BY <1>1, <1>2
<1>5. b \in FnRec
  BY <1>2, <1>4 DEF FnRec, Declaring
<1> HIDE DEF b
<1> DEFINE m == Len(a.open)
           op == b.open
<1>6. \A j \in 1..(m + 1) : j \in 1..m \/ j = m + 1
  BY <1>4
<1>7. /\ Len(op) = m + 1 /\ op[m + 1] = k /\ \A j \in 1..m : op[j] = a.open[j] /\ a.open[j] \in Nat
  BY <1>1, <1>3, <1>4
<1>8. \A j \in 1..m : a.open[j] <= a.decl
  BY DEF VarsApart
<1>9. \A j \in 1..Len(a.closed) : a.closed[j] <= a.decl /\ a.closed[j] \in Nat \ {0}
  BY <1>1 DEF VarsApart
<1> HIDE DEF m, op
<1>10. \A j \in 1..Len(op) : op[j] <= n
  <2>1. \A j \in 1..m : op[j] <= n
    BY <1>1, <1>2, <1>7, <1>8
  <2>2. op[m + 1] <= n
    BY <1>2, <1>7
  <2> QED BY <1>6, <1>7, <2>1, <2>2
<1>11. \A j \in 1..Len(b.closed) : b.closed[j] <= n
  BY <1>1, <1>2, <1>3, <1>9
<1>12. k = 0 \/ k = a.decl + 1
  BY <1>1
<1>13. \A j, i \in 1..Len(op) : op[j] = op[i] /\ op[j] # 0 => j = i
  <2>1. \A j, i \in 1..m : a.open[j] = a.open[i] /\ a.open[j] # 0 => j = i
    BY DEF VarsApart, m
  <2>2. \A j \in 1..m : k # 0 => op[j] # k
    BY <1>1, <1>7, <1>8, <1>12
  <2> QED BY <1>6, <1>7, <2>1, <2>2
<1>14. \A j \in 1..Len(op), i \in 1..Len(b.closed) : op[j] # b.closed[i]
  <2>1. \A j \in 1..m, i \in 1..Len(a.closed) : a.open[j] # a.closed[i]
    BY DEF VarsApart, m
  <2>2. \A i \in 1..Len(a.closed) : k # a.closed[i]
    BY <1>1, <1>9, <1>12
  <2> QED BY <1>3, <1>6, <1>7, <2>1, <2>2
<1>15. \A x \in 1..n : \/ \E j \in 1..Len(op) : op[j] = x
                       \/ \E j \in 1..Len(b.closed) : b.closed[j] = x
  <2> TAKE x \in 1..n
  <2>2. CASE x <= a.decl
    <3>1. x \in 1..a.decl
      BY <2>2, <1>1
    <3>2. \/ \E j \in 1..m : a.open[j] = x
          \/ \E j \in 1..Len(a.closed) : a.closed[j] = x
      BY <3>1 DEF VarsApart, m
    <3>3. 1..m \subseteq 1..(m + 1)
      BY <1>4 DEF m
    <3> QED BY <3>2, <3>3, <1>3, <1>7
  <2>3. CASE ~(x <= a.decl)
    <3>1. x = n /\ k = n
      BY <2>3, <1>1, <1>2
    <3>2. m + 1 \in 1..(m + 1)
      BY <1>4 DEF m
    <3> QED BY <3>1, <3>2, <1>7
  <2> QED BY <2>2, <2>3
<1>16. \A j, i \in 1..Len(b.closed) : b.closed[j] = b.closed[i] => j = i
  BY <1>3 DEF VarsApart
<1>17. VarsApart(b)
  BY <1>3, <1>10, <1>11, <1>13, <1>14, <1>15, <1>16 DEF VarsApart, op
<1> QED BY <1>3, <1>5, <1>17 DEF SameFn, b

(* Taking the last one: it is closed now, unless there is nothing to close. *)
LEMMA PoppingKeeps ==
  ASSUME NEW a \in FnRec, VarsApart(a), Len(a.open) > 0, NEW k, k = a.open[Len(a.open)]
  PROVE  SameFn(a, Popping1(a, k))
<1> DEFINE b == Popping1(a, k)
           m == Len(a.open)
           op == SubSeq(a.open, 1, m - 1)
           cl == IF k = 0 THEN a.closed ELSE Append(a.closed, k)
           c == Len(a.closed)
<1>1. /\ a.decl \in Nat /\ a.decl <= MaxVars /\ MaxVars \in Nat
      /\ a.open \in Seq(0..MaxVars) /\ a.closed \in Seq(1..MaxVars) /\ m \in Nat /\ c \in Nat
  BY BoundsAssumption DEF FnRec
<1>2. /\ op \in Seq(0..MaxVars) /\ Len(op) = m - 1 /\ \A j \in 1..(m - 1) : op[j] = a.open[j]
      /\ m \in 1..m /\ \A j \in 1..(m - 1) : j \in 1..m /\ j # m
  BY <1>1
<1>3. k \in 0..MaxVars /\ k <= a.decl
  <2>1. a.open[m] \in 0..MaxVars
    <3> DEFINE q == a.open
               S == 0..MaxVars
    <3>1. q \in Seq(S) /\ m \in 1..Len(q)
      BY <1>1, <1>2
    <3> HIDE DEF q, S, m
    <3>2. q[m] \in S
      BY <3>1
    <3> QED BY <3>2 DEF q, S
  <2>2. \A j \in 1..m : a.open[j] <= a.decl
    BY DEF VarsApart
  <2> QED BY <1>2, <2>1, <2>2
<1>4. cl \in Seq(1..MaxVars)
  <2>1. k # 0 => k \in 1..MaxVars
    BY <1>1, <1>3
  <2>2. CASE k = 0
    BY <2>2, <1>1
  <2>3. CASE k # 0
    <3>1. Append(a.closed, k) \in Seq(1..MaxVars)
      BY <2>1, <2>3, <1>1
    <3> QED BY <3>1, <2>3
  <2> QED BY <2>2, <2>3
<1>5. /\ b.decl = a.decl /\ b.open = op /\ b.closed = cl /\ b.closes = a.closes
      /\ b.framed = a.framed /\ b.depth = a.depth /\ b.cost = a.cost /\ b.kind = "fn"
  BY DEF Popping1, FnRec
<1>6. b \in FnRec
  BY <1>2, <1>4 DEF FnRec, Popping1
<1>7. /\ \A j \in 1..Len(op) : op[j] <= a.decl
      /\ \A j, i \in 1..Len(op) : op[j] = op[i] /\ op[j] # 0 => j = i
      /\ \A j \in 1..Len(op) : op[j] = k => k = 0
      /\ \A j \in 1..Len(op), i \in 1..c : op[j] # a.closed[i]
  <2> HIDE DEF op, m, c
  <2>1. \A j \in 1..m : a.open[j] <= a.decl
    BY DEF VarsApart, m
  <2>2. \A j, i \in 1..m : a.open[j] = a.open[i] /\ a.open[j] # 0 => j = i
    BY DEF VarsApart, m
  <2>3. \A j \in 1..m, i \in 1..c : a.open[j] # a.closed[i]
    BY DEF VarsApart, m, c
  <2>4. a.open[m] = k
    BY DEF m
  <2> QED BY <1>2, <2>1, <2>2, <2>3, <2>4
<1>8. ~a.closes => FALSE
  BY <1>1 DEF VarsApart
<1>9. \A x \in 1..a.decl : \/ \E j \in 1..Len(op) : op[j] = x
                           \/ x = k
                           \/ \E j \in 1..c : a.closed[j] = x
  <2> TAKE x \in 1..a.decl
  <2>1. \/ \E j \in 1..m : a.open[j] = x
        \/ \E j \in 1..c : a.closed[j] = x
    BY DEF VarsApart
  <2>2. \A j \in 1..m : j \in 1..(m - 1) \/ j = m
    BY <1>1
  <2>3. a.open[m] = k
    OBVIOUS
  <2> HIDE DEF m, c, op
  <2>4. CASE \E j \in 1..m : a.open[j] = x
    <3>1. PICK j \in 1..m : a.open[j] = x
      BY <2>4
    <3>2. CASE j = m
      BY <3>1, <3>2, <2>3
    <3>3. CASE j \in 1..(m - 1)
      <4>1. op[j] = x /\ j \in 1..Len(op)
        BY <3>1, <3>3, <1>2
      <4> QED BY <4>1
    <3> QED BY <2>2, <3>2, <3>3
  <2> QED BY <2>1, <2>4
<1>10. \A j \in 1..c : a.closed[j] <= a.decl
  BY DEF VarsApart
<1>11. \A j, i \in 1..c : a.closed[j] = a.closed[i] => j = i
  BY DEF VarsApart
<1>12. \A i \in 1..c : k # a.closed[i]
  BY <1>1, <1>2 DEF VarsApart
<1> HIDE DEF b, op
<1>13. CASE k = 0
  <2>1. cl = a.closed
    BY <1>13
  <2>2. \A x \in 1..a.decl : x # k
    BY <1>13
  <2>4. b.closed = a.closed /\ Len(b.closed) = c
    BY <2>1, <1>5
  <2> HIDE DEF cl, c
  <2>3. VarsApart(b)
    BY <2>2, <2>4, <1>5, <1>7, <1>8, <1>9, <1>10, <1>11 DEF VarsApart
  <2> QED BY <1>5, <1>6, <2>3 DEF SameFn, b
<1>14. CASE k # 0
  <2>1. /\ Len(cl) = c + 1 /\ cl[c + 1] = k /\ \A j \in 1..c : cl[j] = a.closed[j]
    BY <1>14, <1>1, <1>3
  <2> HIDE DEF cl, c
  <2>2. \A j \in 1..(c + 1) : j \in 1..c \/ j = c + 1
    BY <1>1
  <2>0. c + 1 \in 1..(c + 1) /\ 1..c \subseteq 1..(c + 1)
    BY <1>1
  <2>3. \A j \in 1..Len(cl) : cl[j] <= a.decl
    BY <2>1, <2>2, <1>3, <1>10
  <2>4. \A j, i \in 1..Len(cl) : cl[j] = cl[i] => j = i
    BY <2>1, <2>2, <1>11, <1>12
  <2>5. \A j \in 1..Len(op), i \in 1..Len(cl) : op[j] # cl[i]
    BY <2>1, <2>2, <1>7, <1>14
  <2>6. \A x \in 1..a.decl : \/ \E j \in 1..Len(op) : op[j] = x
                             \/ \E j \in 1..Len(cl) : cl[j] = x
    BY <2>0, <2>1, <1>9
  <2>7. VarsApart(b)
    BY <2>3, <2>4, <2>5, <2>6, <1>5, <1>7, <1>8 DEF VarsApart
  <2> QED BY <1>5, <1>6, <2>7 DEF SameFn, b
<1> QED BY <1>13, <1>14

(* A function with other variables stands where it stood. *)
LEMMA SameFits ==
  ASSUME NEW rest, NEW a \in FnRec, NEW b, SameFn(a, b), Fits(rest, a), rest \in Seq(Act)
  PROVE  /\ a \in Act /\ a.kind = "fn" /\ ~Holds(a) /\ VarsApart(a)
         /\ b \in Act /\ b.kind = "fn" /\ ~Holds(b) /\ (IsFrame(a) <=> IsFrame(b)) /\ b.closes = a.closes
         /\ Fits(rest, b)
<1>1. /\ a \in Act /\ a.kind = "fn" /\ ~Holds(a) /\ VarsApart(a) /\ FitsFn(rest, a)
  BY DEF Act, FnRec, Holds, Fits, FitsFn
<1>2. /\ b \in Act /\ b.kind = "fn" /\ ~Holds(b) /\ (IsFrame(a) <=> IsFrame(b)) /\ b.closes = a.closes
      /\ VarsApart(b) /\ b.depth = a.depth /\ b.cost = a.cost
  BY <1>1 DEF SameFn, Act, Holds, IsFrame
<1>3. Frames(Append(rest, a)) = Frames(Append(rest, b))
  BY <1>1, <1>2, Grows
<1> QED BY <1>1, <1>2, <1>3 DEF Fits, FitsFn

(* local x <close>. *)
LEMMA DeclareStep ==
  ASSUME IInv, NEW closable \in BOOLEAN, Declare(closable)
  PROVE  IInv'
<1>1. /\ err = NoErr /\ stack # <<>> /\ Top.kind = "fn" /\ Top.closes
      /\ Len(Top.open) < MaxVars /\ (closable => Top.decl < MaxVars)
      /\ UNCHANGED <<depth, weights, cost, msgh, nest, err, newest>>
  BY DEF Declare, Running
<1>2. PICK rest, a : Stands(rest, a)
  BY <1>1, HasTop DEF IInv
<1>3. /\ a \in FnRec /\ rest \in Seq(Act) /\ stack = Append(rest, a) /\ Top = a /\ Fits(rest, a) /\ Sound(rest)
  BY <1>1, <1>2, Kinds DEF Stands
<1> DEFINE n == IF closable THEN a.decl + 1 ELSE a.decl
           k == IF closable THEN n ELSE 0
           b == Declaring(a, n, k)
<1>4. SameFn(a, b)
  <2>1. VarsApart(a)
    BY <1>1, <1>3 DEF Fits, FitsFn
  <2> QED BY <2>1, <1>1, <1>3, DeclaringKeeps
<1>5. /\ a \in Act /\ ~Holds(a) /\ a.kind = "fn"
      /\ b \in Act /\ b.kind = "fn" /\ ~Holds(b) /\ (IsFrame(a) <=> IsFrame(b))
      /\ Fits(rest, b)
  <2> HIDE DEF b
  <2> QED BY <1>3, <1>4, SameFits
<1>6. stack' = Append(rest, b)
  <2>1. stack' = DeclaredAs(stack, n, k)
    BY <1>3 DEF Declare, DeclaredAs
  <2> QED BY <2>1, <1>3, <1>5, DeclaredTop
<1> HIDE DEF b
<1>7. /\ Sound(stack') /\ Frames(stack') = Frames(stack) /\ HandlerCalls(stack') = HandlerCalls(stack)
      /\ Installed(stack') = Installed(stack) /\ stack'[Len(stack')] = b
      /\ Latest(stack', newest) <=> Latest(stack, newest)
  BY <1>3, <1>5, <1>6, Grows
<1>8. cost <= Budget
  BY <1>1 DEF IInv, Matches, Top
<1> QED BY <1>1, <1>5, <1>7, <1>8 DEF IInv, Matches, Top

(* The end of a scope, and the catch of an error: $close_upto begins. *)
LEMMA BeginClosing ==
  ASSUME NEW st \in Seq(Act), NEW f \in FnRec, Fits(st, f), Sound(st), f.closes,
         NEW a \in ClosingRec, a.depth = f.depth, a.cost <= Budget,
         a.unwinding => a.target = 0 /\ a.pending # NoErr /\ Roomy(a.cost),
         a.pending # NoErr => HandledBy(a.pending, Installed(st))
  PROVE  /\ a \in Act /\ a.kind = "closing" /\ ~IsFrame(a) /\ (Holds(a) <=> a.pending # NoErr)
         /\ Held(a) = a.pending.v
         /\ Sound(Append(Append(st, f), a))
<1>1. f \in Act /\ f.kind = "fn" /\ FitsFn(st, f) /\ f.depth \in Nat
  BY DEF Act, FnRec, Fits
<1>2. a.kind = "closing"
  BY DEF ClosingRec
<1>3. a \in Act /\ ~IsFrame(a) /\ (Holds(a) <=> a.pending # NoErr) /\ Held(a) = a.pending.v
  BY <1>2 DEF Act, IsFrame, Holds, Held
<1> DEFINE sf == Append(st, f)
<1>4. /\ sf # <<>> /\ sf[Len(sf)] = f /\ Installed(sf) = Installed(st) /\ sf \in Seq(Act) /\ Sound(sf)
      /\ Frames(sf) = f.depth
  BY <1>1, Grows DEF FitsFn
<1> HIDE DEF sf
<1>5. FitsClosing(sf, a)
  BY <1>1, <1>4 DEF FitsClosing
<1>6. Sound(Append(sf, a))
  BY <1>2, <1>3, <1>4, <1>5, Grows DEF Fits
<1> QED BY <1>2, <1>3, <1>6 DEF sf

(* Leaving a scope: no error is pending. *)
LEMMA LeaveScopeStep ==
  ASSUME IInv, NEW target \in 0..(MaxVars - 1), LeaveScope(target)
  PROVE  IInv'
<1> DEFINE a == Closing(target, NoErr, depth, cost, FALSE)
<1>1. /\ err = NoErr /\ stack # <<>> /\ Top.kind = "fn" /\ target < Len(Top.open)
      /\ stack' = Append(stack, a)
      /\ UNCHANGED <<depth, weights, cost, msgh, nest, err, newest>>
  BY DEF LeaveScope, Running
<1>2. PICK rest, f : Stands(rest, f)
  BY <1>1, HasTop DEF IInv
<1>3. /\ f \in FnRec /\ rest \in Seq(Act) /\ stack = Append(rest, f) /\ Top = f /\ Fits(rest, f) /\ Sound(rest)
      /\ FitsFn(rest, f)
  BY <1>1, <1>2, Kinds DEF Stands, Fits
<1>4. f.closes
  BY <1>1, <1>3, BoundsAssumption DEF FitsFn, VarsApart
<1>5. cost <= Budget /\ cost \in Int /\ depth = f.depth /\ stack \in Seq(Act) /\ f.kind = "fn"
  BY <1>1, <1>3 DEF IInv, Sound, Matches, Top, FitsFn
<1>6. target \in Nat /\ NoErr \in ErrRec /\ FALSE \in BOOLEAN
  BY BoundsAssumption DEF NoErr, ErrRec, ErrVals
<1>7. /\ a \in Act /\ a.kind = "closing" /\ ~IsFrame(a) /\ ~Holds(a)
      /\ Sound(stack')
  <2>1. a \in ClosingRec /\ a.depth = f.depth /\ a.cost = cost /\ a.pending = NoErr /\ a.unwinding = FALSE
    <3>1. depth \in Nat
      BY <1>3, <1>5 DEF FnRec
    <3> QED BY <3>1, <1>5, <1>6 DEF Closing, ClosingRec
  <2> HIDE DEF a
  <2> QED BY <2>1, <1>1, <1>3, <1>4, <1>5, BeginClosing
<1> HIDE DEF a
<1>8. /\ Frames(stack') = Frames(stack) /\ HandlerCalls(stack') = HandlerCalls(stack)
      /\ Installed(stack') = Installed(stack) /\ stack'[Len(stack')] = a
      /\ Latest(stack', newest) <=> Latest(stack, newest)
  BY <1>1, <1>5, <1>7, Grows
<1> QED BY <1>1, <1>7, <1>8 DEF IInv, Matches

(* The catch: the error is pending, and the cost is that at entry, less the *)
(* headroom.                                                                *)
LEMMA CatchInFnStep ==
  ASSUME IInv, CatchInFn
  PROVE  IInv'
<1> DEFINE c == Top.cost - Headroom
           a == Closing(0, err, Top.depth, c, TRUE)
<1>1. /\ err # NoErr /\ stack # <<>> /\ Top.kind = "fn" /\ Top.closes
      /\ stack' = Append(stack, a) /\ depth' = Top.depth /\ cost' = Top.cost /\ err' = NoErr
      /\ UNCHANGED <<weights, msgh, nest, newest>>
  BY DEF CatchInFn, Unwinding
<1>2. PICK rest, f : Stands(rest, f)
  BY <1>1, HasTop DEF IInv
<1>3. /\ f \in FnRec /\ rest \in Seq(Act) /\ stack = Append(rest, f) /\ Top = f /\ Fits(rest, f) /\ Sound(rest)
      /\ FitsFn(rest, f) /\ f \in Act /\ f.kind = "fn"
  BY <1>1, <1>2, Kinds DEF Stands, Fits
<1>4. f.cost \in Int /\ f.depth \in Nat /\ f.cost <= Budget /\ f.depth = Frames(stack) /\ f.depth <= MaxStack
  BY <1>3 DEF FnRec, FitsFn, IInv, Matches
<1>5. c \in Int /\ c <= Budget /\ Roomy(c)
  <2>1. c \in Int /\ c <= Budget
    BY <1>3, <1>4, BudgetAssumption
  <2>2. ASSUME NEW u \in Weights PROVE c + u <= Budget
    <3>1. u + u <= Headroom /\ u \in Nat
      BY HeadroomAssumption, WeightsAssumption
    <3> QED BY <3>1, <1>3, <1>4, BudgetAssumption
  <2> QED BY <2>1, <2>2 DEF Roomy
<1>6. Installed(stack) = Installed(rest) /\ stack \in Seq(Act)
  BY <1>3, Grows
<1>7. /\ err \in ErrRec /\ err.v = newest /\ HandledBy(err, msgh) /\ msgh = Installed(stack)
  BY <1>1 DEF IInv, Matches
<1>8. /\ a \in Act /\ a.kind = "closing" /\ ~IsFrame(a) /\ Holds(a) /\ Held(a) = newest
      /\ Sound(stack')
  <2>1. /\ a \in ClosingRec /\ a.depth = f.depth /\ a.cost = c /\ a.pending = err /\ a.target = 0
    BY <1>3, <1>4, <1>5, <1>7 DEF Closing, ClosingRec
  <2> HIDE DEF a, c
  <2> QED BY <2>1, <1>1, <1>3, <1>5, <1>6, <1>7, BeginClosing
<1> HIDE DEF a
<1>9. /\ Frames(stack') = Frames(stack) /\ HandlerCalls(stack') = HandlerCalls(stack)
      /\ Installed(stack') = Installed(stack) /\ stack'[Len(stack')] = a
      /\ Latest(stack', newest)
  BY <1>1, <1>6, <1>8, Grows
<1>10. NoErr \in ErrRec
  BY DEF NoErr, ErrRec, ErrVals
<1>11. depth' \in 0..MaxStack /\ cost' \in Int
  BY <1>1, <1>3, <1>4, BoundsAssumption
<1> QED BY <1>1, <1>8, <1>9, <1>10, <1>11 DEF IInv, Matches

(* $close_upto stands on a function with <close> variables. *)
LEMMA ClosingOn ==
  ASSUME Sound(stack), stack # <<>>, Top.kind = "closing"
  PROVE  \E rest, u, a :
            /\ rest \in Seq(Act) /\ u \in FnRec /\ u \in Act /\ a \in ClosingRec /\ a \in Act
            /\ stack = Append(Append(rest, u), a) /\ Top = a /\ Under = u
            /\ Dropped(1) = Append(rest, u) /\ Dropped(2) = rest
            /\ u.kind = "fn" /\ u.closes /\ ~Holds(u) /\ a.kind = "closing" /\ ~IsFrame(a)
            /\ Sound(rest) /\ Fits(rest, u) /\ VarsApart(u)
            /\ Append(rest, u) \in Seq(Act) /\ Sound(Append(rest, u)) /\ FitsClosing(Append(rest, u), a)
<1>1. PICK st, a : Stands(st, a)
  BY HasTop
<1>2. /\ a \in ClosingRec /\ a \in Act /\ a.kind = "closing" /\ ~IsFrame(a) /\ Top = a /\ Dropped(1) = st
      /\ FitsClosing(st, a) /\ st # <<>> /\ stack = Append(st, a) /\ Sound(st)
      /\ st[Len(st)].kind = "fn" /\ st[Len(st)].closes
  BY <1>1, Kinds DEF Stands, Fits, FitsClosing, IsFrame
<1>3. PICK rest, u : st = Append(rest, u) /\ Stands2(rest, u, a)
  BY <1>1, <1>2, HasUnder
<1>4. /\ rest \in Seq(Act) /\ u \in Act /\ Under = u /\ Dropped(2) = rest /\ Sound(rest) /\ Fits(rest, u)
      /\ Append(rest, u) \in Seq(Act)
  BY <1>3, Pushed DEF Stands2
<1>5. st[Len(st)] = u
  BY <1>3, <1>4, Pushed
<1>6. u \in FnRec /\ u.kind = "fn" /\ u.closes /\ ~Holds(u) /\ VarsApart(u)
  BY <1>2, <1>4, <1>5, Kinds DEF Fits, FitsFn, Holds
<1> QED BY <1>2, <1>3, <1>4, <1>6

(* Taking a variable off the list leaves the stack sound, and ready for     *)
(* what its __close does.                                                   *)
LEMMA PoppedReady ==
  ASSUME IInv, Running("closing"), Len(Under.open) > Top.target, NEW k, k = NextOpen
  PROVE  /\ Ready(Popped(k), Top.depth, Top.cost) /\ Top.cost <= Budget
         /\ \E b \in Act : Popped(k)[Len(Popped(k))] = b /\ b.kind = "closing"
<1>1. err = NoErr /\ stack # <<>> /\ Top.kind = "closing" /\ Sound(stack)
  BY DEF Running, IInv
<1>2. PICK rest, u, a :
            /\ rest \in Seq(Act) /\ u \in FnRec /\ u \in Act /\ a \in ClosingRec /\ a \in Act
            /\ stack = Append(Append(rest, u), a) /\ Top = a /\ Under = u
            /\ u.kind = "fn" /\ u.closes /\ ~Holds(u) /\ a.kind = "closing" /\ ~IsFrame(a)
            /\ Sound(rest) /\ Fits(rest, u) /\ VarsApart(u)
            /\ Append(rest, u) \in Seq(Act) /\ Sound(Append(rest, u)) /\ FitsClosing(Append(rest, u), a)
  BY <1>1, ClosingOn
<1> DEFINE v == Popping1(u, k)
           su == Append(rest, u)
           sv == Append(rest, v)
<1>3. SameFn(u, v)
  <2>1. Len(u.open) > 0 /\ k = u.open[Len(u.open)]
    BY <1>2 DEF NextOpen, ClosingRec, FnRec
  <2> QED BY <2>1, <1>2, PoppingKeeps
<1>4. /\ v \in Act /\ v.kind = "fn" /\ ~Holds(v) /\ (IsFrame(u) <=> IsFrame(v)) /\ v.closes = u.closes
      /\ Fits(rest, v)
  <2> HIDE DEF v
  <2> QED BY <1>2, <1>3, SameFits
<1>5. Popped(k) = Append(sv, a)
  <2>1. Popped(k) = PoppedAs(stack, k)
    BY DEF Popped, PoppedAs
  <2> QED BY <2>1, <1>2, <1>4, PoppedUnder
<1> HIDE DEF v
<1>6. /\ sv \in Seq(Act) /\ sv # <<>> /\ sv[Len(sv)] = v /\ Sound(sv) /\ Frames(sv) = Frames(su)
      /\ HandlerCalls(sv) = HandlerCalls(su) /\ Installed(sv) = Installed(su)
      /\ \A x : Latest(sv, x) <=> Latest(su, x)
  BY <1>2, <1>4, Grows
<1>7. FitsClosing(sv, a)
  BY <1>2, <1>4, <1>6 DEF FitsClosing
<1> HIDE DEF sv, su
<1>8. su \in Seq(Act) /\ stack = Append(su, a) /\ FitsClosing(su, a)
  BY <1>2 DEF su
<1>9. /\ Append(sv, a) # <<>> /\ Append(sv, a) \in Seq(Act) /\ Append(sv, a)[Len(Append(sv, a))] = a
      /\ Sound(Append(sv, a)) /\ Frames(Append(sv, a)) = Frames(stack) /\ Frames(stack) = Frames(su)
      /\ HandlerCalls(Append(sv, a)) = HandlerCalls(stack) /\ Installed(Append(sv, a)) = Installed(stack)
  BY <1>2, <1>6, <1>7, <1>8, Grows DEF Fits
<1>10. Latest(Append(sv, a), newest)
  <2>1. Latest(Append(su, a), newest)
    BY <1>1, <1>8 DEF IInv, Matches
  <2> QED BY <2>1, <1>2, <1>6, <1>8, Grows
<1>11. a.depth = Frames(stack) /\ a.cost <= Budget /\ a.cost \in Int
  BY <1>2, <1>8, <1>9 DEF FitsClosing, ClosingRec
<1> QED BY <1>1, <1>2, <1>5, <1>9, <1>10, <1>11 DEF IInv, Matches, Ready

(* $close_upto calls __close, or finds that it cannot. *)
LEMMA CloseNextStep ==
  ASSUME IInv, NEW w \in Weights, NEW closes \in Closers, CloseNext(w, closes)
  PROVE  IInv'
<1>1. /\ Running("closing") /\ Len(Under.open) > Top.target
      /\ Enter(Popped(NextOpen), Top.depth, Top.cost, w, closes)
  BY DEF CloseNext
<1>2. Ready(Popped(NextOpen), Top.depth, Top.cost)
  BY <1>1, PoppedReady
<1> QED BY <1>1, <1>2, EnterStep

(* The __close that cannot be called raises an error with the variable off  *)
(* the list.                                                                *)
LEMMA CloseFailsStep ==
  ASSUME IInv, NEW v \in Errors, CloseFails(v)
  PROVE  IInv'
<1>1. /\ Running("closing") /\ Len(Under.open) > Top.target
      /\ Raise(Popped(NextOpen), Top.depth, Top.cost, v) /\ weights' = weights
  BY DEF CloseFails
<1>2. Ready(Popped(NextOpen), Top.depth, Top.cost) /\ Top.cost <= Budget
  BY <1>1, PoppedReady
<1>3. Top.cost \in Int
  BY <1>2 DEF Ready
<1>4. Roomy(Top.cost - Headroom)
  <2> SUFFICES ASSUME NEW u \in Weights PROVE (Top.cost - Headroom) + u <= Budget
    BY DEF Roomy
  <2>1. u + u <= Headroom /\ u \in Nat
    BY HeadroomAssumption, WeightsAssumption
  <2> QED BY <2>1, <1>2, <1>3, BudgetAssumption
<1>5. Sound(stack') /\ Matches(stack', depth', cost', msgh', nest', err', newest')
  BY <1>1, <1>2, <1>3, <1>4, RaiseStep
<1> QED BY <1>1, <1>5 DEF IInv

(* A value that is nil or false is skipped. *)
LEMMA CloseSkipsStep ==
  ASSUME IInv, CloseSkips
  PROVE  IInv'
<1>1. /\ Running("closing") /\ Len(Under.open) > Top.target /\ NextOpen = 0
      /\ stack' = Popped(NextOpen)
      /\ UNCHANGED <<depth, weights, cost, msgh, nest, err, newest>>
  BY DEF CloseSkips
<1>2. Ready(stack', Top.depth, Top.cost) /\ stack'[Len(stack')].kind = "closing"
  BY <1>1, PoppedReady
<1>3. stack # <<>> /\ err = NoErr
  BY <1>1 DEF Running
<1> QED BY <1>1, <1>2, <1>3 DEF IInv, Matches, Ready

(* $close_upto is done: nothing is pending and the function goes on, or the *)
(* newest error goes on unwinding.                                          *)
LEMMA CloseDoneStep ==
  ASSUME IInv, CloseDone
  PROVE  IInv'
<1>1. /\ err = NoErr /\ stack # <<>> /\ Top.kind = "closing" /\ Sound(stack)
      /\ stack' = Dropped(IF Top.unwinding THEN 2 ELSE 1)
      /\ depth' = Top.depth /\ cost' = Top.cost /\ err' = Top.pending
      /\ UNCHANGED <<weights, msgh, nest, newest>>
  BY DEF CloseDone, Running, IInv
<1>2. PICK rest, u, a :
            /\ rest \in Seq(Act) /\ u \in FnRec /\ u \in Act /\ a \in ClosingRec /\ a \in Act
            /\ stack = Append(Append(rest, u), a) /\ Top = a
            /\ Dropped(1) = Append(rest, u) /\ Dropped(2) = rest
            /\ u.kind = "fn" /\ ~Holds(u) /\ a.kind = "closing" /\ ~IsFrame(a)
            /\ Sound(rest)
            /\ Append(rest, u) \in Seq(Act) /\ Sound(Append(rest, u)) /\ FitsClosing(Append(rest, u), a)
  BY <1>1, ClosingOn
<1> DEFINE su == Append(rest, u)
<1>3. /\ su # <<>> /\ su[Len(su)] = u /\ Frames(rest) \in Nat /\ Frames(su) = Frames(rest) + (IF IsFrame(u) THEN 1 ELSE 0)
      /\ HandlerCalls(su) = HandlerCalls(rest) /\ Installed(su) = Installed(rest)
      /\ \A x : Latest(su, x) <=> Latest(rest, x)
  BY <1>2, Grows
<1>4. su \in Seq(Act) /\ stack = Append(su, a) /\ FitsClosing(su, a) /\ Sound(su) /\ Dropped(1) = su
  BY <1>2
<1> HIDE DEF su
<1>5. /\ Frames(stack) = Frames(su) /\ HandlerCalls(stack) = HandlerCalls(su) /\ Installed(stack) = Installed(su)
      /\ a.depth = Frames(stack) /\ a.cost <= Budget /\ a.cost \in Int /\ a.pending \in ErrRec
      /\ a.unwinding \in BOOLEAN
  BY <1>2, <1>4, Grows DEF FitsClosing, ClosingRec
<1>6. a.pending # NoErr => a.pending.v = newest
  <2>1. Latest(stack, newest)
    BY <1>1 DEF IInv, Matches
  <2>2. a.pending # NoErr => Holds(a) /\ Held(a) = a.pending.v
    BY <1>2 DEF Holds, Held
  <2> QED BY <2>1, <2>2, <1>2, <1>4, Grows
<1>7. a.pending = NoErr => Latest(su, newest)
  <2>1. Latest(stack, newest)
    BY <1>1 DEF IInv, Matches
  <2>2. a.pending = NoErr => ~Holds(a)
    BY <1>2 DEF Holds
  <2> QED BY <2>1, <2>2, <1>2, <1>4, Grows
<1>8. a.pending # NoErr => HandledBy(a.pending, msgh)
  BY <1>5, <1>4 DEF FitsClosing, IInv, Matches
<1>9. depth' \in 0..MaxStack
  <2>1. Frames(stack) <= MaxStack
    BY DEF IInv, Matches
  <2> QED BY <2>1, <1>1, <1>2, <1>3, <1>5, BoundsAssumption
<1>10. CASE a.unwinding
  <2>1. stack' = rest /\ a.pending # NoErr
    BY <1>1, <1>2, <1>4, <1>10 DEF FitsClosing
  <2>2. Frames(rest) <= MaxStack
    <3>1. Frames(su) <= MaxStack
      BY <1>5 DEF IInv, Matches
    <3> QED BY <3>1, <1>3, BoundsAssumption
  <2> QED BY <2>1, <2>2, <1>1, <1>2, <1>3, <1>5, <1>6, <1>8, <1>9 DEF IInv, Matches
<1>11. CASE ~a.unwinding
  <2>1. stack' = su
    BY <1>1, <1>2, <1>4, <1>11
  <2> QED BY <2>1, <1>1, <1>2, <1>3, <1>4, <1>5, <1>6, <1>7, <1>8, <1>9 DEF IInv, Matches
<1> QED BY <1>10, <1>11

(* An error passes a function without a catch, and a handler. *)
LEMMA UnwindSteps ==
  ASSUME IInv, UnwindFn \/ HandlerRaised
  PROVE  IInv'
<1>1. /\ err # NoErr /\ stack # <<>> /\ Top.kind \in {"fn", "handler"} /\ Sound(stack)
      /\ stack' = Dropped(1)
      /\ nest' = (IF Top.kind = "handler" THEN nest - 1 ELSE nest)
      /\ cost' = (IF Top.kind = "handler" THEN cost + Lent(Top.outer) ELSE cost)
      /\ UNCHANGED <<depth, weights, msgh, err, newest>>
  BY DEF UnwindFn, HandlerRaised, Unwinding, IInv
<1>2. PICK rest, a : Stands(rest, a)
  BY <1>1, HasTop
<1>3. /\ rest \in Seq(Act) /\ a \in Act /\ stack = Append(rest, a) /\ Top = a /\ Dropped(1) = rest /\ Sound(rest)
  BY <1>2 DEF Stands
<1>4. /\ Frames(rest) \in Nat /\ Frames(rest) <= Frames(stack) /\ Installed(rest) = Installed(stack)
      /\ HandlerCalls(rest) = (IF a.kind = "handler" THEN HandlerCalls(stack) - 1 ELSE HandlerCalls(stack))
      /\ HandlerCalls(rest) \in Nat
  BY <1>1, <1>3, Grows
<1>5. /\ nest = HandlerCalls(stack) /\ nest <= MaxNest /\ Frames(stack) <= MaxStack /\ cost \in Int
      /\ MaxStack \in Nat /\ Frames(stack) \in Int /\ MaxNest \in Nat
  <2>1. Frames(stack) \in Int
    BY <1>3, FramesPushed, Pushed
  <2> QED BY <2>1, BoundsAssumption, BudgetAssumption DEF IInv, Matches
<1>6. cost' \in Int
  BY <1>1, <1>5, BudgetAssumption DEF Lent
<1>7. nest' = HandlerCalls(rest) /\ nest' <= MaxNest /\ Frames(rest) <= MaxStack
  <2>1. HandlerCalls(rest) \in Nat /\ HandlerCalls(stack) \in Int
    BY <1>3, <1>4, Grows
  <2>2. nest' = HandlerCalls(rest)
    BY <1>1, <1>3, <1>4, <1>5
  <2>3. HandlerCalls(rest) <= MaxNest
    BY <2>1, <1>4, <1>5
  <2> QED BY <2>2, <2>3, <1>4, <1>5
<1> QED BY <1>1, <1>3, <1>4, <1>6, <1>7 DEF IInv, Matches

(* The error becomes the one that $close_upto keeps. *)
LEMMA CatchInCloseStep ==
  ASSUME IInv, CatchInClose
  PROVE  IInv'
<1>1. /\ err # NoErr /\ stack # <<>> /\ Top.kind = "closing" /\ Sound(stack)
      /\ stack' = [stack EXCEPT ![Len(stack)].pending = err] /\ err' = NoErr
      /\ UNCHANGED <<depth, weights, cost, msgh, nest, newest>>
  BY DEF CatchInClose, Unwinding, IInv
<1>2. PICK rest, u, a :
            /\ rest \in Seq(Act) /\ u \in FnRec /\ u \in Act /\ a \in ClosingRec /\ a \in Act
            /\ stack = Append(Append(rest, u), a) /\ Top = a
            /\ a.kind = "closing" /\ ~IsFrame(a)
            /\ Append(rest, u) \in Seq(Act) /\ Sound(Append(rest, u)) /\ FitsClosing(Append(rest, u), a)
  BY <1>1, ClosingOn
<1> DEFINE su == Append(rest, u)
           b == [a EXCEPT !.pending = err]
<1>3. su \in Seq(Act) /\ stack = Append(su, a) /\ FitsClosing(su, a) /\ Sound(su)
  BY <1>2
<1>4. err \in ErrRec /\ err.v = newest /\ HandledBy(err, msgh) /\ msgh = Installed(stack)
  BY <1>1 DEF IInv, Matches
<1>5. /\ b \in ClosingRec /\ b.kind = "closing" /\ b.target = a.target /\ b.pending = err /\ b.depth = a.depth
      /\ b.cost = a.cost /\ b.unwinding = a.unwinding
  BY <1>2, <1>4 DEF ClosingRec
<1>6. b \in Act /\ ~IsFrame(b) /\ Holds(b) /\ Held(b) = newest
  BY <1>1, <1>4, <1>5 DEF Act, IsFrame, Holds, Held
<1>7. stack' = [stack EXCEPT ![Len(stack)] = b] /\ Len(stack) = Len(su) + 1
  BY <1>1, <1>2, <1>3, Grows DEF Top
<1> HIDE DEF su, b
<1>8. stack' = Append(su, b)
  BY <1>2, <1>3, <1>6, <1>7, TopReplaced
<1>9. Installed(su) = Installed(stack)
  BY <1>2, <1>3, Grows
<1>10. FitsClosing(su, b)
  BY <1>1, <1>3, <1>4, <1>5, <1>9 DEF FitsClosing
<1>11. /\ Sound(stack') /\ Frames(stack') = Frames(stack) /\ HandlerCalls(stack') = HandlerCalls(stack)
       /\ Installed(stack') = Installed(stack) /\ Latest(stack', newest) /\ stack'[Len(stack')] = b
  BY <1>2, <1>3, <1>5, <1>6, <1>8, <1>10, Grows DEF Fits
<1>12. NoErr \in ErrRec
  BY DEF NoErr, ErrRec, ErrVals
<1> QED BY <1>1, <1>5, <1>11, <1>12 DEF IInv, Matches

(* What a function that returns leaves, and the frame it takes off. *)
LEMMA FnOnTop ==
  ASSUME IInv, Running("fn")
  PROVE  \E rest, a :
            /\ rest \in Seq(Act) /\ a \in FnRec /\ a \in Act /\ stack = Append(rest, a) /\ Top = a
            /\ Dropped(1) = rest /\ Sound(rest) /\ a.kind = "fn" /\ ~Holds(a) /\ (IsFrame(a) <=> a.framed)
            /\ Stands(rest, a)
            /\ depth = Frames(stack) /\ depth \in 0..MaxStack /\ PopDepth = Frames(rest) /\ Frames(rest) \in Nat
            /\ Frames(rest) <= MaxStack
            /\ cost \in Int /\ cost <= Budget /\ PopCost \in Int /\ PopCost <= Budget
            /\ HandlerCalls(rest) = nest /\ nest \in Nat /\ Installed(rest) = msgh /\ Latest(rest, newest)
<1>1. err = NoErr /\ stack # <<>> /\ Top.kind = "fn" /\ Sound(stack)
  BY DEF Running, IInv
<1>2. PICK rest, a : Stands(rest, a)
  BY <1>1, HasTop
<1>3. /\ rest \in Seq(Act) /\ a \in FnRec /\ a \in Act /\ stack = Append(rest, a) /\ Top = a
      /\ Dropped(1) = rest /\ Sound(rest) /\ a.kind = "fn" /\ ~Holds(a) /\ (IsFrame(a) <=> a.framed)
  BY <1>1, <1>2, Kinds DEF Stands, Holds, IsFrame
<1>4. /\ depth = Frames(stack) /\ depth \in 0..MaxStack /\ cost \in Int /\ cost <= Budget
      /\ nest = HandlerCalls(stack) /\ msgh = Installed(stack) /\ Latest(stack, newest)
      /\ weights \in [1..MaxStack -> Nat]
  BY <1>1 DEF IInv, Matches, Top
<1>5. /\ Frames(rest) \in Nat /\ depth = Frames(rest) + (IF a.framed THEN 1 ELSE 0)
      /\ HandlerCalls(rest) = nest /\ nest \in Nat /\ Installed(rest) = msgh /\ Latest(rest, newest)
  BY <1>3, <1>4, Grows
<1>6. PopDepth = Frames(rest) /\ Frames(rest) <= MaxStack
  BY <1>3, <1>4, <1>5, BoundsAssumption DEF PopDepth
<1>7. PopCost \in Int /\ PopCost <= Budget
  <2>1. CASE a.framed
    <3>1. depth \in 1..MaxStack /\ weights[depth] \in Nat
      BY <2>1, <1>4, <1>5, BoundsAssumption
    <3> QED BY <2>1, <3>1, <1>3, <1>4, BudgetAssumption DEF PopCost
  <2>2. CASE ~a.framed
    BY <2>2, <1>3, <1>4 DEF PopCost
  <2> QED BY <2>1, <2>2
<1> QED BY <1>2, <1>3, <1>4, <1>5, <1>6, <1>7

(* To Lua code or to $close_upto. *)
LEMMA ReturnStep ==
  ASSUME IInv, Return
  PROVE  IInv'
<1>1. /\ Running("fn") /\ (Len(stack) > 1 => Under.kind \in {"fn", "closing"})
      /\ stack' = Dropped(1) /\ depth' = PopDepth /\ cost' = PopCost
      /\ UNCHANGED <<weights, msgh, nest, err, newest>>
  BY DEF Return
<1>2. PICK rest, a :
            /\ rest \in Seq(Act) /\ Dropped(1) = rest /\ Sound(rest) /\ Stands(rest, a)
            /\ PopDepth = Frames(rest) /\ Frames(rest) \in Nat
            /\ Frames(rest) <= MaxStack
            /\ PopCost \in Int /\ PopCost <= Budget
            /\ HandlerCalls(rest) = nest /\ nest \in Nat /\ Installed(rest) = msgh /\ Latest(rest, newest)
  BY <1>1, FnOnTop
<1>3. rest # <<>> => rest[Len(rest)].kind \in {"fn", "closing"}
  <2> SUFFICES ASSUME rest # <<>> PROVE rest[Len(rest)].kind \in {"fn", "closing"}
    OBVIOUS
  <2>1. PICK r, u : rest = Append(r, u) /\ Stands2(r, u, a)
    BY <1>2, HasUnder
  <2>2. r \in Seq(Act) /\ u \in Act /\ Under = u /\ Len(stack) = Len(r) + 2
    BY <2>1 DEF Stands2
  <2> QED BY <2>1, <2>2, <1>1, Pushed
<1>4. Frames(rest) \in 0..MaxStack
  BY <1>2, BoundsAssumption
<1> QED BY <1>1, <1>2, <1>3, <1>4 DEF IInv, Matches, Running

(* A protected call puts back what it saved, when its callee returns *)
LEMMA LeavePcall ==
  ASSUME NEW st, NEW p, st \in Seq(Act), p \in Act, p.kind = "pcall", Sound(st), Fits(st, p),
         NEW d \in 0..MaxStack, d = Frames(st), NEW c \in Int, c <= Budget,
         nest = HandlerCalls(st), IInv
  PROVE  Matches(st, d, c, p.msgh, nest, NoErr, p.newest)
<1>1. FitsPcall(st, p) /\ p \in PcallRec
  BY Kinds DEF Fits
<1>2. NoErr \in ErrRec /\ p.newest \in ErrVals
  BY <1>1 DEF NoErr, ErrRec, ErrVals, PcallRec
<1> QED BY <1>1, <1>2, BoundsAssumption DEF FitsPcall, IInv, Matches

(* The return of its callee. *)
LEMMA ReturnToPcallStep ==
  ASSUME IInv, ReturnToPcall
  PROVE  IInv'
<1>1. /\ Running("fn") /\ Len(stack) > 1 /\ Under.kind = "pcall"
      /\ stack' = Dropped(2) /\ msgh' = Under.msgh /\ newest' = Under.newest
      /\ depth' = PopDepth - 1 /\ cost' = PopCost - weights[PopDepth]
      /\ UNCHANGED <<weights, nest, err>>
  BY DEF ReturnToPcall
<1>2. PICK rest, a :
            /\ rest \in Seq(Act) /\ Stands(rest, a) /\ stack = Append(rest, a) /\ a \in Act
            /\ PopDepth = Frames(rest) /\ Frames(rest) \in Nat
            /\ Frames(rest) <= MaxStack
            /\ PopCost \in Int /\ PopCost <= Budget
            /\ HandlerCalls(rest) = nest /\ nest \in Nat
  BY <1>1, FnOnTop
<1>3. rest # <<>>
  <2>1. Len(stack) = Len(rest) + 1
    BY <1>2, Pushed
  <2>2. Len(<<>>) = 0
    OBVIOUS
  <2> QED BY <2>1, <2>2, <1>1
<1>4. PICK st, p : rest = Append(st, p) /\ Stands2(st, p, a)
  BY <1>2, <1>3, HasUnder
<1>5. st \in Seq(Act) /\ p \in Act /\ p.kind = "pcall" /\ Under = p /\ Dropped(2) = st /\ Sound(st) /\ Fits(st, p)
  BY <1>1, <1>4 DEF Stands2
<1>6. Frames(rest) = Frames(st) + 1 /\ HandlerCalls(st) = nest /\ Frames(st) \in Nat
  BY <1>2, <1>4, <1>5, Grows DEF IsFrame
<1>7. depth' = Frames(st) /\ depth' \in 0..MaxStack
  BY <1>1, <1>2, <1>6, BoundsAssumption
<1>8. cost' \in Int /\ cost' <= Budget
  <2>1. PopDepth \in 1..MaxStack /\ weights[PopDepth] \in Nat
    BY <1>2, <1>6, BoundsAssumption DEF IInv
  <2> QED BY <2>1, <1>1, <1>2, BudgetAssumption
<1>9. Matches(st, depth', cost', p.msgh, nest, NoErr, p.newest)
  BY <1>5, <1>6, <1>7, <1>8, LeavePcall
<1> QED BY <1>1, <1>5, <1>9 DEF IInv, Running

(* and when it catches an error. *)
LEMMA CatchInPcallStep ==
  ASSUME IInv, CatchInPcall
  PROVE  IInv'
<1>1. /\ err # NoErr /\ stack # <<>> /\ Top.kind = "pcall" /\ Sound(stack)
      /\ stack' = Dropped(1) /\ depth' = Top.depth - 1 /\ cost' = Top.cost - weights[Top.depth]
      /\ msgh' = Top.msgh /\ nest' = Top.nest /\ newest' = Top.newest /\ err' = NoErr
      /\ weights' = weights
  BY DEF CatchInPcall, Unwinding, IInv
<1>2. PICK st, p : Stands(st, p)
  BY <1>1, HasTop
<1>3. /\ st \in Seq(Act) /\ p \in Act /\ stack = Append(st, p) /\ Top = p /\ Dropped(1) = st /\ Sound(st)
      /\ p.kind = "pcall" /\ Fits(st, p) /\ FitsPcall(st, p) /\ p \in PcallRec
  BY <1>1, <1>2, Kinds DEF Stands, Fits
<1>4. Frames(stack) = Frames(st) + 1 /\ HandlerCalls(st) = HandlerCalls(stack) /\ Frames(st) \in Nat
      /\ nest = HandlerCalls(stack) /\ Frames(stack) <= MaxStack
  BY <1>3, Grows DEF IsFrame, IInv, Matches
<1>5. /\ p.depth = Frames(st) + 1 /\ p.cost <= Budget /\ p.cost \in Int /\ p.nest = nest
  BY <1>3, <1>4 DEF FitsPcall, PcallRec
<1>6. depth' = Frames(st) /\ depth' \in 0..MaxStack
  BY <1>1, <1>3, <1>4, <1>5, BoundsAssumption
<1>7. cost' \in Int /\ cost' <= Budget
  <2>1. p.depth \in 1..MaxStack /\ weights[p.depth] \in Nat
    BY <1>4, <1>5, BoundsAssumption DEF IInv
  <2> QED BY <2>1, <1>1, <1>3, <1>5, BudgetAssumption
<1>8. Matches(st, depth', cost', p.msgh, nest, NoErr, p.newest)
  BY <1>3, <1>4, <1>6, <1>7, LeavePcall
<1> QED BY <1>1, <1>3, <1>5, <1>8 DEF IInv

(* The message handler returns what the error now carries. *)
LEMMA ReturnToRaisedStep ==
  ASSUME IInv, ReturnToRaised
  PROVE  IInv'
<1>1. /\ Running("fn") /\ Len(stack) > 1 /\ Under.kind = "handler"
      /\ stack' = Dropped(2) /\ nest' = nest - 1
      /\ depth' = PopDepth /\ cost' = PopCost + Lent(Under.outer)
      /\ err' = [Under.arg EXCEPT !.handled = @ + 1]
      /\ UNCHANGED <<weights, msgh, newest>>
  BY DEF ReturnToRaised
<1>2. PICK rest, a :
            /\ rest \in Seq(Act) /\ Stands(rest, a) /\ stack = Append(rest, a) /\ a \in Act
            /\ PopDepth = Frames(rest) /\ Frames(rest) \in Nat
            /\ Frames(rest) <= MaxStack
            /\ PopCost \in Int /\ PopCost <= Budget
            /\ HandlerCalls(rest) = nest /\ nest \in Nat /\ Installed(rest) = msgh /\ Latest(rest, newest)
  BY <1>1, FnOnTop
<1>3. rest # <<>>
  <2>1. Len(stack) = Len(rest) + 1
    BY <1>2, Pushed
  <2>2. Len(<<>>) = 0
    OBVIOUS
  <2> QED BY <2>1, <2>2, <1>1
<1>4. PICK st, h : rest = Append(st, h) /\ Stands2(st, h, a)
  BY <1>2, <1>3, HasUnder
<1>5. /\ st \in Seq(Act) /\ h \in Act /\ h.kind = "handler" /\ Under = h /\ Dropped(2) = st /\ Sound(st)
      /\ Fits(st, h) /\ FitsHandler(st, h) /\ h \in HandlerRec
  BY <1>1, <1>4, Kinds DEF Stands2, Fits
<1>6. ~IsFrame(h) /\ Holds(h) /\ Held(h) = h.arg.v
  BY <1>5 DEF IsFrame, Holds, Held
<1>7. /\ Frames(st) = Frames(rest) /\ HandlerCalls(rest) = HandlerCalls(st) + 1 /\ HandlerCalls(st) \in Nat
      /\ Installed(st) = msgh /\ h.arg.v = newest
  BY <1>2, <1>4, <1>5, <1>6, Grows
<1>8. /\ err' = [v |-> newest, handled |-> 1] /\ err' \in ErrRec /\ err' # NoErr
  <2>1. h.arg \in ErrRec /\ h.arg.handled = 0
    BY <1>5 DEF FitsHandler, HandlerRec
  <2>2. err' = [v |-> newest, handled |-> 1]
    BY <2>1, <1>1, <1>5, <1>7 DEF ErrRec
  <2>3. newest \in ErrVals
    BY DEF IInv, Matches
  <2> QED BY <2>2, <2>3 DEF ErrRec, NoErr
<1>9. HandledBy(err', msgh) /\ err'.v = newest
  BY <1>5, <1>7, <1>8 DEF FitsHandler, HandledBy
<1>10. cost' \in Int /\ depth' \in 0..MaxStack
  BY <1>1, <1>2, BoundsAssumption, BudgetAssumption DEF Lent
<1>11. nest' = HandlerCalls(st) /\ nest' <= MaxNest
  <2>1. nest <= MaxNest /\ MaxNest \in Nat
    BY BudgetAssumption DEF IInv, Matches
  <2> QED BY <2>1, <1>1, <1>2, <1>7
<1>12. newest \in ErrVals
  BY DEF IInv, Matches
<1> QED BY <1>1, <1>2, <1>5, <1>7, <1>8, <1>9, <1>10, <1>11, <1>12 DEF IInv, Matches
-----------------------------------------------------------------------------
(* The main chunk alone, with nothing installed. *)
LEMMA InitInv == Init => IInv
<1> SUFFICES ASSUME Init PROVE IInv
  OBVIOUS
<1>1. PICK closes \in Closers : stack = <<Fn(0, FALSE, closes, 0, 0)>>
  BY DEF Init
<1> DEFINE a == Fn(0, FALSE, closes, 0, 0)
<1>2. IsNewFn(a, FALSE, 0, 0)
  <2>1. closes \in BOOLEAN /\ FALSE \in BOOLEAN /\ 0 \in Nat /\ 0 \in Int
    BY ClosersBoolean
  <2> QED BY <2>1, NewFn, Zenon
<1> HIDE DEF a
<1>3. a \in Act /\ a.kind = "fn" /\ ~IsFrame(a) /\ ~Holds(a)
  BY <1>2 DEF IsNewFn, IsFrame, Holds
<1> DEFINE none == <<>>
<1>4. /\ stack = Append(none, a) /\ none \in Seq(Act)
      /\ Sound(none) /\ Frames(none) = 0 /\ HandlerCalls(none) = 0
      /\ Installed(none) = NoHandler /\ \A v : Latest(none, v)
  BY <1>1, EmptyStack DEF a
<1> HIDE DEF none
<1>5. Fits(none, a)
  BY <1>2, <1>3, <1>4, Grows, BudgetAssumption DEF IsNewFn, Fits, FitsFn
<1>6. /\ Sound(stack) /\ Frames(stack) = 0 /\ HandlerCalls(stack) = 0
      /\ Installed(stack) = NoHandler /\ Latest(stack, newest) /\ stack[Len(stack)] = a
  <2>1. none \in Seq(Act) /\ a \in Act
    BY <1>3, <1>4
  <2>2. Sound(Append(none, a)) /\ Append(none, a)[Len(Append(none, a))] = a
    BY <2>1, <1>4, <1>5, Grows
  <2>3. Frames(Append(none, a)) = 0 /\ HandlerCalls(Append(none, a)) = 0
    <3>1. Frames(Append(none, a)) = Frames(none) + (IF IsFrame(a) THEN 1 ELSE 0)
      BY <2>1, FramesPushed, Zenon
    <3>2. HandlerCalls(Append(none, a)) = HandlerCalls(none) + (IF a.kind = "handler" THEN 1 ELSE 0)
      BY <2>1, HandlerCallsPushed, Zenon
    <3>3. ~IsFrame(a) /\ a.kind # "handler" /\ Frames(none) = 0 /\ HandlerCalls(none) = 0
      BY <1>3, <1>4
    <3> QED BY <3>1, <3>2, <3>3
  <2>4. Installed(Append(none, a)) = NoHandler
    BY <2>1, <1>3, <1>4, InstalledPushed
  <2>5. Latest(Append(none, a), newest)
    BY <2>1, <1>3, <1>4, LatestPushed
  <2> QED BY <1>4, <2>2, <2>3, <2>4, <2>5
<1>7. /\ depth = 0 /\ cost = 0 /\ weights \in [1..MaxStack -> Nat] /\ msgh = NoHandler /\ nest = 0
      /\ err = NoErr /\ newest = "none" /\ NoErr \in ErrRec /\ newest \in ErrVals
  BY DEF Init, NoErr, ErrRec, ErrVals
<1> QED BY <1>3, <1>6, <1>7, BudgetAssumption, BoundsAssumption DEF IInv, Matches

(* Every operation keeps the invariant. *)
LEMMA NextInv == IInv /\ [Next]_vars => IInv'
<1> SUFFICES ASSUME IInv, [Next]_vars PROVE IInv'
  OBVIOUS
<1>1. CASE UNCHANGED vars
  BY <1>1 DEF vars, IInv
<1>2. ASSUME NEW w \in Weights, NEW closes \in Closers,
             \/ Call(w, closes) \/ TailCall(w, closes)
             \/ CallProtected(w, closes) \/ CallHandler(w, closes)
             \/ CloseNext(w, closes)
      PROVE  IInv'
  BY <1>2, CallSteps, TailCallStep, CloseNextStep
<1>3. ASSUME NEW w \in Frameless, NEW closes \in Closers, CallFrameless(w, closes)
      PROVE  IInv'
  BY <1>3, CallFramelessStep
<1>4. ASSUME NEW v \in Errors, Error(v) \/ CallsNoFunction(v) \/ CloseFails(v)
      PROVE  IInv'
  BY <1>4, ErrorSteps, CloseFailsStep
<1>5. ASSUME NEW closable \in BOOLEAN, Declare(closable)
      PROVE  IInv'
  BY <1>5, DeclareStep
<1>6. ASSUME NEW target \in 0..(MaxVars - 1), LeaveScope(target)
      PROVE  IInv'
  BY <1>6, LeaveScopeStep
<1>7. ASSUME NEW w \in Weights, NEW h \in Handlers \cup {NoHandler}, Pcall(w, h)
      PROVE  IInv'
  BY <1>7, PcallStep
<1>8. ASSUME Return \/ ReturnToPcall \/ ReturnToRaised
      PROVE  IInv'
  BY <1>8, ReturnStep, ReturnToPcallStep, ReturnToRaisedStep
<1>9. ASSUME CloseSkips \/ CloseDone
      PROVE  IInv'
  BY <1>9, CloseSkipsStep, CloseDoneStep
<1>10. ASSUME UnwindFn \/ CatchInFn \/ CatchInClose \/ HandlerRaised \/ CatchInPcall
      PROVE  IInv'
  BY <1>10, UnwindSteps, CatchInFnStep, CatchInCloseStep, CatchInPcallStep
<1> QED BY <1>1, <1>2, <1>3, <1>4, <1>5, <1>6, <1>7, <1>8, <1>9, <1>10 DEF Next

(* The invariant holds throughout. *)
LEMMA Invariant == Spec => []IInv
  BY InitInv, NextInv, PTL DEF Spec
-----------------------------------------------------------------------------
(* What the invariant says.  Each activation of a sound stack is typed and  *)
(* fits the ones below it.                                                  *)
LEMMA EachFits ==
  ASSUME IInv, NEW i \in 1..Len(stack)
  PROVE  /\ stack[i] \in Act
         /\ stack[i].kind = "fn" => VarsApart(stack[i]) /\ stack[i] \in FnRec
         /\ stack[i].kind = "closing" => i > 1 /\ stack[i - 1].kind = "fn" /\ stack[i - 1].closes
<1>1. stack \in Seq(Act) /\ Fits(SubSeq(stack, 1, i - 1), stack[i])
  BY DEF IInv, Sound
<1>2. stack[i] \in Act
  BY <1>1
<1>3. stack[i].kind = "fn" => VarsApart(stack[i]) /\ stack[i] \in FnRec
  BY <1>1, <1>2, Kinds DEF Fits, FitsFn
<1>4. ASSUME stack[i].kind = "closing"
      PROVE  i > 1 /\ stack[i - 1].kind = "fn" /\ stack[i - 1].closes
  <2> DEFINE st == SubSeq(stack, 1, i - 1)
  <2>1. st # <<>> /\ st[Len(st)].kind = "fn" /\ st[Len(st)].closes
    BY <1>1, <1>4 DEF Fits, FitsClosing
  <2>2. i \in Nat /\ i >= 1 /\ i <= Len(stack) /\ Len(stack) \in Nat
    BY <1>1
  <2>3. i # 1
    BY <2>1, <1>1, SubSeqEmpty
  <2>4. Len(st) = i - 1 /\ st[i - 1] = stack[i - 1]
    BY <2>2, <2>3, <1>1
  <2> QED BY <2>1, <2>2, <2>3, <2>4
<1> QED BY <1>2, <1>3, <1>4

(* Types. *)
LEMMA InvTypes == IInv => TypeOK
<1> SUFFICES ASSUME IInv PROVE TypeOK
  OBVIOUS
<1>1. stack \in Seq(Act)
  BY DEF IInv, Sound
<1>2. stack \in Seq(FnRec \cup PcallRec \cup HandlerRec \cup ClosingRec)
  BY <1>1 DEF Act
<1>3. msgh \in Handlers \cup {NoHandler}
  BY <1>1, InstalledType DEF IInv, Matches
<1>4. nest \in 0..MaxNest
  <2>1. HandlerCalls(stack) \in Nat
    BY <1>1, EmptyStack, HandlerCallsPushed
  <2> QED BY <2>1, BudgetAssumption DEF IInv, Matches
<1>5. \A i \in 1..Len(stack) : stack[i].kind = "closing" =>
         i > 1 /\ stack[i - 1].kind = "fn" /\ stack[i - 1].closes
  BY EachFits
<1> QED BY <1>2, <1>3, <1>4, <1>5 DEF TypeOK, IInv, Matches

(* The handler installed and the nesting are those of the stack, and an     *)
(* error has been through the handler.                                      *)
LEMMA InvHandlers == IInv => HandlersRight
<1> SUFFICES ASSUME IInv PROVE HandlersRight
  OBVIOUS
<1>1. HandlerStateMatches
  <2>1. msgh = Installed(stack) /\ nest = HandlerCalls(stack)
    BY DEF IInv, Matches
  <2> QED BY <2>1 DEF HandlerStateMatches, Installed, HandlerCalls, At
<1>2. HandledOnce
  BY DEF IInv, Matches, HandledOnce, HandledBy
<1> QED BY <1>1, <1>2, InvTypes DEF HandlersRight

(* There is room for the outermost handler and the closes of an unwind. *)
LEMMA InvRoom == IInv => ExtraRoomSuffices
<1> SUFFICES ASSUME IInv PROVE ExtraRoomSuffices
  OBVIOUS
<1>1. Running("handler") /\ Top.outer => Roomy(cost)
  BY DEF IInv, Matches, Running, Top
<1>2. ASSUME Running("closing"), Top.unwinding
      PROVE  Roomy(Top.cost)
  <2>1. stack # <<>> /\ Top.kind = "closing" /\ Sound(stack)
    BY <1>2 DEF Running, IInv
  <2> QED BY <2>1, <1>2, ClosingOn DEF FitsClosing
<1> QED BY <1>1, <1>2 DEF ExtraRoomSuffices, Roomy

(* Each variable is closed once, and the newest error is carried on. *)
LEMMA InvCloses == IInv => ClosesRight
<1> SUFFICES ASSUME IInv PROVE ClosesRight
  OBVIOUS
<1>1. ClosedOnce
  <2>1. ASSUME NEW i \in At("fn")
        PROVE  VarsApart(stack[i])
    BY <2>1, EachFits DEF At
  <2> QED BY <2>1 DEF ClosedOnce, VarsApart
<1>2. err # NoErr => err.v = newest
  BY DEF IInv, Matches
<1>3. ASSUME Running("closing"), Top.unwinding
      PROVE  Top.pending.v = newest
  <2>1. err = NoErr /\ stack # <<>> /\ Top.kind = "closing" /\ Sound(stack) /\ Latest(stack, newest)
    BY <1>3 DEF Running, IInv, Matches
  <2>2. PICK rest, u, a :
            /\ a \in Act /\ Top = a /\ stack = Append(Append(rest, u), a) /\ a.kind = "closing"
            /\ Append(rest, u) \in Seq(Act) /\ FitsClosing(Append(rest, u), a)
    BY <2>1, ClosingOn
  <2>3. Holds(a) /\ Held(a) = a.pending.v
    BY <2>2, <1>3 DEF FitsClosing, Holds, Held
  <2> QED BY <2>1, <2>2, <2>3, Grows
<1> QED BY <1>1, <1>2, <1>3 DEF ClosesRight, NewestErrorWins

(* A function that is left has closed what it declared. *)
AllClosed(a) == {a.closed[j] : j \in 1..Len(a.closed)} = 1..a.decl

(* With nothing open, all that was declared is closed. *)
LEMMA NothingOpen ==
  ASSUME NEW a \in FnRec, VarsApart(a), a.open = <<>>
  PROVE  AllClosed(a)
<1>1. \A j \in 1..Len(a.closed) : a.closed[j] \in 1..a.decl
  BY BoundsAssumption DEF FnRec, VarsApart
<1>2. \A n \in 1..a.decl : \E j \in 1..Len(a.closed) : a.closed[j] = n
  <2>1. 1..Len(a.open) = {}
    OBVIOUS
  <2> QED BY <2>1 DEF VarsApart
<1> QED BY <1>1, <1>2 DEF AllClosed

(* A push makes the stack longer, and so does an error unless it unwinds;   *)
(* and a stack that is as long has the same domain.                         *)
LEMMA Longer ==
  ASSUME NEW st \in Seq(Act)
  PROVE  /\ \A a : Len(Append(st, a)) = Len(st) + 1
         /\ \A d, c, v : Raise(st, d, c, v) => Len(stack') >= Len(st)
         /\ \A x \in Seq(Act) : DOMAIN x = DOMAIN st => Len(x) = Len(st)
<1>1. \A a : Len(Append(st, a)) = Len(st) + 1
  <2> TAKE a
  <2>1. st \in Seq(Act \cup {a}) /\ a \in Act \cup {a}
    OBVIOUS
  <2> QED BY <2>1, AppendProperties
<1>2. \A d, c, v : Raise(st, d, c, v) => Len(stack') >= Len(st)
  <2> SUFFICES ASSUME NEW d, NEW c, NEW v, Raise(st, d, c, v)
               PROVE  Len(stack') >= Len(st)
    OBVIOUS
  <2>1. stack' = st \/ \E a : stack' = Append(st, a)
    BY DEF Raise
  <2> QED BY <2>1, <1>1
<1>3. \A x \in Seq(Act) : DOMAIN x = DOMAIN st => Len(x) = Len(st)
  <2> SUFFICES ASSUME NEW x \in Seq(Act), DOMAIN x = DOMAIN st
               PROVE  Len(x) = Len(st)
    OBVIOUS
  <2>1. \A j : j \in 1..Len(x) <=> j \in 1..Len(st)
    OBVIOUS
  <2>2. Len(x) \in Nat /\ Len(st) \in Nat
    OBVIOUS
  <2>3. Len(x) = 0 \/ Len(x) \in 1..Len(st)
    BY <2>1, <2>2
  <2>4. Len(st) = 0 \/ Len(st) \in 1..Len(x)
    BY <2>1, <2>2
  <2> QED BY <2>2, <2>3, <2>4
<1> QED BY <1>1, <1>2, <1>3

(* The steps that take nothing off the stack: calls, *)
LEMMA CallsStack ==
  ASSUME IInv, NEW w, NEW closes,
         \/ Call(w, closes) \/ TailCall(w, closes)
         \/ CallProtected(w, closes) \/ CallHandler(w, closes)
         \/ CloseNext(w, closes)
         \/ CallFrameless(w, closes)
         \/ \E h : Pcall(w, h)
  PROVE  Len(stack') >= Len(stack)
<1>1. stack \in Seq(Act) /\ Len(stack) \in Nat
  BY DEF IInv, Sound
<1>2. ASSUME NEW st \in Seq(Act), NEW d, NEW c, NEW act, NEW h, Push(st, d, c, w, act, h)
      PROVE  Len(stack') >= Len(st)
  <2>1. (\E x, y : Raise(st, d, x, y)) \/ stack' = Append(st, act)
    BY <1>2 DEF Push
  <2> QED BY <2>1, Longer
<1>3. ASSUME \/ Call(w, closes) \/ CallProtected(w, closes) \/ CallHandler(w, closes)
             \/ \E h : Pcall(w, h)
      PROVE  Len(stack') >= Len(stack)
  <2>1. \E act, h : Push(stack, depth, cost, w, act, h)
    BY <1>3 DEF Call, CallProtected, CallHandler, Pcall, Enter
  <2> QED BY <2>1, <1>1, <1>2
<1>4. ASSUME CloseNext(w, closes)
      PROVE  Len(stack') >= Len(stack)
  <2> DEFINE st == Popped(NextOpen)
  <2>1. \E d, c, act, h : Push(st, d, c, w, act, h)
    BY <1>4 DEF CloseNext, Enter
  <2>2. st \in Seq(Act)
    BY <1>4, PoppedReady DEF CloseNext, Ready, Sound
  <2>3. DOMAIN st = DOMAIN stack
    BY DEF Popped
  <2> HIDE DEF st
  <2> QED BY <1>1, <1>2, <2>1, <2>2, <2>3, Longer
<1>5. ASSUME CallFrameless(w, closes)
      PROVE  Len(stack') >= Len(stack)
  BY <1>1, <1>5, Longer DEF CallFrameless
<1>6. ASSUME TailCall(w, closes)
      PROVE  Len(stack') >= Len(stack)
  <2>1. \/ \E d, c, v : Raise(stack, d, c, v)
        \/ \E a : stack' = Append(Dropped(1), a)
    BY <1>6 DEF TailCall
  <2>2. Dropped(1) \in Seq(Act) /\ Len(Dropped(1)) = Len(stack) - 1
    BY <1>1, <1>6 DEF TailCall, Dropped
  <2> QED BY <1>1, <2>1, <2>2, Longer
<1> QED BY <1>3, <1>4, <1>5, <1>6

(* and errors, declarations and the beginnings and the steps of a close.    *)
LEMMA KeepsStack ==
  ASSUME IInv, IInv',
         \/ \E v : Error(v) \/ CallsNoFunction(v) \/ CloseFails(v)
         \/ \E closable \in BOOLEAN : Declare(closable)
         \/ \E target : LeaveScope(target)
         \/ CloseSkips \/ CatchInFn \/ CatchInClose
  PROVE  Len(stack') >= Len(stack)
<1>1. stack \in Seq(Act) /\ stack' \in Seq(Act) /\ Len(stack) \in Nat
  BY DEF IInv, Sound
<1>2. ASSUME \E v : Error(v) \/ CallsNoFunction(v)
      PROVE  Len(stack') >= Len(stack)
  BY <1>1, <1>2, Longer DEF Error, CallsNoFunction
<1>3. ASSUME \E v : CloseFails(v)
      PROVE  Len(stack') >= Len(stack)
  <2> DEFINE st == Popped(NextOpen)
  <2>1. \E d, c, v : Raise(st, d, c, v)
    BY <1>3 DEF CloseFails
  <2>2. st \in Seq(Act)
    BY <1>3, PoppedReady DEF CloseFails, Ready, Sound
  <2>3. DOMAIN st = DOMAIN stack
    BY DEF Popped
  <2> HIDE DEF st
  <2> QED BY <1>1, <2>1, <2>2, <2>3, Longer
<1>4. ASSUME (\E closable \in BOOLEAN : Declare(closable)) \/ CloseSkips \/ CatchInClose
      PROVE  Len(stack') >= Len(stack)
  <2>1. DOMAIN stack' = DOMAIN stack
    BY <1>4 DEF Declare, CloseSkips, CatchInClose, Popped
  <2> QED BY <1>1, <2>1, Longer
<1>5. ASSUME (\E target : LeaveScope(target)) \/ CatchInFn
      PROVE  Len(stack') >= Len(stack)
  <2>1. \E a : stack' = Append(stack, a)
    BY <1>5 DEF LeaveScope, CatchInFn
  <2> QED BY <1>1, <2>1, Longer
<1> QED BY <1>2, <1>3, <1>4, <1>5

(* The functions that a step takes off the stack. *)
LEMMA LeavesClosed ==
  ASSUME IInv, [Next]_vars, NEW i \in At("fn"), i > Len(stack')
  PROVE  AllClosed(stack[i])
<1>1. /\ i \in 1..Len(stack) /\ stack[i].kind = "fn" /\ VarsApart(stack[i]) /\ stack[i] \in FnRec
      /\ stack \in Seq(Act) /\ Len(stack) \in Nat /\ i \in Nat /\ i >= 1 /\ i <= Len(stack)
  <2>1. i \in 1..Len(stack) /\ stack[i].kind = "fn" /\ stack \in Seq(Act)
    BY DEF At, IInv, Sound
  <2> QED BY <2>1, EachFits
<1>2. \A n \in {1, 2} : n <= Len(stack) => Len(Dropped(n)) = Len(stack) - n
  BY <1>1 DEF Dropped
<1>3. \A st \in Seq(Act) : \A a \in Act : Len(Append(st, a)) = Len(st) + 1
  BY Pushed
<1>4. CASE Len(stack') >= Len(stack)
  BY <1>1, <1>4
<1>5. CASE (Return \/ UnwindFn) /\ stack' = Dropped(1)
  <2>1. i = Len(stack)
    BY <1>1, <1>2, <1>5
  <2>2. stack[i].open = <<>>
    BY <1>1, <1>5, <2>1 DEF Return, UnwindFn, Top, VarsApart
  <2> QED BY <1>1, <2>2, NothingOpen
<1>6. CASE (ReturnToPcall \/ ReturnToRaised) /\ stack' = Dropped(2) /\ Len(stack) > 1
  <2>1. i = Len(stack) \/ i = Len(stack) - 1
    BY <1>1, <1>2, <1>6
  <2>2. Under.kind # "fn" /\ Top.open = <<>>
    BY <1>6 DEF ReturnToPcall, ReturnToRaised
  <2>3. stack[i].open = <<>>
    BY <1>1, <2>1, <2>2 DEF Under, Top
  <2> QED BY <1>1, <2>3, NothingOpen
<1>7. CASE CloseDone
  <2>1. /\ stack # <<>> /\ Top.kind = "closing" /\ Sound(stack) /\ Len(Under.open) <= Top.target
        /\ stack' = Dropped(IF Top.unwinding THEN 2 ELSE 1)
    BY <1>7 DEF CloseDone, Running, IInv
  <2>2. PICK rest, u, a :
            /\ rest \in Seq(Act) /\ u \in FnRec /\ u \in Act /\ a \in ClosingRec /\ a \in Act
            /\ stack = Append(Append(rest, u), a) /\ Top = a /\ Under = u
            /\ FitsClosing(Append(rest, u), a)
    BY <2>1, ClosingOn
  <2>3. Len(stack) = Len(rest) + 2 /\ Len(rest) \in Nat
    BY <2>2, Pushed
  <2>4. i # Len(stack)
    BY <1>1, <2>1 DEF Top
  <2>5. a.unwinding /\ i = Len(stack) - 1
    BY <1>1, <1>2, <2>1, <2>2, <2>3, <2>4
  <2>6. Len(u.open) <= 0 /\ u.open \in Seq(0..MaxVars)
    BY <2>1, <2>2, <2>5 DEF FitsClosing, FnRec
  <2>7. u.open = <<>> /\ stack[i] = u
    BY <2>2, <2>5, <2>6, EmptySeq DEF Under
  <2> QED BY <1>1, <2>7, NothingOpen
<1>8. CASE (HandlerRaised \/ CatchInPcall) /\ stack' = Dropped(1)
  <2>1. i = Len(stack)
    BY <1>1, <1>2, <1>8
  <2> QED BY <1>1, <1>8, <2>1 DEF HandlerRaised, CatchInPcall, Unwinding, Top
<1>9. Return => stack' = Dropped(1)
  BY DEF Return
<1>10. UnwindFn => stack' = Dropped(1)
  BY DEF UnwindFn
<1>11. ReturnToPcall \/ ReturnToRaised => stack' = Dropped(2) /\ Len(stack) > 1
  BY DEF ReturnToPcall, ReturnToRaised
<1>12. HandlerRaised \/ CatchInPcall => stack' = Dropped(1)
  BY DEF HandlerRaised, CatchInPcall
<1>13. IInv'
  BY NextInv
<1>14. UNCHANGED vars => Len(stack') >= Len(stack)
  BY <1>1 DEF vars
<1> QED BY <1>4, <1>5, <1>6, <1>7, <1>8, <1>9, <1>10, <1>11, <1>12, <1>13, <1>14,
           CallsStack, KeepsStack DEF Next
-----------------------------------------------------------------------------
(* Costs.  Sums of weights are functions on the positions. *)
(* g adds up the weights wt of the positions up to each. *)
Adds(g, n, wt) == g = [i \in 0..n |-> IF i = 0 THEN 0 ELSE g[i - 1] + wt[i]]

(* Two sums agree where both are defined. *)
LEMMA AddsOnce ==
  ASSUME NEW n \in Nat, NEW m \in Nat, n <= m, NEW wt, NEW g, NEW h, Adds(g, n, wt), Adds(h, m, wt)
  PROVE  \A i \in 0..n : g[i] = h[i]
<1> DEFINE T == {i \in 0..n : g[i] # h[i]}
<1> SUFFICES ASSUME T # {} PROVE FALSE
  OBVIOUS
<1>0. T \subseteq Nat
  OBVIOUS
<1>1. PICK i \in T : \A j \in T : i <= j
  <2> HIDE DEF T
  <2> QED BY <1>0, LeastNat
<1>2. g[i] = (IF i = 0 THEN 0 ELSE g[i - 1] + wt[i]) /\ h[i] = (IF i = 0 THEN 0 ELSE h[i - 1] + wt[i])
  <2>1. i \in 0..n /\ i \in 0..m
    OBVIOUS
  <2> QED BY <2>1 DEF Adds
<1>3. i # 0
  BY <1>2
<1>4. i - 1 \in 0..n /\ i - 1 \notin T
  BY <1>1, <1>3
<1> QED BY <1>2, <1>3, <1>4

(* Sums of weights are naturals. *)
LEMMA AddsType ==
  ASSUME NEW n \in Nat, NEW wt \in [1..n -> Nat], NEW g, Adds(g, n, wt)
  PROVE  \A i \in 0..n : g[i] \in Nat
<1> DEFINE T == {i \in 0..n : g[i] \notin Nat}
<1> SUFFICES ASSUME T # {} PROVE FALSE
  OBVIOUS
<1>0. T \subseteq Nat
  OBVIOUS
<1>1. PICK i \in T : \A j \in T : i <= j
  <2> HIDE DEF T
  <2> QED BY <1>0, LeastNat
<1>2. g[i] = IF i = 0 THEN 0 ELSE g[i - 1] + wt[i]
  BY DEF Adds
<1>3. i # 0
  BY <1>2
<1>4. i - 1 \in 0..n /\ i - 1 \notin T /\ wt[i] \in Nat
  BY <1>1, <1>3
<1> QED BY <1>2, <1>3, <1>4

(* There is such a sum. *)
LEMMA AddsExists ==
  ASSUME NEW n \in Nat, NEW wt
  PROVE  \E g : Adds(g, n, wt)
<1> DEFINE T == {k \in Nat : ~ \E g : Adds(g, k, wt)}
<1> SUFFICES ASSUME T # {} PROVE FALSE
  OBVIOUS
<1>0. T \subseteq Nat
  OBVIOUS
<1>1. PICK k \in T : \A j \in T : k <= j
  <2> HIDE DEF T
  <2> QED BY <1>0, LeastNat
<1>2. k # 0
  <2> DEFINE z == [i \in 0..0 |-> 0]
  <2>1. Adds(z, 0, wt)
    BY DEF Adds
  <2> QED BY <2>1
<1>3. k - 1 \in Nat /\ k - 1 \notin T
  BY <1>1, <1>2
<1>4. PICK g : Adds(g, k - 1, wt)
  BY <1>3
<1> DEFINE h == [i \in 0..k |-> IF i = k THEN g[k - 1] + wt[k] ELSE g[i]]
<1>5. Adds(h, k, wt)
  <2>1. ASSUME NEW i \in 0..k
        PROVE  h[i] = IF i = 0 THEN 0 ELSE h[i - 1] + wt[i]
    <3>1. CASE i = k
      BY <3>1, <1>2, <1>3
    <3>2. CASE i # k
      <4>1. i \in 0..(k - 1)
        BY <3>2
      <4>2. g[i] = IF i = 0 THEN 0 ELSE g[i - 1] + wt[i]
        BY <4>1, <1>4 DEF Adds
      <4>3. i # 0 => i - 1 \in 0..k /\ i - 1 # k
        BY <4>1
      <4> QED BY <4>1, <4>2, <4>3, <3>2
    <3> QED BY <3>1, <3>2
  <2> QED BY <2>1 DEF Adds
<1> QED BY <1>5

(* What each position weighs. *)
WeightAt(st) == [i \in 1..Len(st) |-> IF IsFrame(st[i]) THEN st[i].w ELSE 0]

(* The weight of a stack is a sum, *)
LEMMA WeightAdds ==
  ASSUME NEW st \in Seq(Act)
  PROVE  \E g : Adds(g, Len(st), WeightAt(st)) /\ WeightOf(st) = g[Len(st)]
<1> DEFINE n == Len(st)
           P(g) == g = [i \in 0..n |-> IF i = 0 THEN 0 ELSE g[i - 1] + (IF IsFrame(st[i]) THEN st[i].w ELSE 0)]
<1>1. PICK h : Adds(h, n, WeightAt(st))
  <2>1. n \in Nat
    OBVIOUS
  <2> HIDE DEF n, P
  <2> QED BY <2>1, AddsExists
<1>2. \A g : P(g) <=> Adds(g, n, WeightAt(st))
  <2> SUFFICES ASSUME NEW g PROVE P(g) <=> Adds(g, n, WeightAt(st))
    OBVIOUS
  <2>1. \A i \in 0..n : i # 0 => WeightAt(st)[i] = IF IsFrame(st[i]) THEN st[i].w ELSE 0
    BY DEF WeightAt
  <2>2. [i \in 0..n |-> IF i = 0 THEN 0 ELSE g[i - 1] + (IF IsFrame(st[i]) THEN st[i].w ELSE 0)]
         = [i \in 0..n |-> IF i = 0 THEN 0 ELSE g[i - 1] + WeightAt(st)[i]]
    BY <2>1
  <2> QED BY <2>2 DEF Adds
<1>3. P(CHOOSE g : P(g))
  <2>1. \E g : P(g)
    BY <1>1, <1>2
  <2> HIDE DEF P
  <2> QED BY <2>1
<1>4. WeightOf(st) = (CHOOSE g : P(g))[n]
  BY DEF WeightOf
<1> QED BY <1>2, <1>3, <1>4

(* and so is what Calls calls the weight of its frames. *)
LEMMA WeighingAdds ==
  ASSUME stack \in Seq(Act)
  PROVE  Weighing(Framed) = WeightOf(stack)
<1> DEFINE n == Len(stack)
           P(g) == g = [i \in 0..n |-> IF i = 0 THEN 0 ELSE g[i - 1] + (IF i \in Framed THEN stack[i].w ELSE 0)]
<1>0. n \in Nat
  OBVIOUS
<1>1. PICK h : Adds(h, n, WeightAt(stack)) /\ WeightOf(stack) = h[n]
  BY WeightAdds
<1>2. \A g : P(g) <=> Adds(g, n, WeightAt(stack))
  <2> SUFFICES ASSUME NEW g PROVE P(g) <=> Adds(g, n, WeightAt(stack))
    OBVIOUS
  <2>1. \A i \in 0..n : i # 0 => WeightAt(stack)[i] = IF i \in Framed THEN stack[i].w ELSE 0
    BY DEF WeightAt, Framed, IsFrame
  <2>2. [i \in 0..n |-> IF i = 0 THEN 0 ELSE g[i - 1] + (IF i \in Framed THEN stack[i].w ELSE 0)]
         = [i \in 0..n |-> IF i = 0 THEN 0 ELSE g[i - 1] + WeightAt(stack)[i]]
    BY <2>1
  <2> QED BY <2>2 DEF Adds
<1>3. P(CHOOSE g : P(g))
  <2>1. \E g : P(g)
    BY <1>1, <1>2
  <2> HIDE DEF P
  <2> QED BY <2>1
<1>4. Weighing(Framed) = (CHOOSE g : P(g))[n]
  BY DEF Weighing
<1> DEFINE f == CHOOSE g : P(g)
<1>5. Adds(f, n, WeightAt(stack)) /\ Weighing(Framed) = f[n]
  BY <1>2, <1>3, <1>4
<1> HIDE DEF f, P, n
<1>6. n \in 0..n
  BY <1>0
<1> QED BY <1>0, <1>1, <1>5, <1>6, AddsOnce

(* A frame pushed adds its weight, *)
LEMMA WeightPushed ==
  ASSUME NEW st \in Seq(Act), NEW a \in Act
  PROVE  /\ WeightOf(st) \in Nat
         /\ WeightOf(Append(st, a)) = WeightOf(st) + (IF IsFrame(a) THEN a.w ELSE 0)
         /\ IsFrame(a) => a.w \in Nat
<1> DEFINE s2 == Append(st, a)
           n == Len(st)
           w1 == WeightAt(st)
           w2 == WeightAt(s2)
<1>0. /\ s2 \in Seq(Act) /\ Len(s2) = n + 1 /\ s2[n + 1] = a /\ n \in Nat
      /\ \A i \in 1..n : s2[i] = st[i]
  BY Pushed
<1>1. PICK g : Adds(g, n, w1) /\ WeightOf(st) = g[n]
  BY WeightAdds
<1>2. PICK h : Adds(h, n + 1, w2) /\ WeightOf(s2) = h[n + 1]
  <2> HIDE DEF s2
  <2> QED BY <1>0, WeightAdds
<1>3. \A b \in Act : IsFrame(b) => b.w \in Nat
  <2> SUFFICES ASSUME NEW b \in Act, IsFrame(b) PROVE b.w \in Nat
    OBVIOUS
  <2>1. b \in FnRec \/ b \in PcallRec
    BY Kinds DEF IsFrame
  <2> QED BY <2>1 DEF FnRec, PcallRec
<1>4. w1 \in [1..n -> Nat]
  BY <1>3 DEF WeightAt
<1>5. w2[n + 1] = (IF IsFrame(a) THEN a.w ELSE 0) /\ \A i \in 1..n : w2[i] = w1[i]
  <2> HIDE DEF s2
  <2> QED BY <1>0 DEF WeightAt
<1> HIDE DEF s2, n, w1, w2
<1>6. \A i \in 0..n : h[i] = IF i = 0 THEN 0 ELSE h[i - 1] + w1[i]
  <2>1. \A i \in 0..n : i \in 0..(n + 1) /\ (i = 0 \/ i \in 1..n)
    BY <1>0
  <2> QED BY <2>1, <1>2, <1>5 DEF Adds
<1>7. h[n + 1] = h[n] + w2[n + 1]
  <2>1. n + 1 \in 0..(n + 1) /\ (n + 1) - 1 = n /\ n + 1 # 0
    BY <1>0
  <2> QED BY <2>1, <1>2 DEF Adds
<1> DEFINE k == [i \in 0..n |-> h[i]]
<1>8. Adds(k, n, w1) /\ k[n] = h[n]
  <2>1. \A i \in 0..n : i # 0 => i - 1 \in 0..n
    BY <1>0
  <2>2. \A i \in 0..n : k[i] = IF i = 0 THEN 0 ELSE k[i - 1] + w1[i]
    BY <2>1, <1>6
  <2>3. n \in 0..n
    BY <1>0
  <2> QED BY <2>2, <2>3 DEF Adds
<1> HIDE DEF k
<1>9. k[n] = g[n] /\ g[n] \in Nat
  <2>1. n \in 0..n /\ n <= n
    BY <1>0
  <2>2. k[n] = g[n]
    BY <2>1, <1>0, <1>1, <1>8, AddsOnce
  <2>3. g[n] \in Nat
    BY <2>1, <1>0, <1>1, <1>4, AddsType
  <2> QED BY <2>2, <2>3
<1> QED BY <1>1, <1>2, <1>3, <1>5, <1>7, <1>8, <1>9 DEF s2

(* and a lender the headroom. *)
LEMMA LoanPushed ==
  ASSUME NEW st \in Seq(Act), NEW a \in Act
  PROVE  /\ LoanOf(st) \in Int
         /\ LoanOf(Append(st, a)) = LoanOf(st) + (IF Lends(a) THEN Headroom ELSE 0)
<1> DEFINE A == {i \in 1..Len(st) : Lends(st[i])}
           B == {i \in 1..Len(Append(st, a)) : Lends(Append(st, a)[i])}
<1>1. Len(st) \in Nat /\ A \subseteq 1..Len(st)
  OBVIOUS
<1>2. /\ \A i \in 1..Len(st) : i \in B <=> i \in A
      /\ B \subseteq 1..(Len(st) + 1)
      /\ Len(st) + 1 \in B <=> Lends(a)
  BY Pushed
<1>3. /\ Cardinality(A) \in 0..Len(st)
      /\ Cardinality(B) = Cardinality(A) + (IF Len(st) + 1 \in B THEN 1 ELSE 0)
  <2> HIDE DEF A, B
  <2> QED BY <1>1, <1>2, Counted
<1> DEFINE k == Cardinality(A)
           m == Cardinality(B)
<1>4. LoanOf(st) = Headroom * k /\ LoanOf(Append(st, a)) = Headroom * m
  BY DEF LoanOf
<1>5. k \in Nat /\ Headroom \in Nat /\ m = k + (IF Lends(a) THEN 1 ELSE 0)
  <2>1. Cardinality(A) \in Nat /\ Headroom \in Nat
    BY <1>3, BudgetAssumption
  <2>2. Cardinality(B) = Cardinality(A) + (IF Lends(a) THEN 1 ELSE 0)
    <3> HIDE DEF A, B
    <3> QED BY <1>2, <1>3
  <2> QED BY <2>1, <2>2
<1> HIDE DEF k, m
<1>6. Headroom * (k + 1) = Headroom * k + Headroom /\ Headroom * k \in Int
  BY <1>5
<1>7. CASE Lends(a)
  BY <1>4, <1>5, <1>6, <1>7
<1>8. CASE ~Lends(a)
  BY <1>4, <1>5, <1>6, <1>8
<1> QED BY <1>7, <1>8

(* An activation pays for itself. *)
LEMMA PaidPushed ==
  ASSUME NEW st \in Seq(Act), NEW a \in Act
  PROVE  Paid(Append(st, a)) <=> Paid(st) /\ PaidFor(st, a)
<1> DEFINE st2 == Append(st, a)
           n == Len(st)
<1>1. /\ st2 \in Seq(Act) /\ Len(st2) = n + 1 /\ st2[n + 1] = a /\ n \in Nat
      /\ \A i \in 1..n : st2[i] = st[i]
      /\ SubSeq(st2, 1, n) = st
  BY Pushed
<1>2. \A i \in 1..n : SubSeq(st2, 1, i - 1) = SubSeq(st, 1, i - 1)
  <2> TAKE i \in 1..n
  <2>1. SubSeq(st2, 1, i - 1) = SubSeq(SubSeq(st2, 1, n), 1, i - 1)
    BY <1>1, SubSeqOfSubSeq
  <2> QED BY <2>1, <1>1
<1>3. \A i \in 1..(n + 1) : i \in 1..n \/ i = n + 1
  BY <1>1
<1>4. (n + 1) - 1 = n /\ 1..n \subseteq 1..(n + 1) /\ n + 1 \in 1..(n + 1)
  BY <1>1
<1> HIDE DEF st2, n
<1>5. (\A i \in 1..(n + 1) : PaidFor(SubSeq(st2, 1, i - 1), st2[i]))
        <=> (\A i \in 1..n : PaidFor(SubSeq(st, 1, i - 1), st[i])) /\ PaidFor(st, a)
  BY <1>1, <1>2, <1>3, <1>4
<1> QED BY <1>1, <1>5 DEF Paid, st2, n

(* What stands on a function says whether it will return. *)
LEMMA EntersPushed ==
  ASSUME NEW st \in Seq(Act), NEW a \in Act, NEW ws
  PROVE  \A failing \in BOOLEAN :
            Enters(Append(st, a), failing, ws) <=>
               /\ Enters(st, Spent(a), ws)
               /\ IsFrame(a) /\ ~(a.kind = "fn" /\ failing) => ws[a.depth] = a.w
<1> DEFINE st2 == Append(st, a)
           n == Len(st)
           Right(x) == ws[x.depth] = x.w
           At1(i, over) == IsFrame(st[i]) /\ ~(st[i].kind = "fn" /\ over) => Right(st[i])
           At2(i, over) == IsFrame(st2[i]) /\ ~(st2[i].kind = "fn" /\ over) => Right(st2[i])
<1>1. /\ Len(st2) = n + 1 /\ st2[n + 1] = a /\ n \in Nat
      /\ \A i \in 1..n : st2[i] = st[i]
  BY Pushed
<1>2. \A f \in BOOLEAN : Enters(st, f, ws) <=> \A i \in 1..n : At1(i, IF i = n THEN f ELSE Spent(st[i + 1]))
  BY DEF Enters
<1>3. \A f \in BOOLEAN :
        Enters(st2, f, ws) <=> \A i \in 1..(n + 1) : At2(i, IF i = n + 1 THEN f ELSE Spent(st2[i + 1]))
  BY <1>1 DEF Enters
<1>4. Spent(a) \in BOOLEAN
  BY DEF Spent
<1>5. \A i \in 1..n : At2(i, Spent(st2[i + 1])) <=> At1(i, IF i = n THEN Spent(a) ELSE Spent(st[i + 1]))
  <2> TAKE i \in 1..n
  <2>1. CASE i = n
    BY <1>1, <2>1
  <2>2. CASE i # n
    <3>1. i + 1 \in 1..n
      BY <1>1, <2>2
    <3> QED BY <1>1, <3>1, <2>2
  <2> QED BY <2>1, <2>2
<1>6. \A f : At2(n + 1, f) <=> (IsFrame(a) /\ ~(a.kind = "fn" /\ f) => Right(a))
  BY <1>1
<1>7. \A i : i \in 1..(n + 1) <=> i \in 1..n \/ i = n + 1
  BY <1>1
<1>8. \A i \in 1..n : i # n + 1
  BY <1>1
<1>10. FALSE \in BOOLEAN /\ Enters(st, Spent(a), ws) <=> \A i \in 1..n : At1(i, IF i = n THEN Spent(a) ELSE Spent(st[i + 1]))
  BY <1>2, <1>4, Zenon
<1> HIDE DEF st2, n, At1, At2, Right
<1>11. \A f \in BOOLEAN : Enters(st2, f, ws) <=>
          /\ \A i \in 1..n : At2(i, Spent(st2[i + 1]))
          /\ At2(n + 1, f)
  BY <1>3, <1>7, <1>8
<1>12. \A f \in BOOLEAN : Enters(st2, f, ws) <=>
          /\ Enters(st, Spent(a), ws)
          /\ IsFrame(a) /\ ~(a.kind = "fn" /\ f) => Right(a)
  BY <1>5, <1>6, <1>10, <1>11
<1> QED BY <1>12 DEF st2, Right

(* The same, by the two cases. *)
LEMMA EnteredPushed ==
  ASSUME NEW st \in Seq(Act), NEW a \in Act, NEW ws
  PROVE  /\ Entered(Append(st, a), ws) <=>
               /\ IF Spent(a) THEN EnteredBelow(st, ws) ELSE Entered(st, ws)
               /\ IsFrame(a) => ws[a.depth] = a.w
         /\ EnteredBelow(Append(st, a), ws) <=>
               /\ IF Spent(a) THEN EnteredBelow(st, ws) ELSE Entered(st, ws)
               /\ IsFrame(a) /\ a.kind # "fn" => ws[a.depth] = a.w
<1>1. \A failing \in BOOLEAN : Enters(Append(st, a), failing, ws) <=>
               /\ Enters(st, Spent(a), ws)
               /\ IsFrame(a) /\ ~(a.kind = "fn" /\ failing) => ws[a.depth] = a.w
  BY EntersPushed
<1>2. FALSE \in BOOLEAN /\ TRUE \in BOOLEAN
  OBVIOUS
<1>3. Enters(Append(st, a), FALSE, ws) <=>
               /\ Enters(st, Spent(a), ws)
               /\ IsFrame(a) /\ ~(a.kind = "fn" /\ FALSE) => ws[a.depth] = a.w
  BY <1>1, <1>2, Zenon
<1>4. Enters(Append(st, a), TRUE, ws) <=>
               /\ Enters(st, Spent(a), ws)
               /\ IsFrame(a) /\ ~(a.kind = "fn" /\ TRUE) => ws[a.depth] = a.w
  BY <1>1, <1>2, Zenon
<1>5. Spent(a) = TRUE \/ Spent(a) = FALSE
  BY DEF Spent
<1>6. Enters(st, Spent(a), ws) <=> IF Spent(a) THEN Enters(st, TRUE, ws) ELSE Enters(st, FALSE, ws)
  BY <1>5, Zenon
<1> QED BY <1>3, <1>4, <1>6, Zenon DEF Entered, EnteredBelow

(* Less is asked of a stack whose top is failing. *)
LEMMA EnteredWeaker ==
  ASSUME NEW st \in Seq(Act), NEW ws, Entered(st, ws)
  PROVE  EnteredBelow(st, ws)
  BY DEF Entered, EnteredBelow, Enters

(* A frame on a sound stack is one of its frames, counted from below. *)
LEMMA FrameDepth ==
  ASSUME NEW st, Sound(st), NEW i \in 1..Len(st), IsFrame(st[i])
  PROVE  st[i].depth \in 1..Frames(st)
<1> DEFINE r == SubSeq(st, 1, i - 1)
           a == st[i]
           x == Append(r, a)
<1>1. st \in Seq(Act) /\ a \in Act /\ Fits(r, a) /\ Len(st) \in Nat
  BY DEF Sound
<1>2. r \in Seq(Act) /\ Len(r) = i - 1 /\ \A j \in 1..(i - 1) : r[j] = st[j]
  <2>1. CASE i = 1
    <3>1. r = <<>>
      BY <2>1, <1>1, SubSeqEmpty
    <3> QED BY <3>1, <2>1
  <2>2. CASE i # 1
    BY <2>2, <1>1
  <2> QED BY <2>1, <2>2
<1>3. Frames(x) = Frames(r) + 1 /\ Frames(r) \in Nat
  <2> HIDE DEF r, a
  <2> QED BY <1>1, <1>2, Grows DEF a
<1>4. a.depth = Frames(x)
  <2> HIDE DEF r, x
  <2>1. CASE a.kind = "fn"
    BY <2>1, <1>1 DEF Fits, FitsFn, x
  <2>2. CASE a.kind = "pcall"
    BY <2>2, <1>1, <1>3 DEF Fits, FitsPcall
  <2> QED BY <2>1, <2>2 DEF IsFrame
<1> DEFINE A == {j \in 1..Len(x) : IsFrame(x[j])}
           B == {j \in 1..Len(st) : IsFrame(st[j])}
<1>5. A \subseteq B
  <2>1. Len(x) = i /\ \A j \in 1..i : x[j] = st[j]
    <3>1. Len(x) = Len(r) + 1 /\ x[Len(r) + 1] = a /\ \A j \in 1..Len(r) : x[j] = r[j]
      <4> HIDE DEF r, a
      <4> QED BY <1>1, <1>2, Pushed DEF a
    <3>2. Len(r) + 1 = i
      BY <1>2
    <3> HIDE DEF x, r
    <3> QED BY <3>1, <3>2, <1>2
  <2> HIDE DEF x, r
  <2> QED BY <2>1, <1>1
<1>6. IsFiniteSet(B) /\ Cardinality(A) <= Cardinality(B) /\ Cardinality(B) \in Nat
  <2>1. IsFiniteSet(1..Len(st)) /\ B \subseteq 1..Len(st)
    BY <1>1, FS_Interval
  <2>2. IsFiniteSet(B)
    BY <2>1, FS_Subset
  <2> HIDE DEF A, B
  <2> QED BY <1>5, <2>2, FS_Subset, FS_CardinalityType
<1>7. Frames(x) = Cardinality(A) /\ Frames(st) = Cardinality(B)
  BY DEF Frames
<1> HIDE DEF A, B, x, r
<1> QED BY <1>3, <1>4, <1>6, <1>7

(* A weight entered above the frames of a stack is none of theirs. *)
LEMMA EnteredElsewhere ==
  ASSUME NEW st, Sound(st), Frames(st) <= MaxStack, NEW ws \in [1..MaxStack -> Nat],
         Entered(st, ws), NEW k \in Nat, k > Frames(st), NEW w
  PROVE  Entered(st, [ws EXCEPT ![k] = w])
<1> DEFINE failing == FALSE
<1> SUFFICES ASSUME NEW i \in 1..Len(st), IsFrame(st[i]),
                    ~(st[i].kind = "fn" /\ IF i = Len(st) THEN failing ELSE Spent(st[i + 1]))
             PROVE  [ws EXCEPT ![k] = w][st[i].depth] = st[i].w
  BY DEF Entered, Enters
<1>1. ws[st[i].depth] = st[i].w
  BY DEF Entered, Enters
<1>2. st[i].depth \in 1..Frames(st)
  BY FrameDepth
<1>3. Frames(st) \in Nat
  <2>1. st \in Seq(Act) /\ st[i] \in Act
    BY DEF Sound
  <2> QED BY <2>1, FramesPushed
<1>4. st[i].depth \in 1..MaxStack /\ st[i].depth # k
  BY <1>2, <1>3, BoundsAssumption
<1> QED BY <1>1, <1>4

(* What a push does to the cost that covers a stack. *)
LEMMA CoversPushed ==
  ASSUME NEW st \in Seq(Act), NEW a \in Act, NEW c \in Int
  PROVE  /\ IsFrame(a) => (Covers(Append(st, a), c) <=> Covers(st, c - a.w))
         /\ ~IsFrame(a) /\ ~Spent(a) => (Covers(Append(st, a), c) <=> Covers(st, c))
         /\ a.kind = "closing" /\ a.unwinding => (Covers(Append(st, a), c) <=> Covers(st, c + Headroom))
         /\ \A c2 \in Int : a.kind = "handler" /\ Covers(st, c2) /\ c2 <= c + Lent(a.outer) => Covers(Append(st, a), c)
<1> DEFINE st2 == Append(st, a)
           W == WeightOf(st)
           W2 == WeightOf(st2)
           L == LoanOf(st)
           L2 == LoanOf(st2)
           H == HandlerCalls(st)
           H2 == HandlerCalls(st2)
<1>1. /\ W \in Nat /\ W2 = W + (IF IsFrame(a) THEN a.w ELSE 0) /\ (IsFrame(a) => a.w \in Nat)
      /\ L \in Int /\ L2 = L + (IF Lends(a) THEN Headroom ELSE 0)
      /\ H \in Nat /\ H2 = H + (IF a.kind = "handler" THEN 1 ELSE 0)
      /\ Headroom \in Nat
  BY WeightPushed, LoanPushed, HandlerCallsPushed, BudgetAssumption
<1>2. \A x : /\ Covers(st, x) <=> W <= x + L /\ (H = 0 => W = x + L)
             /\ Covers(st2, x) <=> W2 <= x + L2 /\ (H2 = 0 => W2 = x + L2)
  BY DEF Covers
<1> HIDE DEF st2, W, W2, L, L2, H, H2
<1>3. ASSUME IsFrame(a)
      PROVE  Covers(st2, c) <=> Covers(st, c - a.w)
  <2>1. W2 = W + a.w /\ L2 = L /\ H2 = H /\ a.w \in Nat
    BY <1>1, <1>3 DEF IsFrame, Lends
  <2>2. Covers(st2, c) <=> W + a.w <= c + L /\ (H = 0 => W + a.w = c + L)
    BY <1>2, <2>1
  <2>3. Covers(st, c - a.w) <=> W <= (c - a.w) + L /\ (H = 0 => W = (c - a.w) + L)
    BY <1>2
  <2> QED BY <1>1, <2>1, <2>2, <2>3
<1>4. ASSUME ~IsFrame(a), ~Spent(a)
      PROVE  Covers(st2, c) <=> Covers(st, c)
  <2>1. W2 = W /\ L2 = L /\ H2 = H
    BY <1>1, <1>4 DEF Spent, Lends
  <2> QED BY <1>2, <2>1
<1>5. ASSUME a.kind = "closing", a.unwinding
      PROVE  Covers(st2, c) <=> Covers(st, c + Headroom)
  <2>1. W2 = W /\ L2 = L + Headroom /\ H2 = H
    BY <1>1, <1>5 DEF IsFrame, Lends
  <2>2. Covers(st2, c) <=> W <= c + (L + Headroom) /\ (H = 0 => W = c + (L + Headroom))
    BY <1>2, <2>1
  <2>3. Covers(st, c + Headroom) <=> W <= (c + Headroom) + L /\ (H = 0 => W = (c + Headroom) + L)
    BY <1>2
  <2> QED BY <1>1, <2>2, <2>3
<1>6. ASSUME NEW c2 \in Int, a.kind = "handler", Covers(st, c2), c2 <= c + Lent(a.outer)
      PROVE  Covers(st2, c)
  <2>1. W2 = W /\ L2 = L + Lent(a.outer) /\ H2 # 0 /\ Lent(a.outer) \in Int
    BY <1>1, <1>6 DEF IsFrame, Lends, Lent
  <2>2. W <= c2 + L
    BY <1>2, <1>6
  <2>3. W2 <= c + L2
    BY <1>1, <1>6, <2>1, <2>2
  <2> QED BY <1>2, <2>1, <2>3
<1> QED BY <1>3, <1>4, <1>5, <1>6 DEF st2

(* An error raised: the cost is at least what covers the stack. *)
LEMMA RaiseCosts ==
  ASSUME NEW st, NEW d, NEW c, Ready(st, d, c), Paid(st), Covers(st, c), NEW c2 \in Int, c <= c2,
         EnteredBelow(st, weights'), NEW v \in Errors \cup {Overflow}, Raise(st, d, c2, v)
  PROVE  CostInv'
<1> DEFINE a == Handling(nest = 0, Raised(v))
<1>0. st \in Seq(Act) /\ err = NoErr /\ c \in Int
  BY DEF Ready, Sound
<1>1. v # "none" /\ v \in ErrVals
  BY ErrorsAssumption DEF Overflow, ErrVals
<1>2. CASE msgh # NoHandler /\ nest < MaxNest
  <2>1. stack' = Append(st, a) /\ cost' = c2 - Lent(nest = 0) /\ err' = NoErr
    BY <1>0, <1>2 DEF Raise
  <2>2. a \in HandlerRec /\ a.kind = "handler" /\ a.outer = (nest = 0)
    BY <1>1 DEF Handling, HandlerRec, Raised, ErrRec
  <2>3. a \in Act /\ ~IsFrame(a) /\ PaidFor(st, a) /\ Spent(a) = TRUE
    BY <2>2 DEF Act, IsFrame, PaidFor, Spent
  <2>4. cost' \in Int /\ c <= cost' + Lent(a.outer)
    <3> DEFINE l == Lent(nest = 0)
    <3>1. l \in Int /\ cost' = c2 - l
      BY <2>1, BudgetAssumption DEF Lent
    <3>2. Lent(a.outer) = l
      <4> HIDE DEF a
      <4> QED BY <2>2, Zenon
    <3> HIDE DEF l, a
    <3> QED BY <3>1, <3>2
  <2> HIDE DEF a
  <2>5. Paid(stack')
    BY <1>0, <2>1, <2>3, PaidPushed
  <2>6. Entered(stack', weights')
    BY <1>0, <2>1, <2>3, EnteredPushed
  <2>7. Covers(stack', cost')
    <3> DEFINE C == cost'
    <3>1. C \in Int /\ c <= C + Lent(a.outer)
      BY <2>4
    <3> HIDE DEF C
    <3>2. Covers(Append(st, a), C)
      BY <1>0, <2>2, <2>3, <3>1, CoversPushed
    <3> QED BY <3>2, <2>1 DEF C
  <2> QED BY <2>1, <2>5, <2>6, <2>7 DEF CostInv, Solvent
<1>3. CASE ~(msgh # NoHandler /\ nest < MaxNest)
  <2>1. stack' = st /\ err' = Raised(IF msgh = NoHandler THEN v ELSE ErrorInHandling)
    BY <1>3 DEF Raise
  <2>2. err' # NoErr
    BY <1>1, <2>1 DEF Raised, NoErr, ErrorInHandling
  <2> QED BY <2>1, <2>2 DEF CostInv, Solvent
<1> QED BY <1>2, <1>3

(* A call with a frame. *)
LEMMA PushCosts ==
  ASSUME NEW st, NEW d, NEW c, Ready(st, d, c), Paid(st), Covers(st, c), Entered(st, weights),
         NEW w \in Weights, NEW a \in Act, NEW h,
         a.kind \in {"fn", "pcall"}, IsFrame(a), a.w = w, a.depth = d + 1, a.cost = c + w,
         Push(st, d, c, w, a, h)
  PROVE  CostInv'
<1>0. /\ st \in Seq(Act) /\ w \in Nat /\ c \in Int /\ d = Frames(st) /\ d \in Nat /\ d <= MaxStack
      /\ Sound(st) /\ weights \in [1..MaxStack -> Nat] /\ err = NoErr
  <2>1. st \in Seq(Act)
    BY DEF Ready, Sound
  <2> QED BY <2>1, FramesPushed, WeightsAssumption DEF Ready
<1>1. CASE c + w > Budget
  <2> DEFINE c2 == c + w
  <2>1. Raise(st, d, c2, Overflow) /\ weights' = weights /\ c2 \in Int /\ c <= c2
    BY <1>1, <1>0, BudgetAssumption DEF Push
  <2>2. EnteredBelow(st, weights')
    BY <1>0, <2>1, EnteredWeaker
  <2>3. Overflow \in Errors \cup {Overflow}
    OBVIOUS
  <2> HIDE DEF c2
  <2> QED BY <2>1, <2>2, <2>3, RaiseCosts
<1>2. CASE ~(c + w > Budget)
  <2>1. /\ stack' = Append(st, a) /\ cost' = c + w /\ weights' = [weights EXCEPT ![d + 1] = w] /\ err' = err
        /\ Len(st) < MaxStack
    BY <1>2 DEF Push
  <2>2. Entered(st, weights')
    <3>1. d + 1 \in Nat /\ d + 1 > Frames(st)
      BY <1>0
    <3> QED BY <1>0, <2>1, <3>1, EnteredElsewhere
  <2>3. ~Spent(a)
    BY DEF Spent
  <2>4. weights'[a.depth] = a.w
    <3>1. Frames(st) <= Len(st) /\ Len(st) \in Nat
      BY <1>0, FramesPushed
    <3>2. d + 1 \in 1..MaxStack
      BY <3>1, <2>1, <1>0, BoundsAssumption
    <3> QED BY <1>0, <2>1, <3>2
  <2>5. Entered(stack', weights')
    BY <1>0, <2>1, <2>2, <2>3, <2>4, EnteredPushed
  <2>6. Covers(stack', c + w)
    <3> DEFINE C == c + w
    <3>1. C \in Int /\ C - a.w = c
      BY <1>0
    <3> HIDE DEF C
    <3>2. Covers(Append(st, a), C)
      BY <1>0, <3>1, CoversPushed
    <3> QED BY <3>2, <2>1 DEF C
  <2>7. PaidFor(st, a)
    BY <2>1, <2>6 DEF PaidFor, IsFrame
  <2>8. Paid(stack')
    BY <1>0, <2>1, <2>7, PaidPushed
  <2> QED BY <1>0, <2>1, <2>5, <2>6, <2>8 DEF CostInv, Solvent
<1> QED BY <1>1, <1>2
(* Each operation keeps the costs.  What code that runs finds: *)
LEMMA RunningPaid ==
  ASSUME IInv, CostInv, err = NoErr, stack # <<>>, Top.kind # "closing"
  PROVE  /\ Ready(stack, depth, cost) /\ stack \in Seq(Act)
         /\ Paid(stack) /\ Covers(stack, cost) /\ Entered(stack, weights)
<1>1. Ready(stack, depth, cost)
  BY RunningReady
<1> QED BY <1>1 DEF CostInv, Solvent, Top, IInv, Sound

(* a function called with a frame; *)
LEMMA EnterCosts ==
  ASSUME NEW st, NEW d, NEW c, Ready(st, d, c), Paid(st), Covers(st, c), Entered(st, weights),
         NEW w \in Weights, NEW closes \in Closers, Enter(st, d, c, w, closes)
  PROVE  CostInv'
<1> DEFINE D == d + 1
           C == c + w
           a == Fn(w, TRUE, closes, D, C)
<1>1. st \in Seq(Act) /\ w \in Nat /\ D \in Nat /\ C \in Int /\ closes \in BOOLEAN
  <2>1. st \in Seq(Act)
    BY DEF Ready, Sound
  <2>2. d \in Nat /\ w \in Nat /\ c \in Int
    BY <2>1, FramesPushed, WeightsAssumption DEF Ready
  <2> QED BY <2>1, <2>2, ClosersBoolean
<1>2. Push(st, d, c, w, a, msgh)
  BY DEF Enter
<1>3. D = d + 1 /\ C = c + w
  OBVIOUS
<1> HIDE DEF D, C
<1>4. IsNewFn(a, TRUE, D, C)
  <2>1. TRUE \in BOOLEAN
    OBVIOUS
  <2> QED BY <1>1, <2>1, NewFn, Zenon
<1>5. a \in Act /\ a.kind \in {"fn", "pcall"} /\ IsFrame(a) /\ a.w = w /\ a.depth = d + 1 /\ a.cost = c + w
  BY <1>3, <1>4 DEF IsNewFn, IsFrame, Fn
<1> HIDE DEF a
<1> QED BY <1>2, <1>5, PushCosts

(* calls by code that runs; *)
LEMMA CallCosts ==
  ASSUME IInv, CostInv, NEW w \in Weights, NEW closes \in Closers,
         Call(w, closes) \/ CallProtected(w, closes) \/ CallHandler(w, closes)
  PROVE  CostInv'
<1>1. /\ err = NoErr /\ stack # <<>> /\ Top.kind # "closing"
      /\ Enter(stack, depth, cost, w, closes)
  BY DEF Call, CallProtected, CallHandler, Running
<1> QED BY <1>1, RunningPaid, EnterCosts

(* errors; *)
LEMMA ErrorCosts ==
  ASSUME IInv, CostInv, NEW v \in Errors, Error(v) \/ CallsNoFunction(v)
  PROVE  CostInv'
<1>1. /\ err = NoErr /\ stack # <<>> /\ Top.kind \in {"fn", "pcall"}
      /\ Raise(stack, depth, cost, v) /\ weights' = weights
  BY DEF Error, CallsNoFunction, Running
<1>2. /\ Ready(stack, depth, cost) /\ stack \in Seq(Act)
      /\ Paid(stack) /\ Covers(stack, cost) /\ Entered(stack, weights)
  BY <1>1, RunningPaid
<1>3. EnteredBelow(stack, weights') /\ cost \in Int
  BY <1>1, <1>2, EnteredWeaker DEF Ready
<1>4. v \in Errors \cup {Overflow} /\ cost <= cost
  BY <1>3
<1> QED BY <1>1, <1>2, <1>3, <1>4, RaiseCosts

(* protected calls; *)
LEMMA PcallCosts ==
  ASSUME IInv, CostInv, NEW w \in Weights, NEW h \in Handlers \cup {NoHandler}, Pcall(w, h)
  PROVE  CostInv'
<1> DEFINE a == Protected(w, h, depth + 1, cost + w)
<1>1. /\ err = NoErr /\ stack # <<>> /\ Top.kind = "fn"
      /\ Push(stack, depth, cost, w, a, h)
  BY DEF Pcall, Running
<1>2. /\ Ready(stack, depth, cost) /\ stack \in Seq(Act)
      /\ Paid(stack) /\ Covers(stack, cost) /\ Entered(stack, weights)
  BY <1>1, RunningPaid
<1>3. /\ depth \in Nat /\ cost \in Int /\ w \in Nat /\ nest \in Nat /\ newest \in ErrVals
      /\ msgh \in Handlers \cup {NoHandler}
  BY <1>2, FramesPushed, HandlerCallsPushed, WeightsAssumption, InvTypes DEF Ready, TypeOK
<1>4. a \in PcallRec /\ a.kind = "pcall" /\ a.w = w /\ a.depth = depth + 1 /\ a.cost = cost + w
  BY <1>3 DEF Protected, PcallRec
<1> HIDE DEF a
<1>5. a \in Act /\ IsFrame(a)
  BY <1>4 DEF Act, IsFrame
<1> QED BY <1>1, <1>2, <1>4, <1>5, PushCosts

(* declarations, which leave the function what it was; *)
LEMMA SameCosts ==
  ASSUME NEW rest \in Seq(Act), NEW u \in FnRec, NEW v, SameFn(u, v), v.w = u.w, NEW ws
  PROVE  /\ v \in Act /\ u \in Act /\ (IsFrame(u) <=> IsFrame(v)) /\ ~Spent(u) /\ ~Spent(v)
         /\ u.kind = "fn" /\ v.kind = "fn"
         /\ \A c \in Int : Covers(Append(rest, v), c) <=> Covers(Append(rest, u), c)
         /\ Paid(Append(rest, v)) <=> Paid(Append(rest, u))
         /\ Entered(Append(rest, v), ws) <=> Entered(Append(rest, u), ws)
         /\ EnteredBelow(Append(rest, v), ws) <=> EnteredBelow(Append(rest, u), ws)
<1>1. /\ v \in Act /\ u \in Act /\ (IsFrame(u) <=> IsFrame(v)) /\ ~Spent(u) /\ ~Spent(v)
      /\ u.kind = "fn" /\ v.kind = "fn" /\ v.depth = u.depth /\ v.cost = u.cost /\ v.framed = u.framed
      /\ u.cost \in Int
  BY DEF SameFn, Act, FnRec, IsFrame, Spent
<1>2. \A c \in Int : Covers(Append(rest, v), c) <=> Covers(Append(rest, u), c)
  <2> TAKE c \in Int
  <2>1. CASE IsFrame(u)
    BY <1>1, <2>1, CoversPushed
  <2>2. CASE ~IsFrame(u)
    BY <1>1, <2>2, CoversPushed
  <2> QED BY <2>1, <2>2
<1>3. PaidFor(rest, v) <=> PaidFor(rest, u)
  BY <1>1, <1>2 DEF PaidFor
<1>4. /\ Entered(Append(rest, v), ws) <=> Entered(Append(rest, u), ws)
      /\ EnteredBelow(Append(rest, v), ws) <=> EnteredBelow(Append(rest, u), ws)
  BY <1>1, EnteredPushed
<1> QED BY <1>1, <1>2, <1>3, <1>4, PaidPushed

(* A declaration. *)
LEMMA DeclareCosts ==
  ASSUME IInv, CostInv, NEW closable \in BOOLEAN, Declare(closable)
  PROVE  CostInv'
<1>1. /\ err = NoErr /\ stack # <<>> /\ Top.kind = "fn" /\ Top.closes
      /\ Len(Top.open) < MaxVars /\ (closable => Top.decl < MaxVars)
      /\ UNCHANGED <<depth, weights, cost, msgh, nest, err, newest>>
  BY DEF Declare, Running
<1>2. PICK rest, a : Stands(rest, a)
  BY <1>1, HasTop DEF IInv
<1>3. /\ a \in FnRec /\ rest \in Seq(Act) /\ stack = Append(rest, a) /\ Top = a /\ Fits(rest, a)
  BY <1>1, <1>2, Kinds DEF Stands
<1> DEFINE n == IF closable THEN a.decl + 1 ELSE a.decl
           k == IF closable THEN n ELSE 0
           b == Declaring(a, n, k)
<1>4. SameFn(a, b) /\ b.w = a.w
  <2>1. VarsApart(a)
    BY <1>1, <1>3 DEF Fits, FitsFn
  <2>2. b.w = a.w
    BY <1>3 DEF Declaring, FnRec
  <2> QED BY <2>1, <2>2, <1>1, <1>3, DeclaringKeeps
<1>5. stack' = Append(rest, b)
  <2>1. stack' = DeclaredAs(stack, n, k)
    BY <1>3 DEF Declare, DeclaredAs
  <2>2. b \in Act
    BY <1>4 DEF SameFn, Act
  <2> QED BY <2>1, <2>2, <1>3, DeclaredTop
<1> HIDE DEF b
<1>6. /\ stack \in Seq(Act) /\ cost \in Int
      /\ Paid(stack) /\ Covers(stack, cost) /\ Entered(stack, weights)
  BY <1>1, RunningPaid DEF Ready
<1>7. Paid(stack') /\ Covers(stack', cost) /\ Entered(stack', weights)
  BY <1>3, <1>4, <1>5, <1>6, SameCosts
<1> QED BY <1>1, <1>7 DEF CostInv, Solvent

(* What a stack with an activation at the top owes. *)
LEMMA TopCosts ==
  ASSUME IInv, CostInv, NEW rest \in Seq(Act), NEW a \in Act, stack = Append(rest, a), Top = a
  PROVE  /\ Paid(rest) /\ PaidFor(rest, a)
         /\ a.kind = "pcall" => weights[a.depth] = a.w
         /\ err = NoErr /\ IsFrame(a) => weights[a.depth] = a.w
         /\ IF Spent(a) THEN EnteredBelow(rest, weights) ELSE Entered(rest, weights)
         /\ err = NoErr /\ a.kind # "closing" => Covers(stack, cost)
<1>1. Paid(rest) /\ PaidFor(rest, a) /\ stack # <<>>
  BY PaidPushed, Pushed DEF CostInv, Solvent
<1>2. CASE err = NoErr
  BY <1>1, <1>2, EnteredPushed DEF CostInv, Solvent, Top, IsFrame
<1>3. CASE err # NoErr
  BY <1>1, <1>3, EnteredPushed DEF CostInv, Solvent, IsFrame
<1> QED BY <1>1, <1>2, <1>3

(* Tail calls, in programs whose calls all have frames: the caller's weight *)
(* is exchanged for the callee's, unless that raises an error.              *)
LEMMA TailCallCosts ==
  ASSUME IInv, CostInv, NEW w \in Weights, NEW closes \in Closers, TailCall(w, closes)
  PROVE  CostInv'
<1> DEFINE c == IF depth = 0 THEN cost ELSE cost - weights[depth] + w
           a == Fn(w, Top.framed, closes, depth, c)
<1>1. /\ err = NoErr /\ stack # <<>> /\ Top.kind = "fn" /\ Len(stack) > 1
      /\ weights' = IF depth = 0 THEN weights ELSE [weights EXCEPT ![depth] = w]
      /\ \/ depth > 0 /\ c > Budget /\ Raise(stack, depth, c, Overflow)
         \/ /\ depth > 0 => c <= Budget
            /\ stack' = Append(Dropped(1), a) /\ cost' = c
            /\ UNCHANGED <<depth, msgh, nest, err, newest>>
  BY DEF TailCall, Running
<1>2. Ready(stack, depth, cost) /\ Covers(stack, cost) /\ Paid(stack)
  BY <1>1, RunningPaid
<1>3. /\ depth = Frames(stack) /\ depth \in 0..MaxStack /\ cost \in Int /\ w \in Nat
      /\ cost <= Budget /\ weights \in [1..MaxStack -> Nat]
  BY <1>1, WeightsAssumption DEF IInv, Matches, Top
<1>4. PICK rest, old : Stands(rest, old)
  BY <1>1, HasTop DEF IInv
<1>5. /\ old \in FnRec /\ old \in Act /\ old.kind = "fn"
      /\ rest \in Seq(Act) /\ stack = Append(rest, old) /\ Top = old /\ Dropped(1) = rest /\ Sound(rest)
      /\ Len(stack) = Len(rest) + 1
  BY <1>1, <1>4, Kinds DEF Stands
<1>6. old.framed = TRUE /\ IsFrame(old) /\ ~Spent(old) /\ weights[depth] = old.w /\ Entered(rest, weights) /\ Paid(rest)
      /\ old.w \in Nat
  <2>1. rest # <<>>
    BY <1>1, <1>5
  <2>2. ~Spent(old)
    BY <1>5 DEF Spent
  <2>3. Paid(rest) /\ PaidFor(rest, old) /\ Entered(rest, weights) /\ (IsFrame(old) => weights[old.depth] = old.w)
    BY <1>1, <1>5, <2>2, TopCosts
  <2>4. old.framed /\ IsFrame(old)
    BY <1>5, <2>1, <2>3 DEF PaidFor, IsFrame
  <2>5. old.depth = depth
    BY <1>3, <1>4, <1>5 DEF Stands, Fits, FitsFn
  <2>6. old.framed = TRUE /\ old.w \in Nat
    BY <1>5, <2>4 DEF FnRec
  <2> QED BY <2>2, <2>3, <2>4, <2>5, <2>6
<1>7. depth = Frames(rest) + 1 /\ Frames(rest) \in Nat /\ depth \in 1..MaxStack /\ depth > Frames(rest)
  <2>1. depth = Frames(rest) + 1 /\ Frames(rest) \in Nat
    BY <1>3, <1>5, <1>6, FramesPushed
  <2> QED BY <2>1, <1>3, BoundsAssumption
<1>8. c = (cost - old.w) + w /\ c \in Int /\ weights' = [weights EXCEPT ![depth] = w]
  BY <1>1, <1>3, <1>6, <1>7
<1>9. Entered(rest, weights') /\ weights'[depth] = w
  <2>1. Frames(rest) <= MaxStack /\ depth \in Nat
    BY <1>7, BoundsAssumption
  <2> QED BY <2>1, <1>3, <1>5, <1>6, <1>7, <1>8, EnteredElsewhere
<1>10. CASE c > Budget /\ Raise(stack, depth, c, Overflow)
  <2> HIDE DEF c
  <2>1. EnteredBelow(stack, weights')
    BY <1>5, <1>6, <1>9, EnteredPushed
  <2>2. cost <= c
    BY <1>3, <1>8, <1>10, BudgetAssumption
  <2>3. Overflow \in Errors \cup {Overflow}
    OBVIOUS
  <2> QED BY <1>2, <1>8, <1>10, <2>1, <2>2, <2>3, RaiseCosts
<1>11. CASE /\ stack' = Append(Dropped(1), a) /\ cost' = c
            /\ UNCHANGED <<depth, msgh, nest, err, newest>>
  <2>1. IsNewFn(a, TRUE, depth, c) /\ a.w = w
    <3>1. closes \in BOOLEAN /\ TRUE \in BOOLEAN /\ a = Fn(w, TRUE, closes, depth, c) /\ depth \in Nat
      <4>1. closes \in BOOLEAN /\ TRUE \in BOOLEAN /\ depth \in Nat
        BY ClosersBoolean, <1>3
      <4>2. Top.framed = TRUE
        BY <1>5, <1>6
      <4> HIDE DEF c
      <4>3. a = Fn(w, TRUE, closes, depth, c)
        BY <4>2, Zenon
      <4> HIDE DEF a
      <4> QED BY <4>1, <4>3
    <3>2. a.w = w
      BY DEF Fn
    <3> HIDE DEF a, c
    <3>3. IsNewFn(Fn(w, TRUE, closes, depth, c), TRUE, depth, c)
      BY <3>1, <1>3, <1>8, NewFn, Zenon
    <3> QED BY <3>1, <3>2, <3>3
  <2> HIDE DEF a, c
  <2>2. a \in Act /\ a.kind = "fn" /\ IsFrame(a) /\ ~Spent(a) /\ a.depth = depth /\ a.cost = c /\ a.framed
    BY <2>1 DEF IsNewFn, IsFrame, Spent
  <2>3. Covers(Append(rest, a), c)
    <3>1. Covers(rest, cost - old.w)
      BY <1>2, <1>3, <1>5, <1>6, CoversPushed
    <3>2. cost - old.w = c - a.w
      BY <1>3, <1>6, <1>8, <2>1
    <3> QED BY <3>1, <3>2, <1>5, <1>8, <2>2, CoversPushed
  <2>4. PaidFor(rest, a)
    BY <2>2, <2>3 DEF PaidFor
  <2>5. Paid(stack') /\ Entered(stack', weights')
    BY <1>5, <1>6, <1>9, <1>11, <2>1, <2>2, <2>4, PaidPushed, EnteredPushed
  <2> QED BY <1>1, <1>5, <1>11, <2>3, <2>5 DEF CostInv, Solvent
<1> QED BY <1>1, <1>7, <1>10, <1>11

(* Leaving a scope. *)
LEMMA LeaveScopeCosts ==
  ASSUME IInv, CostInv, NEW target \in 0..(MaxVars - 1), LeaveScope(target)
  PROVE  CostInv'
<1> DEFINE a == Closing(target, NoErr, depth, cost, FALSE)
<1>1. /\ err = NoErr /\ stack # <<>> /\ Top.kind = "fn" /\ stack' = Append(stack, a)
      /\ UNCHANGED <<depth, weights, cost, msgh, nest, err, newest>>
  BY DEF LeaveScope, Running
<1>2. /\ stack \in Seq(Act) /\ Paid(stack) /\ Covers(stack, cost) /\ Entered(stack, weights)
      /\ depth \in Nat /\ cost \in Int
  BY <1>1, RunningPaid, FramesPushed, InvTypes DEF TypeOK
<1>3. /\ a \in Act /\ a.kind = "closing" /\ ~IsFrame(a) /\ ~Spent(a) /\ a.cost = cost
  <2>1. target \in Nat /\ NoErr \in ErrRec /\ FALSE \in BOOLEAN
    BY BoundsAssumption DEF NoErr, ErrRec, ErrVals
  <2>2. a \in ClosingRec
    BY <1>2, <2>1 DEF Closing, ClosingRec
  <2>3. a.kind = "closing" /\ a.unwinding = FALSE /\ a.cost = cost
    BY DEF Closing
  <2> HIDE DEF a
  <2> QED BY <2>2, <2>3 DEF Act, IsFrame, Spent
<1> HIDE DEF a
<1>4. Covers(Append(stack, a), cost)
  BY <1>2, <1>3, CoversPushed
<1>5. PaidFor(stack, a)
  BY <1>3, <1>4 DEF PaidFor
<1>6. Paid(stack') /\ Entered(stack', weights)
  BY <1>1, <1>2, <1>3, <1>5, PaidPushed, EnteredPushed
<1> QED BY <1>1, <1>4, <1>6 DEF CostInv, Solvent

(* The catch of an error starts over from the cost at entry, and lends the  *)
(* headroom.                                                                *)
LEMMA CatchInFnCosts ==
  ASSUME IInv, CostInv, CatchInFn
  PROVE  CostInv'
<1> DEFINE c == Top.cost - Headroom
           a == Closing(0, err, Top.depth, c, TRUE)
<1>1. /\ err # NoErr /\ stack # <<>> /\ Top.kind = "fn"
      /\ stack' = Append(stack, a) /\ err' = NoErr /\ weights' = weights
  BY DEF CatchInFn, Unwinding
<1>2. PICK rest, f : Stands(rest, f)
  BY <1>1, HasTop DEF IInv
<1>3. /\ f \in FnRec /\ f \in Act /\ rest \in Seq(Act) /\ stack = Append(rest, f) /\ Top = f
      /\ f.kind = "fn" /\ f.cost \in Int /\ f.depth \in Nat /\ stack \in Seq(Act)
  <2>1. f \in FnRec /\ stack \in Seq(Act)
    BY <1>1, <1>2, Kinds DEF Stands, IInv, Sound
  <2> QED BY <2>1, <1>1, <1>2 DEF Stands, FnRec
<1>4. Paid(stack) /\ PaidFor(rest, f) /\ EnteredBelow(stack, weights)
  BY <1>1, <1>3, TopCosts DEF CostInv, Solvent
<1>5. /\ a \in Act /\ a.kind = "closing" /\ a.unwinding /\ Spent(a) /\ ~IsFrame(a) /\ a.cost = c /\ c \in Int
      /\ c + Headroom = f.cost
  <2>1. c \in Int /\ TRUE \in BOOLEAN /\ 0 \in Nat /\ err \in ErrRec /\ c + Headroom = f.cost
    BY <1>3, BudgetAssumption DEF IInv, Matches
  <2> HIDE DEF c
  <2>2. a \in ClosingRec
    BY <1>3, <2>1 DEF Closing, ClosingRec
  <2>3. a.kind = "closing" /\ a.unwinding /\ a.cost = c
    BY DEF Closing
  <2> HIDE DEF a
  <2> QED BY <2>1, <2>2, <2>3 DEF Act, IsFrame, Spent
<1> HIDE DEF a, c
<1>6. Covers(Append(stack, a), c)
  <2>1. Covers(stack, c + Headroom)
    BY <1>3, <1>4, <1>5 DEF PaidFor
  <2> QED BY <1>3, <1>5, <2>1, CoversPushed
<1>7. PaidFor(stack, a)
  BY <1>5, <1>6 DEF PaidFor
<1>8. Paid(stack') /\ Entered(stack', weights)
  BY <1>1, <1>3, <1>4, <1>5, <1>7, PaidPushed, EnteredPushed
<1>9. stack'[Len(stack')] = a
  BY <1>1, <1>3, <1>5, Grows
<1> QED BY <1>1, <1>5, <1>8, <1>9 DEF CostInv, Solvent

(* What $close_upto finds under it, less the variable it takes off. *)
LEMMA PoppedPaid ==
  ASSUME IInv, CostInv, Running("closing"), Len(Under.open) > Top.target, NEW k, k = NextOpen
  PROVE  /\ Popped(k) \in Seq(Act) /\ Paid(Popped(k)) /\ Covers(Popped(k), Top.cost)
         /\ Entered(Popped(k), weights)
         /\ \E b \in Act : Popped(k)[Len(Popped(k))] = b /\ b.kind = "closing"
<1>1. err = NoErr /\ stack # <<>> /\ Top.kind = "closing" /\ Sound(stack)
  BY DEF Running, IInv
<1>2. PICK rest, u, a :
            /\ rest \in Seq(Act) /\ u \in FnRec /\ u \in Act /\ a \in ClosingRec /\ a \in Act
            /\ stack = Append(Append(rest, u), a) /\ Top = a /\ Under = u
            /\ a.kind = "closing" /\ ~IsFrame(a) /\ VarsApart(u)
            /\ Append(rest, u) \in Seq(Act)
  BY <1>1, ClosingOn
<1> DEFINE v == Popping1(u, k)
           su == Append(rest, u)
           sv == Append(rest, v)
<1>3. SameFn(u, v) /\ v.w = u.w
  <2>1. Len(u.open) > 0 /\ k = u.open[Len(u.open)]
    BY <1>2 DEF NextOpen, ClosingRec, FnRec
  <2>2. v.w = u.w
    BY <1>2 DEF Popping1, FnRec
  <2> QED BY <2>1, <2>2, <1>2, PoppingKeeps
<1>4. Popped(k) = Append(sv, a)
  <2>1. Popped(k) = PoppedAs(stack, k)
    BY DEF Popped, PoppedAs
  <2>2. v \in Act
    BY <1>3 DEF SameFn, Act
  <2> QED BY <2>1, <2>2, <1>2, PoppedUnder
<1> HIDE DEF v
<1>5. /\ v \in Act /\ (IsFrame(u) <=> IsFrame(v))
      /\ \A c \in Int : Covers(sv, c) <=> Covers(su, c)
      /\ Paid(sv) <=> Paid(su)
      /\ Entered(sv, weights) <=> Entered(su, weights)
      /\ EnteredBelow(sv, weights) <=> EnteredBelow(su, weights)
  BY <1>2, <1>3, SameCosts
<1>6. su \in Seq(Act) /\ sv \in Seq(Act) /\ stack = Append(su, a) /\ a.cost \in Int /\ Headroom \in Int
  BY <1>2, <1>5, Pushed, BudgetAssumption DEF ClosingRec
<1> HIDE DEF su, sv
<1>7. Paid(su) /\ PaidFor(su, a) /\ (IF Spent(a) THEN EnteredBelow(su, weights) ELSE Entered(su, weights))
  BY <1>2, <1>6, TopCosts
<1>8. Covers(Append(su, a), a.cost)
  BY <1>2, <1>7 DEF PaidFor
<1>9. Covers(Append(sv, a), a.cost)
  <2>1. CASE a.unwinding
    <3>1. Covers(su, a.cost + Headroom)
      BY <1>2, <1>6, <1>8, <2>1, CoversPushed
    <3>2. Covers(sv, a.cost + Headroom)
      BY <3>1, <1>5, <1>6
    <3> QED BY <3>2, <1>2, <1>6, <2>1, CoversPushed
  <2>2. CASE ~a.unwinding
    <3>1. ~Spent(a)
      BY <1>2, <2>2 DEF Spent
    <3> QED BY <3>1, <1>2, <1>5, <1>6, <1>8, CoversPushed
  <2> QED BY <2>1, <2>2
<1>10. PaidFor(sv, a)
  BY <1>2, <1>9 DEF PaidFor
<1>11. Paid(Append(sv, a)) /\ Entered(Append(sv, a), weights)
  BY <1>2, <1>5, <1>6, <1>7, <1>10, PaidPushed, EnteredPushed
<1>12. Append(sv, a) \in Seq(Act) /\ Append(sv, a)[Len(Append(sv, a))] = a
  BY <1>2, <1>6, Grows
<1> QED BY <1>2, <1>4, <1>9, <1>11, <1>12

(* The steps of $close_upto: *)
LEMMA CloseCosts ==
  ASSUME IInv, CostInv,
         \/ \E w \in Weights, closes \in Closers : CloseNext(w, closes)
         \/ \E v \in Errors : CloseFails(v)
         \/ CloseSkips
  PROVE  CostInv'
<1>1. Running("closing") /\ Len(Under.open) > Top.target /\ err = NoErr
  BY DEF CloseNext, CloseFails, CloseSkips, Running
<1> DEFINE st == Popped(NextOpen)
           d == Top.depth
           c == Top.cost
<1>2. Ready(st, d, c) /\ c \in Int
  BY <1>1, PoppedReady DEF Ready
<1>3. /\ Paid(st) /\ Covers(st, c) /\ Entered(st, weights) /\ st \in Seq(Act)
      /\ st[Len(st)].kind = "closing"
  BY <1>1, PoppedPaid
<1>4. ASSUME NEW w \in Weights, NEW closes \in Closers, CloseNext(w, closes)
      PROVE  CostInv'
  <2>1. Enter(st, d, c, w, closes)
    BY <1>4 DEF CloseNext
  <2> HIDE DEF st, d, c
  <2> QED BY <2>1, <1>2, <1>3, EnterCosts
<1>5. ASSUME NEW v \in Errors, CloseFails(v)
      PROVE  CostInv'
  <2>1. Raise(st, d, c, v) /\ weights' = weights
    BY <1>5 DEF CloseFails
  <2> HIDE DEF st, d, c
  <2>2. EnteredBelow(st, weights')
    BY <1>3, <2>1, EnteredWeaker
  <2>3. v \in Errors \cup {Overflow} /\ c <= c
    BY <1>2
  <2> QED BY <2>1, <2>2, <2>3, <1>2, <1>3, RaiseCosts
<1>6. ASSUME CloseSkips
      PROVE  CostInv'
  <2>1. stack' = st /\ err' = err /\ weights' = weights
    BY <1>6 DEF CloseSkips
  <2> HIDE DEF st
  <2> QED BY <2>1, <1>1, <1>3 DEF CostInv, Solvent
<1> QED BY <1>4, <1>5, <1>6

(* its end, *)
LEMMA CloseDoneCosts ==
  ASSUME IInv, CostInv, CloseDone
  PROVE  CostInv'
<1>1. /\ err = NoErr /\ stack # <<>> /\ Top.kind = "closing" /\ Sound(stack)
      /\ stack' = Dropped(IF Top.unwinding THEN 2 ELSE 1)
      /\ cost' = Top.cost /\ err' = Top.pending /\ weights' = weights
  BY DEF CloseDone, Running, IInv
<1>2. PICK rest, u, a :
            /\ rest \in Seq(Act) /\ u \in FnRec /\ u \in Act /\ a \in ClosingRec /\ a \in Act
            /\ stack = Append(Append(rest, u), a) /\ Top = a
            /\ Dropped(1) = Append(rest, u) /\ Dropped(2) = rest
            /\ u.kind = "fn" /\ a.kind = "closing" /\ ~IsFrame(a)
            /\ Append(rest, u) \in Seq(Act) /\ FitsClosing(Append(rest, u), a)
  BY <1>1, ClosingOn
<1> DEFINE su == Append(rest, u)
<1>3. su \in Seq(Act) /\ stack = Append(su, a) /\ a.cost \in Int /\ su # <<>> /\ Dropped(1) = su
      /\ FitsClosing(su, a)
  BY <1>2, Pushed DEF ClosingRec
<1>4. (Paid(su) <=> Paid(rest) /\ PaidFor(rest, u)) /\ (Entered(su, weights) => Entered(rest, weights))
      /\ (EnteredBelow(su, weights) => Entered(rest, weights))
  <2>1. ~Spent(u)
    BY <1>2 DEF Spent
  <2> QED BY <2>1, <1>2, PaidPushed, EnteredPushed
<1> HIDE DEF su
<1>5. Paid(su) /\ PaidFor(su, a) /\ (IF Spent(a) THEN EnteredBelow(su, weights) ELSE Entered(su, weights))
  BY <1>2, <1>3, TopCosts
<1>6. CASE a.unwinding
  <2>1. stack' = rest /\ err' # NoErr
    BY <1>1, <1>2, <1>3, <1>6 DEF FitsClosing
  <2>2. Entered(rest, weights) /\ Paid(rest)
    BY <1>4, <1>5
  <2> QED BY <1>1, <1>2, <2>1, <2>2, EnteredWeaker DEF CostInv, Solvent
<1>7. CASE ~a.unwinding
  <2>1. stack' = su /\ cost' = a.cost
    BY <1>1, <1>2, <1>3, <1>7
  <2>2. ~Spent(a) /\ Covers(Append(su, a), a.cost)
    BY <1>2, <1>5, <1>7 DEF PaidFor, Spent
  <2>3. Covers(su, a.cost)
    BY <1>2, <1>3, <2>2, CoversPushed
  <2> QED BY <1>1, <1>3, <1>5, <2>1, <2>2, <2>3, EnteredWeaker DEF CostInv, Solvent
<1> QED BY <1>6, <1>7

(* and an error caught by it. *)
LEMMA CatchInCloseCosts ==
  ASSUME IInv, CostInv, CatchInClose
  PROVE  CostInv'
<1>1. /\ err # NoErr /\ stack # <<>> /\ Top.kind = "closing" /\ Sound(stack)
      /\ stack' = [stack EXCEPT ![Len(stack)].pending = err] /\ err' = NoErr /\ weights' = weights
  BY DEF CatchInClose, Unwinding, IInv
<1>2. PICK rest, u, a :
            /\ a \in ClosingRec /\ a \in Act
            /\ stack = Append(Append(rest, u), a) /\ Top = a
            /\ a.kind = "closing" /\ ~IsFrame(a)
            /\ Append(rest, u) \in Seq(Act)
  BY <1>1, ClosingOn
<1> DEFINE su == Append(rest, u)
           b == [a EXCEPT !.pending = err]
<1>3. su \in Seq(Act) /\ stack = Append(su, a)
  BY <1>2
<1>4. /\ b \in ClosingRec /\ b.kind = "closing" /\ b.cost = a.cost /\ b.unwinding = a.unwinding /\ a.cost \in Int
  BY <1>1, <1>2 DEF ClosingRec, IInv, Matches
<1>5. b \in Act /\ ~IsFrame(b) /\ (Spent(b) <=> Spent(a))
  BY <1>2, <1>4 DEF Act, IsFrame, Spent
<1>6. stack' = [stack EXCEPT ![Len(stack)] = b] /\ Len(stack) = Len(su) + 1
  BY <1>1, <1>2, <1>3, Grows DEF Top
<1> HIDE DEF su, b
<1>7. stack' = Append(su, b)
  BY <1>2, <1>3, <1>5, <1>6, TopReplaced
<1>8. Paid(su) /\ PaidFor(su, a) /\ (IF Spent(a) THEN EnteredBelow(su, weights) ELSE Entered(su, weights))
  BY <1>2, <1>3, TopCosts
<1>9. Covers(Append(su, b), b.cost)
  <2>1. Covers(Append(su, a), a.cost)
    BY <1>2, <1>8 DEF PaidFor
  <2>2. CASE a.unwinding
    <3>1. Covers(su, a.cost + Headroom)
      BY <1>2, <1>3, <1>4, <2>1, <2>2, CoversPushed
    <3> QED BY <3>1, <1>3, <1>4, <1>5, <2>2, CoversPushed
  <2>3. CASE ~a.unwinding
    <3>1. ~Spent(a)
      BY <1>2, <2>3 DEF Spent
    <3>2. Covers(su, a.cost)
      BY <3>1, <1>2, <1>3, <1>4, <2>1, CoversPushed
    <3> QED BY <3>1, <3>2, <1>3, <1>4, <1>5, CoversPushed
  <2> QED BY <2>2, <2>3
<1>10. PaidFor(su, b)
  BY <1>4, <1>9 DEF PaidFor
<1>11. Paid(stack') /\ Entered(stack', weights)
  BY <1>3, <1>5, <1>7, <1>8, <1>10, PaidPushed, EnteredPushed
<1>12. stack'[Len(stack')] = b
  BY <1>3, <1>5, <1>7, Grows
<1> QED BY <1>1, <1>4, <1>11, <1>12 DEF CostInv, Solvent

(* A return takes off what the call put on. *)
LEMMA ReturnPays ==
  ASSUME IInv, CostInv, Running("fn"), NEW rest, NEW a, Stands(rest, a)
  PROVE  /\ rest \in Seq(Act) /\ Paid(rest) /\ Entered(rest, weights) /\ Covers(rest, PopCost)
         /\ PopDepth = Frames(rest) /\ PopCost \in Int /\ stack = Append(rest, a) /\ a \in Act
<1>1. err = NoErr /\ stack # <<>> /\ Top.kind = "fn"
  BY DEF Running
<1>2. /\ rest \in Seq(Act) /\ a \in FnRec /\ a \in Act /\ stack = Append(rest, a) /\ Top = a
      /\ a.kind = "fn" /\ FitsFn(rest, a)
  BY <1>1, Kinds DEF Stands, Fits
<1>3. PICK r, x :
         /\ stack = Append(r, x) /\ Top = x /\ Dropped(1) = r
         /\ depth = Frames(stack) /\ PopDepth = Frames(r)
         /\ cost \in Int /\ PopCost \in Int
  BY FnOnTop
<1>4. r = rest /\ x = a
  BY <1>2, <1>3 DEF Stands
<1>5. ~Spent(a)
  BY <1>2 DEF Spent
<1>6. Paid(rest) /\ Entered(rest, weights) /\ Covers(stack, cost) /\ (IsFrame(a) => weights[a.depth] = a.w)
  BY <1>1, <1>2, <1>5, TopCosts
<1>7. Covers(rest, PopCost)
  <2>1. CASE a.framed
    <3>1. IsFrame(a) /\ a.depth = depth
      BY <1>2, <1>3, <2>1 DEF IsFrame, FitsFn
    <3>2. PopCost = cost - a.w
      BY <1>2, <1>6, <2>1, <3>1 DEF PopCost
    <3>3. Covers(Append(rest, a), cost)
      BY <1>2, <1>6
    <3>4. Covers(rest, cost - a.w)
      BY <1>2, <1>3, <3>1, <3>3, CoversPushed
    <3> QED BY <3>2, <3>4
  <2>2. CASE ~a.framed
    <3>1. ~IsFrame(a) /\ PopCost = cost
      BY <1>2, <2>2 DEF IsFrame, PopCost
    <3>2. Covers(Append(rest, a), cost)
      BY <1>2, <1>6
    <3>3. Covers(rest, cost)
      BY <1>2, <1>3, <1>5, <3>1, <3>2, CoversPushed
    <3> QED BY <3>1, <3>3
  <2> QED BY <2>1, <2>2
<1> QED BY <1>2, <1>3, <1>4, <1>6, <1>7

(* Returns to Lua code and to $close_upto, *)
LEMMA ReturnCosts ==
  ASSUME IInv, CostInv, Return
  PROVE  CostInv'
<1>1. /\ Running("fn") /\ stack' = Dropped(1) /\ cost' = PopCost /\ weights' = weights /\ err' = err
      /\ err = NoErr /\ stack # <<>>
  BY DEF Return, Running
<1>2. PICK rest, a : Stands(rest, a)
  BY <1>1, HasTop DEF IInv
<1>3. Paid(rest) /\ Entered(rest, weights) /\ Covers(rest, PopCost) /\ Dropped(1) = rest
  BY <1>1, <1>2, ReturnPays DEF Stands
<1> QED BY <1>1, <1>3 DEF CostInv, Solvent

(* to $protected_call, *)
LEMMA ReturnToPcallCosts ==
  ASSUME IInv, CostInv, ReturnToPcall
  PROVE  CostInv'
<1>1. /\ Running("fn") /\ Len(stack) > 1 /\ Under.kind = "pcall" /\ err = NoErr /\ stack # <<>>
      /\ stack' = Dropped(2) /\ cost' = PopCost - weights[PopDepth] /\ weights' = weights /\ err' = err
  BY DEF ReturnToPcall, Running
<1>2. PICK rest, a : Stands(rest, a)
  BY <1>1, HasTop DEF IInv
<1>3. /\ rest \in Seq(Act) /\ Paid(rest) /\ Entered(rest, weights) /\ Covers(rest, PopCost)
      /\ PopDepth = Frames(rest) /\ PopCost \in Int /\ stack = Append(rest, a) /\ a \in Act
  BY <1>1, <1>2, ReturnPays
<1>4. rest # <<>>
  <2>1. Len(stack) = Len(rest) + 1
    BY <1>3, Pushed
  <2>2. Len(<<>>) = 0
    OBVIOUS
  <2> QED BY <2>1, <2>2, <1>1
<1>5. PICK st, p : rest = Append(st, p) /\ Stands2(st, p, a)
  BY <1>2, <1>4, HasUnder
<1>6. /\ st \in Seq(Act) /\ p \in Act /\ p.kind = "pcall" /\ Dropped(2) = st /\ Fits(st, p) /\ IsFrame(p)
      /\ ~Spent(p)
  BY <1>1, <1>5 DEF Stands2, IsFrame, Spent
<1>7. p.depth = Frames(rest)
  BY <1>5, <1>6, Grows DEF Fits, FitsPcall
<1>8. Paid(st) /\ Entered(st, weights) /\ weights[p.depth] = p.w
  BY <1>3, <1>5, <1>6, PaidPushed, EnteredPushed
<1>9. Covers(st, PopCost - p.w)
  BY <1>3, <1>5, <1>6, CoversPushed
<1>10. cost' = PopCost - p.w
  BY <1>1, <1>3, <1>7, <1>8
<1> QED BY <1>1, <1>6, <1>8, <1>9, <1>10 DEF CostInv, Solvent

(* and to $raised, where the error unwinds the stack. *)
LEMMA ReturnToRaisedCosts ==
  ASSUME IInv, CostInv, ReturnToRaised
  PROVE  CostInv'
<1>1. /\ Running("fn") /\ Len(stack) > 1 /\ Under.kind = "handler" /\ err = NoErr /\ stack # <<>>
      /\ stack' = Dropped(2) /\ weights' = weights /\ err' = [Under.arg EXCEPT !.handled = @ + 1]
  BY DEF ReturnToRaised, Running
<1>2. PICK rest, a : Stands(rest, a)
  BY <1>1, HasTop DEF IInv
<1>3. /\ rest \in Seq(Act) /\ Paid(rest) /\ Entered(rest, weights)
      /\ stack = Append(rest, a) /\ a \in Act
  BY <1>1, <1>2, ReturnPays
<1>4. rest # <<>>
  <2>1. Len(stack) = Len(rest) + 1
    BY <1>3, Pushed
  <2>2. Len(<<>>) = 0
    OBVIOUS
  <2> QED BY <2>1, <2>2, <1>1
<1>5. PICK st, h : rest = Append(st, h) /\ Stands2(st, h, a)
  BY <1>2, <1>4, HasUnder
<1>6. /\ st \in Seq(Act) /\ h \in Act /\ h.kind = "handler" /\ Dropped(2) = st /\ Fits(st, h) /\ Spent(h)
      /\ h \in HandlerRec /\ Under = h
  BY <1>1, <1>5, Kinds DEF Stands2, Spent
<1>7. Paid(st) /\ EnteredBelow(st, weights)
  BY <1>3, <1>5, <1>6, PaidPushed, EnteredPushed
<1>8. err' # NoErr
  <2>1. h.arg \in ErrRec /\ h.arg.handled = 0
    BY <1>6 DEF Fits, FitsHandler, HandlerRec
  <2>2. err'.handled = 1
    BY <2>1, <1>1, <1>6 DEF ErrRec
  <2> QED BY <2>2 DEF NoErr
<1> QED BY <1>1, <1>6, <1>7, <1>8 DEF CostInv, Solvent

(* An error passes a function or a handler. *)
LEMMA UnwindCosts ==
  ASSUME IInv, CostInv, UnwindFn \/ HandlerRaised
  PROVE  CostInv'
<1>1. /\ err # NoErr /\ stack # <<>> /\ Sound(stack)
      /\ stack' = Dropped(1) /\ err' = err /\ weights' = weights
  BY DEF UnwindFn, HandlerRaised, Unwinding, IInv
<1>2. PICK rest, a : Stands(rest, a)
  BY <1>1, HasTop
<1>3. /\ rest \in Seq(Act) /\ a \in Act /\ stack = Append(rest, a) /\ Top = a /\ Dropped(1) = rest
  BY <1>2 DEF Stands
<1>4. Paid(rest) /\ EnteredBelow(rest, weights)
  BY <1>3, TopCosts, EnteredWeaker
<1> QED BY <1>1, <1>3, <1>4 DEF CostInv, Solvent

(* A protected call goes on at the cost it has saved, less its own. *)
LEMMA CatchInPcallCosts ==
  ASSUME IInv, CostInv, CatchInPcall
  PROVE  CostInv'
<1>1. /\ stack # <<>> /\ Top.kind = "pcall" /\ Sound(stack)
      /\ stack' = Dropped(1) /\ cost' = Top.cost - weights[Top.depth] /\ err' = NoErr /\ weights' = weights
  BY DEF CatchInPcall, Unwinding, IInv
<1>2. PICK st, p : Stands(st, p)
  BY <1>1, HasTop
<1>3. /\ st \in Seq(Act) /\ p \in Act /\ stack = Append(st, p) /\ Top = p /\ Dropped(1) = st
      /\ p.kind = "pcall" /\ p \in PcallRec /\ p.cost \in Int
  BY <1>1, <1>2, Kinds DEF Stands, PcallRec
<1>4. IsFrame(p) /\ ~Spent(p)
  BY <1>3 DEF IsFrame, Spent
<1>5. Paid(st) /\ Entered(st, weights) /\ weights[p.depth] = p.w /\ PaidFor(st, p)
  BY <1>3, <1>4, TopCosts
<1>6. Covers(st, p.cost - p.w)
  BY <1>3, <1>4, <1>5, CoversPushed DEF PaidFor
<1>7. cost' = p.cost - p.w
  BY <1>1, <1>3, <1>5
<1> QED BY <1>1, <1>3, <1>5, <1>6, <1>7 DEF CostInv, Solvent

(* The main chunk alone owes nothing. *)
LEMMA InitCosts == Init => CostInv
<1> SUFFICES ASSUME Init PROVE CostInv
  OBVIOUS
<1>1. PICK closes \in Closers : stack = <<Fn(0, FALSE, closes, 0, 0)>>
  BY DEF Init
<1> DEFINE a == Fn(0, FALSE, closes, 0, 0)
           none == <<>>
<1>2. IsNewFn(a, FALSE, 0, 0)
  <2>1. closes \in BOOLEAN /\ FALSE \in BOOLEAN /\ 0 \in Nat /\ 0 \in Int
    BY ClosersBoolean
  <2> QED BY <2>1, NewFn, Zenon
<1> HIDE DEF a
<1>3. a \in Act /\ a.kind = "fn" /\ ~IsFrame(a) /\ ~Spent(a) /\ a.cost = 0
  BY <1>2 DEF IsNewFn, IsFrame, Spent
<1>4. none \in Seq(Act) /\ stack = Append(none, a) /\ Paid(none) /\ Len(none) = 0
  BY <1>1 DEF a, Paid
<1>5. Covers(none, 0) /\ \A ws : Entered(none, ws)
  <2>1. HandlerCalls(none) = 0 /\ 1..Len(none) = {}
    BY EmptyStack
  <2>2. LoanOf(none) = 0
    <3>1. {i \in 1..Len(none) : Lends(none[i])} = {}
      BY <2>1
    <3>2. LoanOf(none) = Headroom * 0
      BY <3>1, FS_EmptySet DEF LoanOf
    <3> QED BY <3>2, BudgetAssumption
  <2>3. WeightOf(none) = 0
    <3>1. PICK g : Adds(g, Len(none), WeightAt(none)) /\ WeightOf(none) = g[Len(none)]
      BY <1>4, WeightAdds
    <3> HIDE DEF none
    <3> QED BY <3>1, <1>4 DEF Adds
  <2>4. \A ws : Entered(none, ws)
    BY <2>1 DEF Entered, Enters
  <2> HIDE DEF none
  <2>5. Covers(none, 0)
    BY <2>1, <2>2, <2>3 DEF Covers
  <2> QED BY <2>4, <2>5
<1>6. none = <<>>
  OBVIOUS
<1> HIDE DEF none
<1>7. Covers(stack, 0)
  <2> DEFINE z == 0
  <2>1. z \in Int /\ Covers(none, z)
    BY <1>5
  <2> HIDE DEF z
  <2>2. Covers(Append(none, a), z)
    BY <2>1, <1>3, <1>4, CoversPushed
  <2> QED BY <2>2, <1>4 DEF z
<1>8. PaidFor(none, a)
  BY <1>3, <1>4, <1>6, <1>7 DEF PaidFor
<1>9. Paid(stack) /\ Entered(stack, weights)
  BY <1>3, <1>4, <1>5, <1>8, PaidPushed, EnteredPushed
<1>10. cost = 0 /\ err = NoErr
  BY DEF Init
<1> QED BY <1>7, <1>9, <1>10 DEF CostInv, Solvent

(* Every operation keeps the costs. *)
LEMMA NextCosts ==
  ASSUME Frameless = {}, IInv, CostInv, [Next]_vars
  PROVE  CostInv'
<1>1. CASE UNCHANGED vars
  BY <1>1 DEF vars, CostInv
<1>2. ASSUME NEW w \in Weights, NEW closes \in Closers,
             \/ Call(w, closes) \/ TailCall(w, closes)
             \/ CallProtected(w, closes) \/ CallHandler(w, closes)
             \/ CloseNext(w, closes)
      PROVE  CostInv'
  BY <1>2, CallCosts, TailCallCosts, CloseCosts
<1>3. ASSUME NEW v \in Errors, Error(v) \/ CallsNoFunction(v) \/ CloseFails(v)
      PROVE  CostInv'
  BY <1>3, ErrorCosts, CloseCosts
<1>4. ASSUME NEW closable \in BOOLEAN, Declare(closable)
      PROVE  CostInv'
  BY <1>4, DeclareCosts
<1>5. ASSUME NEW target \in 0..(MaxVars - 1), LeaveScope(target)
      PROVE  CostInv'
  BY <1>5, LeaveScopeCosts
<1>6. ASSUME NEW w \in Weights, NEW h \in Handlers \cup {NoHandler}, Pcall(w, h)
      PROVE  CostInv'
  BY <1>6, PcallCosts
<1>7. ASSUME Return \/ ReturnToPcall \/ ReturnToRaised
      PROVE  CostInv'
  BY <1>7, ReturnCosts, ReturnToPcallCosts, ReturnToRaisedCosts
<1>8. ASSUME CloseSkips \/ CloseDone
      PROVE  CostInv'
  BY <1>8, CloseCosts, CloseDoneCosts
<1>9. ASSUME UnwindFn \/ CatchInFn \/ CatchInClose \/ HandlerRaised \/ CatchInPcall
      PROVE  CostInv'
  BY <1>9, UnwindCosts, CatchInFnCosts, CatchInCloseCosts, CatchInPcallCosts
<1> QED BY <1>1, <1>2, <1>3, <1>4, <1>5, <1>6, <1>7, <1>8, <1>9 DEF Next

(* What the costs say of the running program. *)
LEMMA InvCosts == IInv /\ CostInv => CostCoversFrames
<1> SUFFICES ASSUME IInv, CostInv, Running("fn") PROVE
       /\ depth = Cardinality(Framed)
       /\ Weighing(Framed) <= cost + OnLoan
       /\ At("handler") = {} => Weighing(Framed) = cost + OnLoan
  BY DEF CostCoversFrames
<1>1. /\ Ready(stack, depth, cost) /\ stack \in Seq(Act) /\ Covers(stack, cost)
  BY RunningPaid DEF Running
<1>2. Cardinality(Framed) = Frames(stack)
  BY DEF Frames, Framed, IsFrame
<1>3. Weighing(Framed) = WeightOf(stack)
  BY <1>1, WeighingAdds
<1>4. OnLoan = LoanOf(stack)
  BY DEF OnLoan, LoanOf, Lends
<1>5. At("handler") = {} => HandlerCalls(stack) = 0
  BY FS_EmptySet DEF At, HandlerCalls
<1> QED BY <1>1, <1>2, <1>3, <1>4, <1>5 DEF Ready, Covers

-----------------------------------------------------------------------------
(* Whatever a program calls, raises, protects and declares, the handler an  *)
(* error meets is that of the innermost protected call, and an error in     *)
(* flight has met it once: pcall, xpcall and $raised keep msgh and nest in  *)
(* step with the stack across every return, catch and handler error.        *)
THEOREM HandlersAlwaysRight == Spec => []HandlersRight
  BY Invariant, InvHandlers, PTL

(* The headroom is enough: the outermost message handler, also one that     *)
(* runs because of a stack overflow, and every __close of an unwind can be  *)
(* called with a frame.                                                     *)
THEOREM RoomAlwaysSuffices == Spec => []ExtraRoomSuffices
  BY Invariant, InvRoom, PTL

(* $close_upto closes every variable at most once and none is forgotten,    *)
(* and the error that propagates is the newest one.                         *)
THEOREM ClosesAlwaysRight == Spec => []ClosesRight
  BY Invariant, InvCloses, PTL

(* No return, and no unwinding by an error, takes a function off the stack  *)
(* before each value it declared <close> has been closed.                   *)
THEOREM LeftAlwaysClosed == Spec => LeftClosed
<1>1. IInv /\ [Next]_vars =>
        [\A i \in At("fn") : i > Len(stack') =>
           {stack[i].closed[j] : j \in 1..Len(stack[i].closed)} = 1..stack[i].decl]_vars
  BY LeavesClosed DEF AllClosed
<1> QED BY <1>1, Invariant, PTL DEF Spec, LeftClosed

(* $call_depth counts the frames that are there, also in programs with      *)
(* calls that push none.                                                    *)
THEOREM DepthAlwaysFrames == Spec => [](Running("fn") => depth = Cardinality(Framed))
<1>1. IInv => (Running("fn") => depth = Cardinality(Framed))
  <2> SUFFICES ASSUME IInv, Running("fn") PROVE depth = Cardinality(Framed)
    OBVIOUS
  <2>1. depth = Frames(stack)
    BY DEF Running, Top, IInv, Matches
  <2> QED BY <2>1 DEF Frames, Framed, IsFrame
<1> QED BY <1>1, Invariant, PTL

(* When every call has a frame, $call_depth is the number of frames and     *)
(* $stack_cost what they weigh, whenever Lua code runs: no return, catch,   *)
(* tail call, handler or close leaves a weight charged or forgotten.        *)
THEOREM CostsAlwaysCovered ==
  ASSUME Frameless = {}
  PROVE  Spec => []CostCoversFrames
<1>1. IInv /\ CostInv /\ IInv' /\ [Next]_vars => CostInv'
  BY NextCosts
<1> QED BY <1>1, Invariant, InitCosts, InvCosts, PTL DEF Spec
=============================================================================
