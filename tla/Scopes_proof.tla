---------------------------- MODULE Scopes_proof ----------------------------
(***************************************************************************)
(* Theorems about Scopes, for every set of names, every limit of the        *)
(* parser and any number of declarations, blocks, gotos and labels.         *)
(*                                                                         *)
(* The argument for names.  A slot and an identity belong to one            *)
(* declaration of one function.  An upvalue leads to a declaration of the   *)
(* enclosing function, or to an upvalue of it that is for the same          *)
(* variable; the enclosing functions stand still while a function is        *)
(* parsed, so a chain of upvalues keeps its meaning.                        *)
(*                                                                         *)
(* The argument for jumps.  Seen from inside, a block has what the parser   *)
(* keeps for it in blk, fn and labels, or will put back when the next block *)
(* ends.  These views only change at the top, and order the blocks; the     *)
(* gotos of a block are those with indexes in its range, and a goto's count *)
(* of declarations says how far the scope of now and of then agree.         *)
(***************************************************************************)
EXTENDS Scopes, FiniteSetTheorems, SequenceTheorems,
        NaturalsInduction, WellFoundedInduction, TLAPS

DeclRec == [name : Names, kind : {"local", "global", "all"}, slot : Int, attrib : Attribs, id : Nat]
UpvalRec == [src : {"local", "upval"}, idx : Nat, id : Nat]
FrameRec == [decls : Seq(DeclRec), next : Nat, upvals : Seq(UpvalRec), captured : SUBSET Nat,
             vararg : BOOLEAN, owners : SUBSET (Nat \X Nat)]
FuncRec == [upvals : Seq(UpvalRec), nlocals : Nat, captured : SUBSET Nat, owners : SUBSET (Nat \X Nat)]

(* The declarations of a frame, where n is the next identity: a local has a *)
(* slot of its own, and identities grow.                                    *)
GoodDecls(f, n) ==
  /\ Len(f.decls) <= MaxLocals
  /\ \A i \in 1..Len(f.decls) :
       /\ f.decls[i].id \in 2..(n - 1)
       /\ f.decls[i].kind = "local" => /\ f.decls[i].slot \in 0..(f.next - 1)
                                       /\ <<f.decls[i].slot, f.decls[i].id>> \in f.owners
       /\ f.decls[i].kind # "local" => f.decls[i].slot = -1
  /\ \A i, j \in 1..Len(f.decls) : i < j => f.decls[i].id < f.decls[j].id

(* Slots and identities go together for good. *)
GoodOwners(f, n) ==
  /\ \A o \in f.owners : o[1] < f.next /\ o[2] \in 2..(n - 1)
  /\ \A a, b \in f.owners : a[1] = b[1] \/ a[2] = b[2] => a = b

GoodFrame(f, n) == /\ f \in FrameRec /\ Len(f.upvals) <= MaxUpvals
                   /\ GoodDecls(f, n) /\ GoodOwners(f, n)

(* Identities belong to one function. *)
Has(f, id) == \/ \E o \in f.owners : o[2] = id
              \/ \E i \in 1..Len(f.decls) : f.decls[i].id = id
Apart(fs, fns) ==
  /\ \A f, g \in 1..Len(fs) : \A id \in Nat : Has(fs[f], id) /\ Has(fs[g], id) => f = g
  /\ \A f \in 1..Len(fs), i \in 1..Len(fns) : \A o \in fns[i].owners : ~Has(fs[f], o[2])

(* Upvalue u of frame f leads one frame down, to the variable it is for. *)
Link(fs, f, u) ==
  /\ f > 1
  /\ u.src = "local" => \E k \in 1..Len(fs[f - 1].decls) :
        fs[f - 1].decls[k].slot = u.idx /\ fs[f - 1].decls[k].id = u.id
  /\ u.src = "upval" => u.idx \in 1..Len(fs[f - 1].upvals) /\ fs[f - 1].upvals[u.idx].id = u.id
Linked(fs) == \A f \in 1..Len(fs) : \A i \in 1..Len(fs[f].upvals) : Link(fs, f, fs[f].upvals[i])

(* The slots that are captured are those whose variables were reached. *)
Exact(f, rch) == f.captured = {o[1] : o \in {w \in f.owners : w[2] \in rch}}
AllExact(fs, fns, rch) == /\ \A f \in 1..Len(fs) : Exact(fs[f], rch)
                          /\ \A i \in 1..Len(fns) : Exact(fns[i], rch)

(* No <const> is assigned. *)
Spared(fs, asg) == \A f \in 1..Len(fs) : \A i \in 1..Len(fs[f].decls) :
                      fs[f].decls[i].attrib = "const" => fs[f].decls[i].id \notin asg

FewGlobals(gl) == IsFiniteSet(gl) /\ Cardinality(gl) <= MaxGlobals

NamesGood(fs, fns, n, rch, asg) ==
  /\ fs \in Seq(FrameRec) /\ Len(fs) \in 1..MaxDepth /\ fns \in Seq(FuncRec)
  /\ n \in Nat /\ n >= 2
  /\ \A f \in 1..Len(fs) : GoodFrame(fs[f], n)
  /\ Apart(fs, fns) /\ Linked(fs)
  /\ \A i \in 1..Len(fns) : \A o \in fns[i].owners : o[2] \in 2..(n - 1)
  /\ rch \subseteq 2..(n - 1) /\ asg \subseteq 2..(n - 1)
  /\ AllExact(fs, fns, rch) /\ Spared(fs, asg)

NamesInv == NamesGood(frames, funcs, nextId, reached, assigned) /\ FewGlobals(globals)
-----------------------------------------------------------------------------
Kinds == {"chunk", "do", "repeat", "until", "function"}
BlkRec == [gotos : Nat, nact : Nat]
FnRec == [labels : Nat, gotos : Nat]
BlockRec == [kind : Kinds, mark : Nat, labels : Nat, blk : BlkRec, fn : FnRec, bid : Nat]
GotoRec == [name : LabelNames, nact : Nat, resolved : BOOLEAN, ids : Seq(Nat), path : SUBSET Nat]
LabelRec == [name : LabelNames, nact : Nat]

(* A block as it is seen from inside: its function's level, its range of    *)
(* labels low..top, and blk and fn as they are while it is on top.          *)
ViewRec == [kind : Kinds, bid : Nat, mark : Nat, low : Nat, top : Nat, lev : Nat,
            gotos : Nat, nact : Nat, fgotos : Nat, flabels : Nat]

Shown(v, b, f, nl) == /\ v.gotos = b.gotos /\ v.nact = b.nact
                      /\ v.fgotos = f.gotos /\ v.flabels = f.labels /\ v.top = nl
Shows(vs, op, b, f, nl, D) ==
  /\ vs \in Seq(ViewRec) /\ op \in Seq(BlockRec) /\ Len(vs) = Len(op) /\ Len(op) >= 1
  /\ \A i \in 1..Len(op) : /\ vs[i].kind = op[i].kind /\ vs[i].bid = op[i].bid
                           /\ vs[i].mark = op[i].mark /\ vs[i].low = op[i].labels
  /\ \A i \in 1..(Len(op) - 1) : Shown(vs[i], op[i + 1].blk, op[i + 1].fn, op[i + 1].labels)
  /\ Shown(vs[Len(op)], b, f, nl) /\ b \in BlkRec /\ f \in FnRec
  /\ vs[Len(op)].lev = D

(* v is a block inside block u. *)
Inside(u, v) ==
  /\ u.lev <= v.lev /\ u.bid < v.bid /\ u.gotos <= v.gotos /\ u.top <= v.low
  /\ u.lev = v.lev => u.nact <= v.mark /\ u.fgotos = v.fgotos /\ u.flabels = v.flabels
  /\ u.lev < v.lev => u.gotos <= v.fgotos
  /\ u.kind = "until" => u.lev < v.lev

(* A block, where there are D frames, the one of the block has nd           *)
(* declarations, n is the next identity and there are ng gotos.             *)
Bounded(v, D, nd, n, ng) ==
  /\ v.lev \in 1..D
  /\ v.mark <= nd /\ v.nact <= nd /\ (v.kind # "until" => v.mark <= v.nact)
  /\ v.fgotos <= v.gotos /\ v.gotos <= ng
  /\ v.flabels <= v.low /\ v.low <= v.top
  /\ v.bid <= n

Nested(vs, fs, n, ng) ==
  /\ vs[1].lev = 1 /\ vs[1].kind = "chunk"
  /\ \A i \in 2..Len(vs) : /\ vs[i].kind # "chunk"
                           /\ vs[i].lev = vs[i - 1].lev + IF vs[i].kind = "function" THEN 1 ELSE 0
  /\ \A i \in 2..Len(vs) : vs[i].kind = "until" =>
        vs[i].top = vs[i].low /\ vs[i].gotos = vs[i - 1].gotos /\ vs[i].nact = vs[i - 1].nact
  /\ \A i, j \in 1..Len(vs) : i < j => Inside(vs[i], vs[j])
  /\ \A i \in 1..Len(vs) : Bounded(vs[i], Len(fs), Len(fs[vs[i].lev].decls), n, ng)

(* Goto m was made in block i, in the function of the block. *)
Within(vs, i, m) ==
  m > vs[i].gotos /\ \A j \in (i + 1)..Len(vs) : vs[i].lev < vs[j].lev => m <= vs[j].fgotos

(* The declarations ds begin with the first nact that a goto had in scope,  *)
(* and the others are newer.                                                *)
Agrees(g, ds) ==
  /\ g.nact <= Len(g.ids) /\ g.nact <= Len(ds)
  /\ \A k \in 1..g.nact : g.ids[k] = ds[k].id
  /\ \A k \in (g.nact + 1)..Len(ds) : \A q \in 1..Len(g.ids) : g.ids[q] < ds[k].id

Pending(vs, fs, gs, n) ==
  /\ gs \in Seq(GotoRec)
  /\ \A m \in 1..Len(gs) :
       /\ gs[m].path \subseteq 0..n
       /\ \A q \in 1..Len(gs[m].ids) : gs[m].ids[q] < n
       /\ \A i \in 1..Len(vs) :
            /\ vs[i].kind # "until" => (vs[i].bid \in gs[m].path <=> Within(vs, i, m))
            /\ Within(vs, i, m) => Agrees(gs[m], fs[vs[i].lev].decls)

(* The labels of an open block are in its range. *)
Noted(vs, ls, sn, n) ==
  /\ ls \in Seq(LabelRec)
  /\ \A s \in sn :
       /\ s[2] \in 0..n
       /\ \A i \in 1..Len(vs) : s[2] = vs[i].bid /\ vs[i].kind # "until" =>
            \E q \in (vs[i].low + 1)..vs[i].top : ls[q].name = s[1]

JumpsGood(vs, fs, op, ls, gs, b, f, n, sn) ==
  /\ Shows(vs, op, b, f, Len(ls), Len(fs))
  /\ Nested(vs, fs, n, Len(gs))
  /\ Pending(vs, fs, gs, n) /\ Noted(vs, ls, sn, n)

JumpsInv == /\ \E vs : JumpsGood(vs, frames, open, labels, gotos, blk, fn, nextId, seen)
            /\ tail \in {"free", "ends", "more"}

IInv == NamesInv /\ JumpsInv /\ JumpsLegal
-----------------------------------------------------------------------------
(* Sequences, element by element. *)
LEMMA AppendFacts ==
  ASSUME NEW X, NEW xs \in Seq(X), NEW x \in X
  PROVE  /\ Append(xs, x) \in Seq(X) /\ Len(Append(xs, x)) = Len(xs) + 1 /\ Len(xs) \in Nat
         /\ Append(xs, x)[Len(xs) + 1] = x
         /\ \A j \in 1..Len(xs) : Append(xs, x)[j] = xs[j]
  OBVIOUS

LEMMA FrontFacts ==
  ASSUME NEW X, NEW xs \in Seq(X), NEW n \in 0..Len(xs)
  PROVE  /\ Front(xs, n) \in Seq(X) /\ Len(Front(xs, n)) = n /\ Len(xs) \in Nat
         /\ \A j \in 1..n : Front(xs, n)[j] = xs[j]
  BY DEF Front

LEMMA ChangeFacts ==
  ASSUME NEW X, NEW xs \in Seq(X), NEW i \in 1..Len(xs), NEW x \in X
  PROVE  /\ [xs EXCEPT ![i] = x] \in Seq(X) /\ Len([xs EXCEPT ![i] = x]) = Len(xs) /\ Len(xs) \in Nat
         /\ [xs EXCEPT ![i] = x][i] = x
         /\ \A j \in 1..Len(xs) : j # i => [xs EXCEPT ![i] = x][j] = xs[j]
  OBVIOUS

(* Every set of naturals has a least element. *)
LEMMA LeastNat ==
  ASSUME NEW T, T \subseteq Nat, T # {}
  PROVE  \E x \in T : \A y \in T : x <= y
<1> DEFINE R == OpToRel(<, Nat)
<1>1. IsWellFoundedOn(R, Nat)
  BY NatLessThanWellFounded, Zenon
<1>2. \A a, b \in Nat : a < b => <<a, b>> \in R
  BY Zenon DEF OpToRel
<1> HIDE DEF R
<1>3. \E x \in T : \A y \in T : ~(<<y, x>> \in R)
  BY <1>1, WFMin, Zenon
<1>4. PICK x \in T : \A y \in T : ~(<<y, x>> \in R)
  BY <1>3
<1>5. \A y \in T : ~(y < x)
  BY <1>2, <1>4
<1> QED BY <1>4, <1>5

(* Greatest is the greatest element of a set of positions. *)
LEMMA GreatestFacts ==
  ASSUME NEW N \in Nat, NEW S, S \subseteq 1..N, S # {}
  PROVE  Greatest(S) \in S /\ \A m \in S : m <= Greatest(S)
<1> DEFINE T == {k \in Nat : \A m \in S : m <= k}
<1>1. T \subseteq Nat /\ N \in T
  OBVIOUS
<1>2. PICK k \in T : \A j \in T : k <= j
  <2> HIDE DEF T
  <2> QED BY <1>1, LeastNat
<1>3. k \in S
  <2> SUFFICES ASSUME k \notin S PROVE FALSE
    OBVIOUS
  <2>1. k \in Nat /\ \A m \in S : m \in Nat /\ m >= 1 /\ m <= k /\ m # k
    BY <1>2
  <2>2. k # 0
    <3>1. PICK m \in S : TRUE
      OBVIOUS
    <3> QED BY <2>1, <3>1
  <2>3. k - 1 \in T
    BY <2>1, <2>2
  <2> QED BY <1>2, <2>1, <2>3
<1>4. \E n \in S : \A m \in S : m <= n
  BY <1>2, <1>3
<1> QED BY <1>4, Zenon DEF Greatest
-----------------------------------------------------------------------------
(* The fields of a frame. *)
LEMMA FrameFields ==
  ASSUME NEW f \in FrameRec
  PROVE  /\ f.decls \in Seq(DeclRec) /\ Len(f.decls) \in Nat /\ f.next \in Nat
         /\ f.upvals \in Seq(UpvalRec) /\ Len(f.upvals) \in Nat
         /\ f.captured \in SUBSET Nat /\ f.vararg \in BOOLEAN /\ f.owners \in SUBSET (Nat \X Nat)
         /\ \A o \in f.owners : o[1] \in Nat /\ o[2] \in Nat /\ o = <<o[1], o[2]>>
         /\ \A i \in 1..Len(f.decls) : f.decls[i] \in DeclRec /\ f.decls[i].id \in Nat /\ f.decls[i].slot \in Int
         /\ \A i \in 1..Len(f.upvals) : f.upvals[i] \in UpvalRec /\ f.upvals[i].id \in Nat /\ f.upvals[i].idx \in Nat
<1>1. /\ f.decls \in Seq(DeclRec) /\ f.next \in Nat /\ f.upvals \in Seq(UpvalRec)
      /\ f.captured \in SUBSET Nat /\ f.vararg \in BOOLEAN /\ f.owners \in SUBSET (Nat \X Nat)
  BY DEF FrameRec
<1>2. \A d \in DeclRec : d.id \in Nat /\ d.slot \in Int
  BY DEF DeclRec
<1>3. \A u \in UpvalRec : u.id \in Nat /\ u.idx \in Nat
  BY DEF UpvalRec
<1>4. \A o \in Nat \X Nat : o[1] \in Nat /\ o[2] \in Nat /\ o = <<o[1], o[2]>>
  OBVIOUS
<1> QED BY <1>1, <1>2, <1>3, <1>4

(* A frame with other declarations, captured slots, upvalues or owners. *)
FrameOf(ds, nx, us, cs, va, os) ==
  [decls |-> ds, next |-> nx, upvals |-> us, captured |-> cs, vararg |-> va, owners |-> os]
LEMMA FrameChanged ==
  ASSUME NEW f \in FrameRec, NEW a
  PROVE  /\ [f EXCEPT !.decls = a] = FrameOf(a, f.next, f.upvals, f.captured, f.vararg, f.owners)
         /\ [f EXCEPT !.captured = a] = FrameOf(f.decls, f.next, f.upvals, a, f.vararg, f.owners)
         /\ [f EXCEPT !.upvals = a] = FrameOf(f.decls, f.next, a, f.captured, f.vararg, f.owners)
<1>1. f = FrameOf(f.decls, f.next, f.upvals, f.captured, f.vararg, f.owners)
  BY DEF FrameRec, FrameOf
<1>2. [f EXCEPT !.decls = a] = FrameOf(a, f.next, f.upvals, f.captured, f.vararg, f.owners)
  BY <1>1 DEF FrameOf
<1>3. [f EXCEPT !.captured = a] = FrameOf(f.decls, f.next, f.upvals, a, f.vararg, f.owners)
  BY <1>1 DEF FrameOf
<1>4. [f EXCEPT !.upvals = a] = FrameOf(f.decls, f.next, a, f.captured, f.vararg, f.owners)
  BY <1>1 DEF FrameOf
<1> QED BY <1>2, <1>3, <1>4

(* What frame_declare makes of a frame. *)
LEMMA LocalDeclared ==
  ASSUME NEW f \in FrameRec, NEW name \in Names, NEW attrib \in Attribs, NEW id \in Nat
  PROVE  LET g == DeclareLocal(f, name, attrib, id)
         IN  /\ g \in FrameRec
             /\ g.decls = Append(f.decls, [name |-> name, kind |-> "local", slot |-> f.next,
                                           attrib |-> attrib, id |-> id])
             /\ g.next = f.next + 1 /\ g.owners = f.owners \cup {<<f.next, id>>}
             /\ g.upvals = f.upvals /\ g.captured = f.captured
<1> DEFINE d == [name |-> name, kind |-> "local", slot |-> f.next, attrib |-> attrib, id |-> id]
           g == DeclareLocal(f, name, attrib, id)
<1>1. d \in DeclRec
  BY FrameFields DEF DeclRec
<1>2. Append(f.decls, d) \in Seq(DeclRec) /\ f.owners \cup {<<f.next, id>>} \in SUBSET (Nat \X Nat)
  BY <1>1, FrameFields
<1>3. g = [decls |-> Append(f.decls, d), next |-> f.next + 1, upvals |-> f.upvals,
           captured |-> f.captured, vararg |-> f.vararg, owners |-> f.owners \cup {<<f.next, id>>}]
  <2> DEFINE a == Append(f.decls, d)
             b == f.next + 1
             c == f.owners \cup {<<f.next, id>>}
             g1 == [f EXCEPT !.decls = a]
             g2 == [g1 EXCEPT !.next = b]
             g3 == [g2 EXCEPT !.owners = c]
  <2>1. g = g3
    BY Zenon DEF DeclareLocal
  <2> HIDE DEF g, g3
  <2>2. g1 = FrameOf(a, f.next, f.upvals, f.captured, f.vararg, f.owners)
    BY FrameChanged
  <2> HIDE DEF g1, a, b, c
  <2>3. g2 = FrameOf(a, b, f.upvals, f.captured, f.vararg, f.owners)
    BY <2>2 DEF FrameOf
  <2> HIDE DEF g2
  <2>4. g = FrameOf(a, b, f.upvals, f.captured, f.vararg, c)
    BY <2>1, <2>3 DEF FrameOf, g3
  <2> QED BY <2>4 DEF FrameOf, a, b, c
<1> HIDE DEF d
<1>4. g \in FrameRec
  BY <1>2, <1>3, FrameFields DEF FrameRec
<1> QED BY <1>3, <1>4 DEF d

(* What frame_declare_global makes of it. *)
LEMMA GlobalDeclared ==
  ASSUME NEW f \in FrameRec, NEW name \in Names, NEW kind \in {"global", "all"},
         NEW attrib \in Attribs, NEW id \in Nat
  PROVE  LET g == DeclareGlobal(f, name, kind, attrib, id)
         IN  /\ g \in FrameRec
             /\ g.decls = Append(f.decls, [name |-> name, kind |-> kind, slot |-> -1,
                                           attrib |-> attrib, id |-> id])
             /\ g.next = f.next /\ g.owners = f.owners
             /\ g.upvals = f.upvals /\ g.captured = f.captured
<1> DEFINE d == [name |-> name, kind |-> kind, slot |-> -1, attrib |-> attrib, id |-> id]
           g == DeclareGlobal(f, name, kind, attrib, id)
<1>1. d \in DeclRec
  BY DEF DeclRec
<1>2. Append(f.decls, d) \in Seq(DeclRec)
  BY <1>1, FrameFields
<1>3. g = [decls |-> Append(f.decls, d), next |-> f.next, upvals |-> f.upvals,
           captured |-> f.captured, vararg |-> f.vararg, owners |-> f.owners]
  <2> DEFINE a == Append(f.decls, d)
  <2>1. g = [f EXCEPT !.decls = a]
    BY DEF DeclareGlobal
  <2> HIDE DEF a, g
  <2>2. g = FrameOf(a, f.next, f.upvals, f.captured, f.vararg, f.owners)
    BY <2>1, FrameChanged
  <2> QED BY <2>2 DEF a, FrameOf
<1> HIDE DEF d
<1>4. g \in FrameRec
  BY <1>2, <1>3, FrameFields DEF FrameRec
<1> QED BY <1>3, <1>4 DEF d

(* Frame g has what f has, and declarations whose identities are new. *)
Extends(f, g, n) ==
  /\ g.upvals = f.upvals /\ g.captured = f.captured
  /\ Len(g.decls) >= Len(f.decls) /\ \A i \in 1..Len(f.decls) : g.decls[i] = f.decls[i]
  /\ \A i \in (Len(f.decls) + 1)..Len(g.decls) : g.decls[i].id >= n
  /\ f.owners \subseteq g.owners /\ \A o \in g.owners : o \in f.owners \/ o[2] >= n

(* One declaration more, by either function. *)
OneMore(f, g, n) ==
  /\ g \in FrameRec /\ f \in FrameRec
  /\ \E d \in DeclRec :
       /\ g.decls = Append(f.decls, d) /\ d.id = n
       /\ \/ d.kind = "local" /\ d.slot = f.next /\ g.next = f.next + 1
             /\ g.owners = f.owners \cup {<<f.next, n>>}
          \/ d.kind # "local" /\ d.slot = -1 /\ g.next = f.next /\ g.owners = f.owners
  /\ g.upvals = f.upvals /\ g.captured = f.captured

(* Declaring is that. *)
LEMMA DeclaredIsOneMore ==
  ASSUME NEW f \in FrameRec, NEW name \in Names, NEW attrib \in Attribs, NEW id \in Nat
  PROVE  /\ OneMore(f, DeclareLocal(f, name, attrib, id), id)
         /\ \A kind \in {"global", "all"} : OneMore(f, DeclareGlobal(f, name, kind, attrib, id), id)
<1>1. OneMore(f, DeclareLocal(f, name, attrib, id), id)
  <2> DEFINE d == [name |-> name, kind |-> "local", slot |-> f.next, attrib |-> attrib, id |-> id]
             g == DeclareLocal(f, name, attrib, id)
  <2>1. d \in DeclRec /\ d.id = id /\ d.kind = "local" /\ d.slot = f.next
    BY FrameFields DEF DeclRec
  <2>2. /\ g \in FrameRec /\ g.decls = Append(f.decls, d) /\ g.next = f.next + 1
        /\ g.owners = f.owners \cup {<<f.next, id>>}
        /\ g.upvals = f.upvals /\ g.captured = f.captured
    BY LocalDeclared
  <2> HIDE DEF d, g
  <2>3. OneMore(f, g, id)
    BY <2>1, <2>2 DEF OneMore
  <2> QED BY <2>3 DEF g
<1>2. ASSUME NEW kind \in {"global", "all"}
      PROVE  OneMore(f, DeclareGlobal(f, name, kind, attrib, id), id)
  <2> DEFINE d == [name |-> name, kind |-> kind, slot |-> -1, attrib |-> attrib, id |-> id]
             g == DeclareGlobal(f, name, kind, attrib, id)
  <2>1. d \in DeclRec /\ d.id = id /\ d.kind # "local" /\ d.slot = -1
    BY DEF DeclRec
  <2>2. /\ g \in FrameRec /\ g.decls = Append(f.decls, d) /\ g.next = f.next
        /\ g.owners = f.owners /\ g.upvals = f.upvals /\ g.captured = f.captured
    BY GlobalDeclared
  <2> HIDE DEF d, g
  <2>3. OneMore(f, g, id)
    BY <2>1, <2>2 DEF OneMore
  <2> QED BY <2>3 DEF g
<1> QED BY <1>1, <1>2

(* One declaration more keeps a frame good, if there is room for it. *)
LEMMA OneMoreGood ==
  ASSUME NEW f, NEW g, NEW n \in Nat, n >= 2, GoodFrame(f, n), OneMore(f, g, n),
         Len(f.decls) < MaxLocals, MaxLocals \in Nat
  PROVE  GoodFrame(g, n + 1) /\ Extends(f, g, n) /\ Len(g.decls) = Len(f.decls) + 1
<1> DEFINE L == Len(f.decls)
           ds == f.decls
           es == g.decls
<1>1. f \in FrameRec /\ g \in FrameRec /\ GoodDecls(f, n) /\ GoodOwners(f, n) /\ Len(f.upvals) <= MaxUpvals
  BY DEF GoodFrame, OneMore
<1>2. /\ g.upvals = f.upvals /\ g.captured = f.captured
      /\ L \in Nat /\ ds \in Seq(DeclRec) /\ f.next \in Nat /\ g.next \in Nat
      /\ f.owners \subseteq Nat \X Nat /\ \A o \in f.owners : o[1] \in Nat /\ o[2] \in Nat /\ o = <<o[1], o[2]>>
      /\ \A i \in 1..L : ds[i].id \in Nat /\ ds[i].slot \in Int
  BY <1>1, FrameFields DEF OneMore
<1>3. PICK d \in DeclRec :
       /\ es = Append(ds, d) /\ d.id = n
       /\ \/ d.kind = "local" /\ d.slot = f.next /\ g.next = f.next + 1
             /\ g.owners = f.owners \cup {<<f.next, n>>}
          \/ d.kind # "local" /\ d.slot = -1 /\ g.next = f.next /\ g.owners = f.owners
  BY DEF OneMore
<1> HIDE DEF es
<1>4. Len(es) = L + 1 /\ es[L + 1] = d /\ \A i \in 1..L : es[i] = ds[i]
  BY <1>2, <1>3, AppendFacts
<1>5. /\ L < MaxLocals
      /\ \A i \in 1..L :
           /\ ds[i].id \in 2..(n - 1)
           /\ ds[i].kind = "local" => ds[i].slot \in 0..(f.next - 1) /\ <<ds[i].slot, ds[i].id>> \in f.owners
           /\ ds[i].kind # "local" => ds[i].slot = -1
      /\ \A i, j \in 1..L : i < j => ds[i].id < ds[j].id
  BY <1>1 DEF GoodDecls
<1>6. /\ \A o \in f.owners : o[1] < f.next /\ o[2] \in 2..(n - 1)
      /\ \A a, b \in f.owners : a[1] = b[1] \/ a[2] = b[2] => a = b
  BY <1>1 DEF GoodOwners
<1>7. f.owners \subseteq g.owners /\ f.next <= g.next
  BY <1>2, <1>3
<1>8. \A o \in g.owners : o \in f.owners \/ (o = <<f.next, n>> /\ g.next = f.next + 1)
  BY <1>3
<1> HIDE DEF ds, L
<1>9. ASSUME NEW i \in 1..Len(es)
      PROVE  /\ es[i].id \in 2..((n + 1) - 1)
             /\ es[i].kind = "local" => es[i].slot \in 0..(g.next - 1) /\ <<es[i].slot, es[i].id>> \in g.owners
             /\ es[i].kind # "local" => es[i].slot = -1
  <2>1. CASE i \in 1..L
    <3>1. es[i] = ds[i] /\ ds[i].id \in 2..(n - 1)
      BY <1>4, <1>5, <2>1
    <3>2. CASE ds[i].kind = "local"
      <4>1. ds[i].slot \in 0..(f.next - 1) /\ <<ds[i].slot, ds[i].id>> \in g.owners
        BY <1>5, <1>7, <2>1, <3>2
      <4>2. ds[i].slot \in 0..(g.next - 1)
        BY <4>1, <1>2, <1>7
      <4>3. ds[i].id \in 2..((n + 1) - 1)
        BY <3>1
      <4> QED BY <3>1, <3>2, <4>1, <4>2, <4>3
    <3>3. CASE ds[i].kind # "local"
      BY <3>1, <3>3, <1>5, <2>1
    <3> QED BY <3>2, <3>3
  <2>2. CASE i = L + 1
    <3>1. es[i] = d
      BY <1>4, <2>2
    <3>2. CASE d.kind = "local"
      <4>1. <<d.slot, d.id>> \in g.owners /\ d.slot \in 0..(g.next - 1)
        BY <1>2, <1>3, <3>2
      <4> QED BY <1>3, <3>1, <3>2, <4>1
    <3>3. CASE d.kind # "local"
      BY <1>3, <3>1, <3>3
    <3> QED BY <3>2, <3>3
  <2> QED BY <1>2, <1>4, <2>1, <2>2
<1>10. ASSUME NEW i \in 1..Len(es), NEW j \in 1..Len(es), i < j
       PROVE  es[i].id < es[j].id
  <2>0. i \in 1..L
    BY <1>2, <1>4, <1>10
  <2>1. i \in 1..L /\ es[i] = ds[i] /\ ds[i].id \in 2..(n - 1)
    BY <2>0, <1>4, <1>5
  <2>2. CASE j \in 1..L
    BY <2>1, <2>2, <1>4, <1>5, <1>10
  <2>3. CASE j = L + 1
    <3>1. es[j].id = n
      BY <1>3, <1>4, <2>3
    <3> QED BY <2>1, <3>1
  <2> QED BY <1>2, <1>4, <2>2, <2>3
<1>11. GoodDecls(g, n + 1)
  <2>1. Len(es) <= MaxLocals
    BY <1>2, <1>4, <1>5
  <2> QED BY <1>9, <1>10, <2>1 DEF GoodDecls, es
<1>12. GoodOwners(g, n + 1)
  <2>1. ASSUME NEW o \in g.owners PROVE o[1] < g.next /\ o[2] \in 2..((n + 1) - 1)
    BY <1>2, <1>6, <1>7, <1>8
  <2>2. ASSUME NEW a \in g.owners, NEW b \in g.owners, a[1] = b[1] \/ a[2] = b[2] PROVE a = b
    <3>1. CASE a \in f.owners /\ b \in f.owners
      BY <3>1, <2>2, <1>6
    <3>2. CASE a = <<f.next, n>> /\ b = <<f.next, n>>
      BY <3>2
    <3>3. CASE a \in f.owners /\ b = <<f.next, n>>
      <4>1. a[1] < f.next /\ a[2] \in 2..(n - 1) /\ a[1] \in Nat
        BY <3>3, <1>2, <1>6
      <4> QED BY <4>1, <3>3, <2>2, <1>2
    <3>4. CASE b \in f.owners /\ a = <<f.next, n>>
      <4>1. b[1] < f.next /\ b[2] \in 2..(n - 1) /\ b[1] \in Nat
        BY <3>4, <1>2, <1>6
      <4> QED BY <4>1, <3>4, <2>2, <1>2
    <3> QED BY <1>8, <3>1, <3>2, <3>3, <3>4
  <2> QED BY <2>1, <2>2 DEF GoodOwners
<1>13. Extends(f, g, n)
  <2>1. /\ Len(es) >= L /\ (\A i \in 1..L : es[i] = ds[i])
        /\ \A i \in (L + 1)..Len(es) : es[i].id >= n
    <3>1. \A i \in (L + 1)..Len(es) : i = L + 1
      BY <1>2, <1>4
    <3> QED BY <3>1, <1>2, <1>3, <1>4
  <2>2. \A o \in g.owners : o \in f.owners \/ o[2] >= n
    BY <1>8
  <2> QED BY <1>2, <1>7, <2>1, <2>2 DEF Extends, es, ds, L
<1> QED BY <1>1, <1>2, <1>4, <1>11, <1>12, <1>13 DEF GoodFrame, es, L

(* Later identities and longer extensions. *)
LEMMA GoodLater ==
  ASSUME NEW f, NEW n \in Nat, NEW m \in Nat, n <= m, GoodFrame(f, n)
  PROVE  GoodFrame(f, m)
  BY DEF GoodFrame, GoodDecls, GoodOwners

LEMMA ExtendsMore ==
  ASSUME NEW f \in FrameRec, NEW g \in FrameRec, NEW h \in FrameRec, NEW n \in Nat, NEW m \in Nat, n <= m,
         Extends(f, g, n), Extends(g, h, m)
  PROVE  Extends(f, h, n)
<1>1. /\ Len(f.decls) \in Nat /\ Len(g.decls) \in Nat /\ Len(h.decls) \in Nat
      /\ \A i \in 1..Len(h.decls) : h.decls[i].id \in Nat
      /\ \A o \in h.owners : o[2] \in Nat
  BY FrameFields
<1>2. h.upvals = f.upvals /\ h.captured = f.captured
  BY DEF Extends
<1>3. /\ Len(h.decls) >= Len(f.decls) /\ \A i \in 1..Len(f.decls) : h.decls[i] = f.decls[i]
  BY <1>1 DEF Extends
<1>4. ASSUME NEW i \in (Len(f.decls) + 1)..Len(h.decls) PROVE h.decls[i].id >= n
  <2>1. CASE i <= Len(g.decls)
    <3>1. h.decls[i] = g.decls[i] /\ g.decls[i].id >= n
      BY <1>1, <2>1 DEF Extends
    <3> QED BY <3>1
  <2>2. CASE i > Len(g.decls)
    <3>1. h.decls[i].id >= m /\ h.decls[i].id \in Nat
      BY <1>1, <2>2 DEF Extends
    <3> QED BY <3>1
  <2> QED BY <1>1, <2>1, <2>2
<1>5. f.owners \subseteq h.owners /\ \A o \in h.owners : o \in f.owners \/ o[2] >= n
  BY <1>1 DEF Extends
<1> QED BY <1>2, <1>3, <1>4, <1>5 DEF Extends
-----------------------------------------------------------------------------
(* Upvalues keep their links if the enclosing functions stand still. *)
LEMMA LinkedKept ==
  ASSUME NEW fs, NEW fs2, Len(fs) \in Nat, Len(fs2) = Len(fs), Linked(fs),
         \A l \in 1..Len(fs) : fs2[l].upvals = fs[l].upvals,
         \A l \in 1..(Len(fs) - 1) : fs2[l].decls = fs[l].decls
  PROVE  Linked(fs2)
<1> SUFFICES ASSUME NEW l \in 1..Len(fs), NEW i \in 1..Len(fs[l].upvals)
             PROVE  Link(fs2, l, fs[l].upvals[i])
  BY DEF Linked
<1>1. Link(fs, l, fs[l].upvals[i])
  BY DEF Linked
<1>2. l > 1 /\ l - 1 \in 1..(Len(fs) - 1) /\ l - 1 \in 1..Len(fs)
  BY <1>1 DEF Link
<1>3. fs2[l - 1].decls = fs[l - 1].decls /\ fs2[l - 1].upvals = fs[l - 1].upvals
  BY <1>2
<1> QED BY <1>1, <1>3 DEF Link

(* The identities of a frame are old. *)
LEMMA HasOld ==
  ASSUME NEW f, NEW n \in Nat, GoodFrame(f, n), NEW id, Has(f, id)
  PROVE  id \in 2..(n - 1)
<1>1. CASE \E o \in f.owners : o[2] = id
  BY <1>1 DEF GoodFrame, GoodOwners
<1>2. CASE \E i \in 1..Len(f.decls) : f.decls[i].id = id
  BY <1>2 DEF GoodFrame, GoodDecls
<1> QED BY <1>1, <1>2 DEF Has

(* The frame on top gets declarations. *)
LEMMA TopExtended ==
  ASSUME NEW fs, NEW fns, NEW n, NEW rch, NEW asg, NamesGood(fs, fns, n, rch, asg),
         NEW fs2 \in Seq(FrameRec), Len(fs2) = Len(fs), NEW m \in Nat, n <= m,
         \A l \in 1..(Len(fs) - 1) : fs2[l] = fs[l],
         GoodFrame(fs2[Len(fs)], m), Extends(fs[Len(fs)], fs2[Len(fs)], n)
  PROVE  NamesGood(fs2, fns, m, rch, asg)
<1> DEFINE D == Len(fs)
           f == fs[D]
           g == fs2[D]
<1>1. /\ fs \in Seq(FrameRec) /\ D \in Nat /\ D >= 1 /\ D \in 1..MaxDepth /\ fns \in Seq(FuncRec)
      /\ n \in Nat /\ n >= 2 /\ (\A l \in 1..D : GoodFrame(fs[l], n))
      /\ Apart(fs, fns) /\ Linked(fs)
      /\ (\A i \in 1..Len(fns) : \A o \in fns[i].owners : o[2] \in 2..(n - 1))
      /\ rch \subseteq 2..(n - 1) /\ asg \subseteq 2..(n - 1)
      /\ AllExact(fs, fns, rch) /\ Spared(fs, asg)
  BY DEF NamesGood
<1>2. Extends(f, g, n) /\ GoodFrame(g, m) /\ f \in FrameRec /\ g \in FrameRec
  BY <1>1 DEF GoodFrame
<1>3. \A l \in 1..D : l # D => fs2[l] = fs[l]
  BY <1>1
<1>4. /\ g.upvals = f.upvals /\ g.captured = f.captured
      /\ Len(f.decls) \in Nat /\ Len(g.decls) \in Nat
      /\ \A i \in 1..Len(g.decls) : g.decls[i].id \in Nat
      /\ \A o \in g.owners : o[2] \in Nat
  BY <1>2, FrameFields DEF Extends
<1>5. \A id : Has(g, id) => Has(f, id) \/ (id \in Nat /\ id >= n)
  <2> SUFFICES ASSUME NEW id, Has(g, id), ~(id \in Nat /\ id >= n) PROVE Has(f, id)
    OBVIOUS
  <2>1. CASE \E o \in g.owners : o[2] = id
    BY <2>1, <1>2, <1>4 DEF Extends, Has
  <2>2. CASE \E i \in 1..Len(g.decls) : g.decls[i].id = id
    <3>1. PICK i \in 1..Len(g.decls) : g.decls[i].id = id
      BY <2>2
    <3>2. ~(i \in (Len(f.decls) + 1)..Len(g.decls))
      BY <3>1, <1>2, <1>4 DEF Extends
    <3>3. i \in 1..Len(f.decls)
      BY <3>2, <1>4
    <3>4. f.decls[i].id = id
      BY <3>1, <3>3, <1>2 DEF Extends
    <3> QED BY <3>3, <3>4 DEF Has
  <2> QED BY <2>1, <2>2 DEF Has
<1>6. \A l \in 1..D : \A id : Has(fs[l], id) => id \in Nat /\ id < n
  <2> SUFFICES ASSUME NEW l \in 1..D, NEW id, Has(fs[l], id) PROVE id \in Nat /\ id < n
    OBVIOUS
  <2>1. id \in 2..(n - 1)
    BY <1>1, HasOld
  <2> QED BY <2>1, <1>1
<1>7. \A l \in 1..D : GoodFrame(fs2[l], m)
  <2> SUFFICES ASSUME NEW l \in 1..D, l # D PROVE GoodFrame(fs2[l], m)
    BY <1>2
  <2>1. fs2[l] = fs[l] /\ GoodFrame(fs[l], n)
    BY <1>1, <1>3
  <2> QED BY <2>1, <1>1, GoodLater
<1>8. Apart(fs2, fns)
  <2>1. ASSUME NEW k \in 1..D, NEW l \in 1..D, NEW id \in Nat, Has(fs2[k], id), Has(fs2[l], id)
        PROVE  k = l
    <3>1. CASE k # D /\ l # D
      BY <3>1, <2>1, <1>1, <1>3 DEF Apart
    <3>2. CASE k = D /\ l # D
      <4>1. Has(fs[l], id) /\ id < n
        BY <3>2, <2>1, <1>3, <1>6
      <4>2. Has(fs[D], id)
        BY <3>2, <2>1, <4>1, <1>1, <1>5
      <4> QED BY <4>1, <4>2, <3>2, <1>1 DEF Apart
    <3>3. CASE k # D /\ l = D
      <4>1. Has(fs[k], id) /\ id < n
        BY <3>3, <2>1, <1>3, <1>6
      <4>2. Has(fs[D], id)
        BY <3>3, <2>1, <4>1, <1>1, <1>5
      <4> QED BY <4>1, <4>2, <3>3, <1>1 DEF Apart
    <3> QED BY <3>1, <3>2, <3>3
  <2>2. ASSUME NEW l \in 1..D, NEW i \in 1..Len(fns), NEW o \in fns[i].owners, Has(fs2[l], o[2])
        PROVE  FALSE
    <3>1. ~Has(fs[l], o[2])
      BY <1>1 DEF Apart
    <3>2. l = D /\ Has(g, o[2])
      BY <3>1, <2>2, <1>3
    <3>3. o[2] \in 2..(n - 1)
      BY <1>1
    <3>4. ~(o[2] >= n)
      BY <3>3, <1>1
    <3> QED BY <3>1, <3>2, <3>4, <1>5
  <2> QED BY <2>1, <2>2 DEF Apart
<1>9. Linked(fs2)
  <2>1. \A l \in 1..Len(fs) : fs2[l].upvals = fs[l].upvals
    BY <1>3, <1>4
  <2>2. \A l \in 1..(Len(fs) - 1) : fs2[l].decls = fs[l].decls
    OBVIOUS
  <2> QED BY <2>1, <2>2, <1>1, LinkedKept
<1>10. AllExact(fs2, fns, rch)
  <2>1. Exact(g, rch)
    <3>1. \A o \in g.owners : o[2] \in rch => o \in f.owners
      BY <1>1, <1>2, <1>4 DEF Extends
    <3>2. f.owners \subseteq g.owners
      BY <1>2 DEF Extends
    <3>3. Exact(f, rch)
      BY <1>1 DEF AllExact
    <3>4. {w \in f.owners : w[2] \in rch} = {w \in g.owners : w[2] \in rch}
      BY <3>1, <3>2
    <3> QED BY <3>3, <3>4, <1>4 DEF Exact
  <2> QED BY <2>1, <1>1, <1>3 DEF AllExact
<1>11. Spared(fs2, asg)
  <2> SUFFICES ASSUME NEW l \in 1..D, NEW i \in 1..Len(fs2[l].decls), fs2[l].decls[i].attrib = "const"
               PROVE  fs2[l].decls[i].id \notin asg
    BY DEF Spared
  <2>1. CASE l # D
    BY <2>1, <1>1, <1>3 DEF Spared
  <2>2. CASE l = D /\ i \in 1..Len(f.decls)
    BY <2>2, <1>1, <1>2 DEF Spared, Extends
  <2>3. CASE l = D /\ i \notin 1..Len(f.decls)
    <3>1. i \in (Len(f.decls) + 1)..Len(g.decls)
      BY <2>3, <1>4
    <3>2. g.decls[i].id >= n /\ g.decls[i].id \in Nat
      BY <3>1, <1>2, <1>4, <2>3 DEF Extends
    <3> QED BY <3>2, <2>3, <1>1
  <2> QED BY <2>1, <2>2, <2>3
<1>12. /\ rch \subseteq 2..(m - 1) /\ asg \subseteq 2..(m - 1) /\ m >= 2
       /\ (\A i \in 1..Len(fns) : \A o \in fns[i].owners : o[2] \in 2..(m - 1))
  BY <1>1
<1> QED BY <1>1, <1>7, <1>8, <1>9, <1>10, <1>11, <1>12 DEF NamesGood

(* The parts of NamesGood, with the numbers involved. *)
LEMMA NamesParts ==
  ASSUME NEW fs, NEW fns, NEW n, NEW rch, NEW asg, NamesGood(fs, fns, n, rch, asg)
  PROVE  /\ fs \in Seq(FrameRec) /\ Len(fs) \in Nat /\ Len(fs) >= 1 /\ Len(fs) \in 1..MaxDepth
         /\ fns \in Seq(FuncRec) /\ Len(fns) \in Nat
         /\ n \in Nat /\ n >= 2 /\ (\A l \in 1..Len(fs) : fs[l] \in FrameRec /\ GoodFrame(fs[l], n))
         /\ Apart(fs, fns) /\ Linked(fs)
         /\ (\A i \in 1..Len(fns) : \A o \in fns[i].owners : o[2] \in 2..(n - 1))
         /\ rch \subseteq 2..(n - 1) /\ asg \subseteq 2..(n - 1)
         /\ AllExact(fs, fns, rch) /\ Spared(fs, asg)
         /\ MaxDepth \in Nat
  BY ScopesAssumption DEF NamesGood

(* A function is begun: its frame has nothing that any other has. *)
LEMMA NamesPushed ==
  ASSUME NEW fs, NEW fns, NEW n, NEW rch, NEW asg, NamesGood(fs, fns, n, rch, asg),
         Len(fs) < MaxDepth, NEW h, GoodFrame(h, n), h.upvals = <<>>, h.captured = {},
         NEW new \in Nat, \A id : Has(h, id) => id = new,
         \A l \in 1..Len(fs) : ~Has(fs[l], new),
         \A i \in 1..Len(fns) : \A o \in fns[i].owners : o[2] # new,
         new \notin rch, new \notin asg
  PROVE  NamesGood(Append(fs, h), fns, n, rch, asg)
<1> DEFINE D == Len(fs)
           fs2 == Append(fs, h)
<1>1. /\ fs \in Seq(FrameRec) /\ D \in Nat /\ D >= 1 /\ D \in 1..MaxDepth /\ MaxDepth \in Nat
      /\ fns \in Seq(FuncRec)
      /\ n \in Nat /\ n >= 2 /\ (\A l \in 1..D : fs[l] \in FrameRec /\ GoodFrame(fs[l], n))
      /\ Apart(fs, fns) /\ Linked(fs)
      /\ (\A i \in 1..Len(fns) : \A o \in fns[i].owners : o[2] \in 2..(n - 1))
      /\ rch \subseteq 2..(n - 1) /\ asg \subseteq 2..(n - 1)
      /\ AllExact(fs, fns, rch) /\ Spared(fs, asg)
  BY NamesParts
<1>2. h \in FrameRec
  BY DEF GoodFrame
<1>3. /\ fs2 \in Seq(FrameRec) /\ Len(fs2) = D + 1 /\ fs2[D + 1] = h
      /\ \A l \in 1..D : fs2[l] = fs[l]
  BY <1>1, <1>2, AppendFacts
<1> HIDE DEF fs2
<1>4. \A l \in 1..(D + 1) : l \in 1..D \/ l = D + 1
  BY <1>1
<1>5. \A l \in 1..Len(fs2) : GoodFrame(fs2[l], n)
  BY <1>1, <1>3, <1>4
<1>6. \A l \in 1..D : \A id : Has(fs[l], id) => ~Has(h, id)
  OBVIOUS
<1>7. Apart(fs2, fns)
  <2>1. ASSUME NEW k \in 1..Len(fs2), NEW l \in 1..Len(fs2), NEW id \in Nat, Has(fs2[k], id), Has(fs2[l], id)
        PROVE  k = l
    <3>1. CASE k \in 1..D /\ l \in 1..D
      BY <3>1, <2>1, <1>1, <1>3 DEF Apart
    <3>2. CASE k = D + 1 /\ l \in 1..D
      BY <3>2, <2>1, <1>3, <1>6
    <3>3. CASE k \in 1..D /\ l = D + 1
      BY <3>3, <2>1, <1>3, <1>6
    <3> QED BY <1>3, <1>4, <3>1, <3>2, <3>3
  <2>2. ASSUME NEW l \in 1..Len(fs2), NEW i \in 1..Len(fns), NEW o \in fns[i].owners
        PROVE  ~Has(fs2[l], o[2])
    <3>1. CASE l \in 1..D
      BY <3>1, <1>1, <1>3 DEF Apart
    <3>2. CASE l = D + 1
      BY <3>2, <1>3
    <3> QED BY <1>3, <1>4, <3>1, <3>2
  <2> QED BY <2>1, <2>2 DEF Apart
<1>8. Linked(fs2)
  <2> SUFFICES ASSUME NEW l \in 1..Len(fs2), NEW i \in 1..Len(fs2[l].upvals)
               PROVE  Link(fs2, l, fs2[l].upvals[i])
    BY DEF Linked
  <2>1. l # D + 1
    <3>1. Len(h.upvals) = 0
      OBVIOUS
    <3> QED BY <3>1, <1>3
  <2>2. l \in 1..D /\ fs2[l] = fs[l]
    BY <2>1, <1>3, <1>4
  <2>3. Link(fs, l, fs[l].upvals[i])
    BY <2>2, <1>1 DEF Linked
  <2>4. l > 1 /\ l - 1 \in 1..D
    BY <2>2, <2>3, <1>1 DEF Link
  <2>5. fs2[l - 1] = fs[l - 1]
    BY <2>4, <1>3
  <2> QED BY <2>2, <2>3, <2>5 DEF Link
<1>9. Exact(h, rch)
  <2>1. {w \in h.owners : w[2] \in rch} = {}
    BY DEF Has
  <2> QED BY <2>1 DEF Exact
<1>10. AllExact(fs2, fns, rch)
  BY <1>1, <1>3, <1>4, <1>9 DEF AllExact
<1>11. Spared(fs2, asg)
  <2> SUFFICES ASSUME NEW l \in 1..Len(fs2), NEW i \in 1..Len(fs2[l].decls), fs2[l].decls[i].attrib = "const"
               PROVE  fs2[l].decls[i].id \notin asg
    BY DEF Spared
  <2>1. CASE l \in 1..D
    BY <2>1, <1>1, <1>3 DEF Spared
  <2>2. CASE l = D + 1
    <3>1. Has(h, h.decls[i].id)
      BY <2>2, <1>3 DEF Has
    <3> QED BY <3>1, <2>2, <1>3
  <2> QED BY <1>3, <1>4, <2>1, <2>2
<1>12. Len(fs2) \in 1..MaxDepth
  BY <1>1, <1>3
<1> QED BY <1>1, <1>3, <1>5, <1>7, <1>8, <1>10, <1>11, <1>12 DEF NamesGood, fs2

(* A function is finished. *)
LEMMA NamesPopped ==
  ASSUME NEW fs, NEW fns, NEW n, NEW rch, NEW asg, NamesGood(fs, fns, n, rch, asg),
         Len(fs) > 1, NEW r \in FuncRec,
         r.captured = fs[Len(fs)].captured, r.owners = fs[Len(fs)].owners
  PROVE  NamesGood(Front(fs, Len(fs) - 1), Append(fns, r), n, rch, asg)
<1> DEFINE D == Len(fs)
           fs2 == Front(fs, D - 1)
           fns2 == Append(fns, r)
<1>1. /\ fs \in Seq(FrameRec) /\ D \in Nat /\ D >= 1 /\ D \in 1..MaxDepth /\ MaxDepth \in Nat
      /\ fns \in Seq(FuncRec) /\ Len(fns) \in Nat
      /\ n \in Nat /\ n >= 2 /\ (\A l \in 1..D : fs[l] \in FrameRec /\ GoodFrame(fs[l], n))
      /\ Apart(fs, fns) /\ Linked(fs)
      /\ (\A i \in 1..Len(fns) : \A o \in fns[i].owners : o[2] \in 2..(n - 1))
      /\ rch \subseteq 2..(n - 1) /\ asg \subseteq 2..(n - 1)
      /\ AllExact(fs, fns, rch) /\ Spared(fs, asg)
  BY NamesParts
<1>2. /\ fs2 \in Seq(FrameRec) /\ Len(fs2) = D - 1
      /\ \A l \in 1..(D - 1) : fs2[l] = fs[l]
  <2>1. D - 1 \in 0..D
    BY <1>1
  <2> DEFINE p == D - 1
  <2> HIDE DEF p
  <2>2. Front(fs, p) \in Seq(FrameRec) /\ Len(Front(fs, p)) = p /\ \A l \in 1..p : Front(fs, p)[l] = fs[l]
    BY <2>1, <1>1, FrontFacts DEF p
  <2> QED BY <2>2 DEF p
<1>3. /\ fns2 \in Seq(FuncRec) /\ Len(fns2) = Len(fns) + 1 /\ fns2[Len(fns) + 1] = r
      /\ \A i \in 1..Len(fns) : fns2[i] = fns[i]
  BY <1>1, AppendFacts
<1> HIDE DEF fs2, fns2
<1>4. \A l \in 1..Len(fs2) : l \in 1..D /\ l # D /\ fs2[l] = fs[l]
  BY <1>1, <1>2
<1>5. \A i \in 1..Len(fns2) : (i \in 1..Len(fns) /\ fns2[i] = fns[i]) \/ (i = Len(fns) + 1 /\ fns2[i] = r)
  BY <1>1, <1>3
<1>6. \A o \in r.owners : Has(fs[D], o[2]) /\ o[2] \in 2..(n - 1) /\ o[2] \in Nat
  <2>1. GoodOwners(fs[D], n) /\ D \in 1..D
    BY <1>1 DEF GoodFrame
  <2> QED BY <2>1 DEF Has, GoodOwners
<1>7. Apart(fs2, fns2)
  <2>1. ASSUME NEW k \in 1..Len(fs2), NEW l \in 1..Len(fs2), NEW id \in Nat, Has(fs2[k], id), Has(fs2[l], id)
        PROVE  k = l
    BY <2>1, <1>1, <1>4 DEF Apart
  <2>2. ASSUME NEW l \in 1..Len(fs2), NEW i \in 1..Len(fns2), NEW o \in fns2[i].owners
        PROVE  ~Has(fs2[l], o[2])
    <3>1. CASE i \in 1..Len(fns) /\ fns2[i] = fns[i]
      BY <3>1, <1>1, <1>4 DEF Apart
    <3>2. CASE fns2[i] = r
      <4>1. Has(fs[D], o[2]) /\ o[2] \in Nat /\ D \in 1..D
        BY <3>2, <1>1, <1>6
      <4> QED BY <4>1, <1>1, <1>4 DEF Apart
    <3> QED BY <1>5, <3>1, <3>2
  <2> QED BY <2>1, <2>2 DEF Apart
<1>8. Linked(fs2)
  <2> SUFFICES ASSUME NEW l \in 1..Len(fs2), NEW i \in 1..Len(fs2[l].upvals)
               PROVE  Link(fs2, l, fs2[l].upvals[i])
    BY DEF Linked
  <2>1. l \in 1..D /\ fs2[l] = fs[l] /\ l \in 1..(D - 1)
    BY <1>2, <1>4
  <2>2. Link(fs, l, fs[l].upvals[i])
    BY <2>1, <1>1 DEF Linked
  <2>3. l > 1 /\ l - 1 \in 1..(D - 1)
    BY <2>1, <2>2, <1>1 DEF Link
  <2>4. fs2[l - 1] = fs[l - 1]
    BY <2>3, <1>2
  <2> QED BY <2>1, <2>2, <2>4 DEF Link
<1>9. AllExact(fs2, fns2, rch)
  <2>1. Exact(r, rch)
    <3>1. Exact(fs[D], rch)
      BY <1>1 DEF AllExact
    <3> QED BY <3>1 DEF Exact
  <2> QED BY <2>1, <1>1, <1>4, <1>5 DEF AllExact
<1>10. Spared(fs2, asg)
  BY <1>1, <1>4 DEF Spared
<1>11. Len(fs2) \in 1..MaxDepth
  BY <1>1, <1>2
<1>12. \A i \in 1..Len(fns2) : \A o \in fns2[i].owners : o[2] \in 2..(n - 1)
  BY <1>1, <1>5, <1>6
<1>13. \A l \in 1..Len(fs2) : GoodFrame(fs2[l], n)
  BY <1>1, <1>4
<1> QED BY <1>1, <1>2, <1>3, <1>7, <1>8, <1>9, <1>10, <1>11, <1>12, <1>13 DEF NamesGood, fs2, fns2

(* The declarations of a block go, and with them nothing else. *)
LEMMA NamesRewound ==
  ASSUME NEW fs, NEW fns, NEW n, NEW rch, NEW asg, NamesGood(fs, fns, n, rch, asg),
         NEW mark \in 0..Len(fs[Len(fs)].decls)
  PROVE  LET fs2 == [fs EXCEPT ![Len(fs)].decls = Front(@, mark)]
         IN  /\ NamesGood(fs2, fns, n, rch, asg)
             /\ fs2 \in Seq(FrameRec) /\ Len(fs2) = Len(fs)
             /\ \A l \in 1..Len(fs) : l # Len(fs) => fs2[l] = fs[l]
             /\ fs2[Len(fs)].decls = Front(fs[Len(fs)].decls, mark)
<1> DEFINE D == Len(fs)
           f == fs[D]
           ds == Front(f.decls, mark)
           g == [f EXCEPT !.decls = ds]
           fs2 == [fs EXCEPT ![Len(fs)].decls = Front(@, mark)]
<1>1. /\ fs \in Seq(FrameRec) /\ D \in Nat /\ D >= 1 /\ D \in 1..MaxDepth /\ MaxDepth \in Nat
      /\ fns \in Seq(FuncRec) /\ Len(fns) \in Nat
      /\ n \in Nat /\ n >= 2 /\ (\A l \in 1..D : fs[l] \in FrameRec /\ GoodFrame(fs[l], n))
      /\ Apart(fs, fns) /\ Linked(fs)
      /\ (\A i \in 1..Len(fns) : \A o \in fns[i].owners : o[2] \in 2..(n - 1))
      /\ rch \subseteq 2..(n - 1) /\ asg \subseteq 2..(n - 1)
      /\ AllExact(fs, fns, rch) /\ Spared(fs, asg)
  BY NamesParts
<1>2. D \in 1..D /\ f \in FrameRec /\ GoodFrame(f, n) /\ f.decls \in Seq(DeclRec) /\ Len(f.decls) \in Nat
  BY <1>1, FrameFields
<1>3. ds \in Seq(DeclRec) /\ Len(ds) = mark /\ \A i \in 1..mark : ds[i] = f.decls[i]
  BY <1>2, FrontFacts
<1>4. fs2 = [fs EXCEPT ![D] = g]
  BY Zenon
<1> HIDE DEF ds
<1>5. g = FrameOf(ds, f.next, f.upvals, f.captured, f.vararg, f.owners)
  BY <1>2, FrameChanged
<1>6. /\ g.decls = ds /\ g.next = f.next /\ g.upvals = f.upvals /\ g.captured = f.captured
      /\ g.owners = f.owners
  BY <1>5 DEF FrameOf
<1>7. g \in FrameRec
  BY <1>2, <1>3, <1>5 DEF FrameOf, FrameRec
<1> HIDE DEF g, fs2
<1>8. /\ fs2 \in Seq(FrameRec) /\ Len(fs2) = D /\ fs2[D] = g
      /\ \A l \in 1..D : l # D => fs2[l] = fs[l]
  BY <1>1, <1>2, <1>4, <1>7, ChangeFacts
<1> HIDE DEF f
<1>9. mark \in Nat /\ mark <= Len(f.decls)
  BY <1>2 DEF f
<1>10. \A i \in 1..mark : i \in 1..Len(f.decls) /\ g.decls[i] = f.decls[i]
  BY <1>2, <1>3, <1>6, <1>9
<1>11. \A id : Has(g, id) => Has(f, id)
  BY <1>3, <1>6, <1>10 DEF Has
<1>12. GoodFrame(g, n)
  <2>1. GoodDecls(f, n) /\ GoodOwners(f, n) /\ Len(f.upvals) <= MaxUpvals
    BY <1>2 DEF GoodFrame
  <2>2. GoodOwners(g, n)
    BY <2>1, <1>6 DEF GoodOwners
  <2>3. Len(g.decls) = mark /\ mark <= MaxLocals
    <3>1. Len(f.decls) <= MaxLocals /\ MaxLocals \in Nat
      BY <2>1, ScopesAssumption DEF GoodDecls
    <3> QED BY <3>1, <1>2, <1>3, <1>6, <1>9
  <2>4. GoodDecls(g, n)
    BY <2>1, <2>3, <1>6, <1>10 DEF GoodDecls
  <2> QED BY <2>1, <2>2, <2>4, <1>6, <1>7 DEF GoodFrame
<1>13. \A l \in 1..D : \A id : Has(fs2[l], id) => Has(fs[l], id)
  BY <1>8, <1>11 DEF f
<1>14. Apart(fs2, fns)
  BY <1>1, <1>8, <1>13 DEF Apart
<1>15. Linked(fs2)
  <2>1. /\ \A l \in 1..Len(fs) : fs2[l].upvals = fs[l].upvals
        /\ \A l \in 1..(Len(fs) - 1) : fs2[l].decls = fs[l].decls
    BY <1>1, <1>6, <1>8 DEF f
  <2> QED BY <2>1, <1>1, <1>8, LinkedKept
<1>16. AllExact(fs2, fns, rch)
  <2>1. Exact(g, rch)
    <3>1. Exact(f, rch)
      BY <1>1, <1>2 DEF AllExact, f
    <3> QED BY <3>1, <1>6 DEF Exact
  <2> QED BY <2>1, <1>1, <1>8 DEF AllExact
<1>17. Spared(fs2, asg)
  <2> SUFFICES ASSUME NEW l \in 1..D, NEW i \in 1..Len(fs2[l].decls), fs2[l].decls[i].attrib = "const"
               PROVE  fs2[l].decls[i].id \notin asg
    BY <1>8 DEF Spared
  <2>1. CASE l # D
    BY <2>1, <1>1, <1>8 DEF Spared
  <2>2. CASE l = D
    <3>1. i \in 1..Len(f.decls) /\ fs2[l].decls[i] = f.decls[i]
      BY <2>2, <1>3, <1>6, <1>8, <1>10
    <3> QED BY <3>1, <1>1, <1>2 DEF Spared, f
  <2> QED BY <2>1, <2>2
<1>18. \A l \in 1..Len(fs2) : GoodFrame(fs2[l], n)
  BY <1>1, <1>8, <1>12
<1>19. NamesGood(fs2, fns, n, rch, asg)
  BY <1>1, <1>8, <1>14, <1>15, <1>16, <1>17, <1>18 DEF NamesGood
<1> QED BY <1>6, <1>8, <1>19 DEF fs2, ds, f
-----------------------------------------------------------------------------
(* frame_add_upvalue leaves the upvalues there are, and returns one that is *)
(* as asked for.                                                            *)
Added(a, uv, src, idx, id) ==
  /\ a.uv \in Seq(UpvalRec) /\ Len(a.uv) >= Len(uv) /\ a.ix \in 1..Len(a.uv)
  /\ \A i \in 1..Len(uv) : a.uv[i] = uv[i]
  /\ a.uv[a.ix].src = src /\ a.uv[a.ix].idx = idx
  /\ \A i \in (Len(uv) + 1)..Len(a.uv) :
       a.uv[i].src = src /\ a.uv[i].idx = idx /\ a.uv[i].id = id

LEMMA UpvalueAdded ==
  ASSUME NEW uv \in Seq(UpvalRec), NEW src \in {"local", "upval"}, NEW idx \in Nat, NEW id \in Nat,
         NEW a, a = AddUpvalue(uv, src, idx, id)
  PROVE  Added(a, uv, src, idx, id)
<1> USE DEF Added
<1> DEFINE S == {i \in DOMAIN uv : uv[i].src = src /\ uv[i].idx = idx}
           u == [src |-> src, idx |-> idx, id |-> id]
<1>1. CASE S # {}
  <2> DEFINE j == CHOOSE i \in S : TRUE
  <2>1. a = [uv |-> uv, ix |-> j]
    BY <1>1 DEF AddUpvalue
  <2>2. j \in S
    BY <1>1
  <2> HIDE DEF j
  <2>3. j \in 1..Len(uv) /\ uv[j].src = src /\ uv[j].idx = idx
    BY <2>2
  <2>4. a.uv = uv /\ a.ix = j
    BY <2>1
  <2> HIDE DEF S
  <2>5. /\ a.uv \in Seq(UpvalRec) /\ Len(a.uv) >= Len(uv) /\ a.ix \in 1..Len(a.uv)
        /\ \A i \in 1..Len(uv) : a.uv[i] = uv[i]
        /\ a.uv[a.ix].src = src /\ a.uv[a.ix].idx = idx
        /\ \A i \in (Len(uv) + 1)..Len(a.uv) : FALSE
    BY <2>3, <2>4
  <2> QED BY <2>5
<1>2. CASE S = {}
  <2>1. a = [uv |-> Append(uv, u), ix |-> Len(uv) + 1]
    BY <1>2 DEF AddUpvalue
  <2>2. u \in UpvalRec /\ u.src = src /\ u.idx = idx /\ u.id = id
    BY DEF UpvalRec
  <2> HIDE DEF u, S
  <2>3. a.uv = Append(uv, u) /\ a.ix = Len(uv) + 1
    BY <2>1
  <2>4. /\ a.uv \in Seq(UpvalRec) /\ Len(a.uv) = Len(uv) + 1 /\ Len(uv) \in Nat /\ a.uv[Len(uv) + 1] = u
        /\ \A i \in 1..Len(uv) : a.uv[i] = uv[i]
    BY <2>2, <2>3, AppendFacts
  <2>5. \A i \in (Len(uv) + 1)..Len(a.uv) : i = Len(uv) + 1
    BY <2>4
  <2>6. a.ix \in 1..Len(a.uv) /\ Len(a.uv) >= Len(uv)
    BY <2>3, <2>4
  <2> QED BY <2>2, <2>3, <2>4, <2>5, <2>6
<1> QED BY <1>1, <1>2

(* The chain of upvalues up to frame k, as a recursion. *)
ChainStep(c, owner, d, f) ==
  IF f = owner + 1 THEN AddUpvalue(frames[f].upvals, "local", d.slot, d.id)
                   ELSE AddUpvalue(frames[f].upvals, "upval", c[f - 1].ix, d.id)
Chained(c, owner, d, k) == c = [f \in (owner + 1)..k |-> ChainStep(c, owner, d, f)]

LEMMA ChainExists ==
  ASSUME NEW owner \in Nat, NEW d, NEW k \in Nat
  PROVE  \E c : Chained(c, owner, d, k)
<1> DEFINE T == {j \in Nat : ~ \E c : Chained(c, owner, d, j)}
<1> SUFFICES ASSUME T # {} PROVE FALSE
  OBVIOUS
<1>0. T \subseteq Nat
  OBVIOUS
<1>1. PICK j \in T : \A i \in T : j <= i
  <2> HIDE DEF T
  <2> QED BY <1>0, LeastNat
<1>2. j > owner
  <2> SUFFICES ASSUME j <= owner PROVE FALSE
    BY <1>1
  <2> DEFINE z == [f \in (owner + 1)..j |-> 0]
  <2>1. (owner + 1)..j = {}
    BY <1>1
  <2>2. z = [f \in (owner + 1)..j |-> ChainStep(z, owner, d, f)]
    BY <2>1
  <2> QED BY <2>2, <1>1 DEF Chained
<1>3. j - 1 \in Nat /\ j - 1 \notin T
  BY <1>1, <1>2
<1>4. PICK c : Chained(c, owner, d, j - 1)
  BY <1>3
<1> DEFINE h == [f \in (owner + 1)..j |-> IF f = j THEN ChainStep(c, owner, d, j) ELSE c[f]]
<1>5. ASSUME NEW f \in (owner + 1)..j
      PROVE  h[f] = ChainStep(h, owner, d, f)
  <2>1. f # owner + 1 => h[f - 1] = c[f - 1]
    <3>1. f # owner + 1 => f - 1 \in (owner + 1)..j /\ f - 1 # j
      BY <1>1
    <3> QED BY <3>1
  <2>2. ChainStep(h, owner, d, f) = ChainStep(c, owner, d, f)
    BY <2>1 DEF ChainStep
  <2>3. CASE f = j
    BY <2>2, <2>3
  <2>4. CASE f # j
    <3>1. f \in (owner + 1)..(j - 1)
      BY <2>4, <1>1
    <3>2. c[f] = ChainStep(c, owner, d, f)
      BY <3>1, <1>4, Zenon DEF Chained
    <3> QED BY <2>2, <2>4, <3>2
  <2> QED BY <2>3, <2>4
<1>6. h = [f \in (owner + 1)..j |-> h[f]]
  BY Zenon
<1>7. Chained(h, owner, d, j)
  <2> HIDE DEF h
  <2>1. [f \in (owner + 1)..j |-> h[f]] = [f \in (owner + 1)..j |-> ChainStep(h, owner, d, f)]
    BY <1>5
  <2> QED BY <1>6, <2>1, Zenon DEF Chained
<1> QED BY <1>1, <1>7

(* Chain is such a chain. *)
LEMMA ChainIsChained ==
  ASSUME NEW owner \in Nat, NEW d, Depth \in Nat
  PROVE  Chained(Chain(owner, d), owner, d, Depth)
<1>1. \E c : Chained(c, owner, d, Depth)
  BY ChainExists
<1>2. Chain(owner, d) = CHOOSE c : Chained(c, owner, d, Depth)
  BY Zenon DEF Chain, Chained, ChainStep
<1> QED BY <1>1, <1>2, Zenon

(* One link of the chain from a local of frame o up to frame f. *)
ChainLink(c, o, d, f) ==
  /\ c[f].uv \in Seq(UpvalRec) /\ Len(c[f].uv) \in Nat
  /\ Len(c[f].uv) >= Len(frames[f].upvals)
  /\ \A i \in 1..Len(frames[f].upvals) : c[f].uv[i] = frames[f].upvals[i]
  /\ c[f].ix \in 1..Len(c[f].uv) /\ c[f].uv[c[f].ix].id = d.id
  /\ \A i \in (Len(frames[f].upvals) + 1)..Len(c[f].uv) :
       /\ c[f].uv[i].id = d.id
       /\ f = o + 1 => c[f].uv[i].src = "local" /\ c[f].uv[i].idx = d.slot
       /\ f # o + 1 => c[f].uv[i].src = "upval" /\ c[f].uv[i].idx = c[f - 1].ix

(* In a good frame, a slot belongs to one declaration. *)
LEMMA SlotOnce ==
  ASSUME NEW f, NEW n \in Nat, GoodFrame(f, n),
         NEW i \in 1..Len(f.decls), NEW j \in 1..Len(f.decls),
         \/ f.decls[i].slot = f.decls[j].slot /\ f.decls[i].slot \in Nat
         \/ f.decls[i].id = f.decls[j].id
  PROVE  i = j
<1>1. /\ \A k \in 1..Len(f.decls) :
            /\ f.decls[k].kind = "local" => <<f.decls[k].slot, f.decls[k].id>> \in f.owners
            /\ f.decls[k].kind # "local" => f.decls[k].slot = -1
      /\ \A k, l \in 1..Len(f.decls) : k < l => f.decls[k].id < f.decls[l].id
      /\ \A a, b \in f.owners : a[1] = b[1] \/ a[2] = b[2] => a = b
      /\ Len(f.decls) \in Nat
      /\ \A k \in 1..Len(f.decls) : f.decls[k].id \in Nat /\ f.decls[k].slot \in Int
  BY FrameFields DEF GoodFrame, GoodDecls, GoodOwners
<1>2. f.decls[i].id = f.decls[j].id
  <2> SUFFICES ASSUME f.decls[i].slot = f.decls[j].slot, f.decls[i].slot \in Nat
               PROVE  f.decls[i].id = f.decls[j].id
    OBVIOUS
  <2>1. f.decls[i].slot # -1 /\ f.decls[j].slot # -1
    OBVIOUS
  <2> DEFINE a == <<f.decls[i].slot, f.decls[i].id>>
             b == <<f.decls[j].slot, f.decls[j].id>>
  <2>2. a \in f.owners /\ b \in f.owners
    BY <1>1, <2>1
  <2>3. a[1] = b[1]
    OBVIOUS
  <2>4. a = b
    BY <1>1, <2>2, <2>3
  <2> QED BY <2>4
<1>3. ~(i < j) /\ ~(j < i)
  <2>1. f.decls[i].id \in Nat /\ f.decls[j].id \in Nat
    BY <1>1
  <2>2. ~(f.decls[i].id < f.decls[j].id) /\ ~(f.decls[j].id < f.decls[i].id)
    BY <1>2, <2>1
  <2> QED BY <1>1, <2>2
<1> QED BY <1>1, <1>3

LEMMA ChainFacts ==
  ASSUME NEW fns, NEW n, NEW rch, NEW asg, NamesGood(frames, fns, n, rch, asg),
         NEW o \in 1..(Depth - 1), NEW k \in 1..Len(Decls(o)), NEW d, d = Decls(o)[k], d.kind = "local",
         NEW c, Chained(c, o, d, Depth)
  PROVE  \A f \in (o + 1)..Depth : ChainLink(c, o, d, f)
<1>1. /\ frames \in Seq(FrameRec) /\ Depth \in Nat /\ Depth >= 1 /\ n \in Nat
      /\ (\A l \in 1..Depth : frames[l] \in FrameRec /\ GoodFrame(frames[l], n)) /\ Linked(frames)
  BY NamesParts DEF Depth
<1>2. o \in Nat /\ o \in 1..Depth
  BY <1>1
<1>3. d \in DeclRec /\ d.id \in Nat /\ d.slot \in Nat
  <2>1. GoodDecls(frames[o], n) /\ frames[o] \in FrameRec
    BY <1>1, <1>2 DEF GoodFrame
  <2>2. frames[o].decls[k] \in DeclRec /\ frames[o].decls[k].id \in Nat
    BY <2>1, FrameFields DEF Decls
  <2>3. frames[o].decls[k].slot \in 0..(frames[o].next - 1)
    BY <2>1 DEF GoodDecls, Decls
  <2> QED BY <2>2, <2>3 DEF Decls
<1>4. \A f \in (o + 1)..Depth : c[f] = ChainStep(c, o, d, f)
  BY Zenon DEF Chained
<1> DEFINE T == {f \in Nat : f \in (o + 1)..Depth /\ ~ChainLink(c, o, d, f)}
<1> SUFFICES ASSUME T # {} PROVE FALSE
  BY <1>1, <1>2
<1>5. PICK f \in T : \A g \in T : f <= g
  <2>1. T \subseteq Nat
    OBVIOUS
  <2> HIDE DEF T
  <2> QED BY <2>1, LeastNat
<1>6. f \in Nat /\ f \in (o + 1)..Depth /\ f \in 1..Depth /\ ~ChainLink(c, o, d, f)
  BY <1>1, <1>2, <1>5
<1>7. f # o + 1 => f - 1 \in (o + 1)..Depth /\ f - 1 \in 1..Depth /\ ChainLink(c, o, d, f - 1)
  <2> SUFFICES ASSUME f # o + 1 PROVE f - 1 \in (o + 1)..Depth /\ f - 1 \in 1..Depth /\ ChainLink(c, o, d, f - 1)
    OBVIOUS
  <2>1. f - 1 \in (o + 1)..Depth /\ f - 1 \in 1..Depth /\ f - 1 \in Nat /\ ~(f <= f - 1)
    BY <1>1, <1>2, <1>6
  <2>2. f - 1 \notin T
    BY <1>5, <2>1
  <2> QED BY <2>1, <2>2
<1> HIDE DEF T
<1> DEFINE uv == frames[f].upvals
           src == IF f = o + 1 THEN "local" ELSE "upval"
           idx == IF f = o + 1 THEN d.slot ELSE c[f - 1].ix
<1>8. c[f] = AddUpvalue(uv, src, idx, d.id)
  BY <1>4, <1>6 DEF ChainStep
<1>9. uv \in Seq(UpvalRec) /\ Len(uv) \in Nat /\ src \in {"local", "upval"} /\ idx \in Nat
  <2>1. uv \in Seq(UpvalRec) /\ Len(uv) \in Nat
    BY <1>1, <1>6, FrameFields
  <2>2. idx \in Nat
    <3>1. CASE f = o + 1
      BY <3>1, <1>3
    <3>2. CASE f # o + 1
      <4>1. c[f - 1].ix \in 1..Len(c[f - 1].uv) /\ Len(c[f - 1].uv) \in Nat
        BY <3>2, <1>7 DEF ChainLink
      <4> QED BY <3>2, <4>1
    <3> QED BY <3>1, <3>2
  <2> QED BY <2>1, <2>2
<1>10. /\ (f = o + 1 => src = "local" /\ idx = d.slot)
       /\ (f # o + 1 => src = "upval" /\ idx = c[f - 1].ix)
  OBVIOUS
<1> HIDE DEF src, idx
<1>11. /\ c[f].uv \in Seq(UpvalRec) /\ Len(c[f].uv) >= Len(uv) /\ c[f].ix \in 1..Len(c[f].uv)
       /\ \A i \in 1..Len(uv) : c[f].uv[i] = uv[i]
       /\ c[f].uv[c[f].ix].src = src /\ c[f].uv[c[f].ix].idx = idx
       /\ \A i \in (Len(uv) + 1)..Len(c[f].uv) :
            c[f].uv[i].src = src /\ c[f].uv[i].idx = idx /\ c[f].uv[i].id = d.id
  <2> DEFINE id == d.id
             a == c[f]
  <2>1. id \in Nat /\ a = AddUpvalue(uv, src, idx, id)
    BY <1>3, <1>8
  <2> HIDE DEF uv, id, a
  <2>2. /\ a.uv \in Seq(UpvalRec) /\ Len(a.uv) >= Len(uv) /\ a.ix \in 1..Len(a.uv)
        /\ \A i \in 1..Len(uv) : a.uv[i] = uv[i]
        /\ a.uv[a.ix].src = src /\ a.uv[a.ix].idx = idx
        /\ \A i \in (Len(uv) + 1)..Len(a.uv) :
             a.uv[i].src = src /\ a.uv[i].idx = idx /\ a.uv[i].id = id
    <3>1. uv \in Seq(UpvalRec)
      BY <1>9
    <3>2. src \in {"local", "upval"} /\ idx \in Nat /\ id \in Nat
      BY <1>9, <2>1
    <3>3. a = AddUpvalue(uv, src, idx, id)
      BY <2>1
    <3>4. Added(a, uv, src, idx, id)
      BY ONLY <3>1, <3>2, <3>3, UpvalueAdded
    <3> QED BY ONLY <3>4 DEF Added
  <2> QED BY <2>1, <2>2 DEF id, a
<1>12. Len(c[f].uv) \in Nat
  BY <1>11
<1> DEFINE u == c[f].uv[c[f].ix]
<1>13. u.id = d.id
  <2>1. CASE c[f].ix \in (Len(uv) + 1)..Len(c[f].uv)
    BY <2>1, <1>11
  <2>2. CASE c[f].ix \in 1..Len(uv)
    <3>1. u = uv[c[f].ix] /\ u.src = src /\ u.idx = idx
      BY <2>2, <1>11
    <3>2. Link(frames, f, u)
      BY <2>2, <3>1, <1>1, <1>6 DEF Linked, Depth
    <3> HIDE DEF u, uv
    <3>3. CASE f = o + 1
      <4>0. f - 1 = o
        BY <3>3, <1>2
      <4>1. PICK q \in 1..Len(frames[o].decls) : frames[o].decls[q].slot = u.idx /\ frames[o].decls[q].id = u.id
        BY <3>1, <3>2, <3>3, <4>0, <1>10 DEF Link
      <4>2. frames[o].decls[q].slot = frames[o].decls[k].slot /\ frames[o].decls[q].slot \in Nat
        BY <4>1, <3>1, <3>3, <1>3, <1>10 DEF Decls
      <4>3. q = k
        BY <4>2, <1>1, <1>2, SlotOnce DEF Decls
      <4> QED BY <4>1, <4>3 DEF Decls
    <3>4. CASE f # o + 1
      <4>1. u.src = "upval" /\ u.idx = c[f - 1].ix
        BY <3>1, <3>4, <1>10
      <4>2. c[f - 1].ix \in 1..Len(frames[f - 1].upvals) /\ frames[f - 1].upvals[c[f - 1].ix].id = u.id
        BY <4>1, <3>2 DEF Link
      <4>3. ChainLink(c, o, d, f - 1)
        BY <1>7, <3>4
      <4> QED BY <4>2, <4>3 DEF ChainLink
    <3> QED BY <3>3, <3>4
  <2> QED BY <2>1, <2>2, <1>9, <1>11, <1>12
<1>14. ChainLink(c, o, d, f)
  BY <1>10, <1>11, <1>12, <1>13 DEF ChainLink
<1> QED BY <1>6, <1>14

(* Two frames that differ in upvalues and captured slots only. *)
SameScope(f, g) == g.decls = f.decls /\ g.next = f.next /\ g.owners = f.owners /\ g.vararg = f.vararg

(* Frames fs2, where the functions above frame o got the chain c of         *)
(* upvalues for the local d of frame o.                                     *)
Caught(fs2, c, o, d) ==
  /\ Len(fs2) = Depth /\ fs2 \in Seq(FrameRec)
  /\ \A f \in 1..Depth : SameScope(frames[f], fs2[f])
  /\ \A f \in 1..o : fs2[f].upvals = frames[f].upvals
  /\ \A f \in 1..Depth : f # o => fs2[f].captured = frames[f].captured
  /\ fs2[o].captured = frames[o].captured \cup {d.slot}
  /\ \A f \in (o + 1)..Depth : /\ fs2[f].upvals = c[f].uv
                                /\ ChainLink(c, o, d, f) /\ Len(c[f].uv) <= MaxUpvals

LEMMA UpvalueMade ==
  ASSUME NEW fns, NEW n, NEW rch, NEW asg, NamesGood(frames, fns, n, rch, asg),
         NEW o \in 1..(Depth - 1), NEW k \in 1..Len(Decls(o)), NEW d, d = Decls(o)[k], d.kind = "local",
         NEW c, NEW fs2, Caught(fs2, c, o, d)
  PROVE  NamesGood(fs2, fns, n, rch \cup {d.id}, asg)
<1>0. /\ Len(fs2) = Depth /\ fs2 \in Seq(FrameRec)
      /\ \A f \in 1..Depth : SameScope(frames[f], fs2[f])
      /\ \A f \in 1..o : fs2[f].upvals = frames[f].upvals
      /\ \A f \in 1..Depth : f # o => fs2[f].captured = frames[f].captured
      /\ fs2[o].captured = frames[o].captured \cup {d.slot}
      /\ \A f \in (o + 1)..Depth : /\ fs2[f].upvals = c[f].uv
                                    /\ ChainLink(c, o, d, f) /\ Len(c[f].uv) <= MaxUpvals
  BY DEF Caught
<1> USE <1>0
<1>1. /\ frames \in Seq(FrameRec) /\ Depth \in Nat /\ Depth >= 1 /\ Depth \in 1..MaxDepth /\ n \in Nat /\ n >= 2
      /\ (\A l \in 1..Depth : frames[l] \in FrameRec /\ GoodFrame(frames[l], n))
      /\ fns \in Seq(FuncRec) /\ Len(fns) \in Nat /\ Apart(frames, fns) /\ Linked(frames)
      /\ (\A i \in 1..Len(fns) : \A w \in fns[i].owners : w[2] \in 2..(n - 1))
      /\ rch \subseteq 2..(n - 1) /\ asg \subseteq 2..(n - 1)
      /\ AllExact(frames, fns, rch) /\ Spared(frames, asg)
  BY NamesParts DEF Depth
<1>2. o \in Nat /\ o \in 1..Depth /\ \A f \in 1..Depth : f \in 1..o \/ f \in (o + 1)..Depth
  BY <1>1
<1>3. d.id \in 2..(n - 1) /\ d.id \in Nat /\ d.slot \in Nat /\ <<d.slot, d.id>> \in frames[o].owners
  <2>1. GoodDecls(frames[o], n) /\ frames[o] \in FrameRec
    BY <1>1, <1>2 DEF GoodFrame
  <2>2. d.id \in 2..(n - 1) /\ d.slot \in 0..(frames[o].next - 1) /\ <<d.slot, d.id>> \in frames[o].owners
    BY <2>1 DEF GoodDecls, Decls
  <2> QED BY <2>2
<1>4. \A f \in 1..Depth : fs2[f].decls = frames[f].decls /\ fs2[f].owners = frames[f].owners
  BY DEF SameScope
<1>5. \A f \in 1..Depth : GoodFrame(fs2[f], n)
  <2> SUFFICES ASSUME NEW f \in 1..Depth PROVE GoodFrame(fs2[f], n)
    OBVIOUS
  <2>1. /\ GoodDecls(frames[f], n) /\ GoodOwners(frames[f], n) /\ SameScope(frames[f], fs2[f])
        /\ Len(frames[f].upvals) <= MaxUpvals
    BY <1>1 DEF GoodFrame
  <2>2. GoodDecls(fs2[f], n) /\ GoodOwners(fs2[f], n)
    BY <2>1 DEF GoodDecls, GoodOwners, SameScope
  <2>3. Len(fs2[f].upvals) <= MaxUpvals
    BY <2>1, <1>2
  <2>4. fs2[f] \in FrameRec
    BY <1>1
  <2> QED BY <2>2, <2>3, <2>4 DEF GoodFrame
<1>6. \A f \in 1..Depth : \A id : Has(fs2[f], id) <=> Has(frames[f], id)
  BY <1>4 DEF Has
<1>7. Apart(fs2, fns)
  <2>1. \A f, g \in 1..Len(fs2) : \A id \in Nat : Has(fs2[f], id) /\ Has(fs2[g], id) => f = g
    BY <1>1, <1>6 DEF Apart, Depth
  <2>2. \A f \in 1..Len(fs2), i \in 1..Len(fns) : \A w \in fns[i].owners : ~Has(fs2[f], w[2])
    BY <1>1, <1>6 DEF Apart, Depth
  <2> QED BY <2>1, <2>2 DEF Apart
<1>8. Linked(fs2)
  <2> SUFFICES ASSUME NEW f \in 1..Depth, NEW i \in 1..Len(fs2[f].upvals)
               PROVE  Link(fs2, f, fs2[f].upvals[i])
    BY DEF Linked
  <2> DEFINE u == fs2[f].upvals[i]
  (* what is there below is still there *)
  <2>1. \A g \in 1..Depth : \A q \in 1..Len(frames[g].upvals) :
           q \in 1..Len(fs2[g].upvals) /\ fs2[g].upvals[q] = frames[g].upvals[q]
    <3> SUFFICES ASSUME NEW g \in 1..Depth, NEW q \in 1..Len(frames[g].upvals)
                 PROVE  q \in 1..Len(fs2[g].upvals) /\ fs2[g].upvals[q] = frames[g].upvals[q]
      OBVIOUS
    <3>1. CASE g \in 1..o
      BY <3>1
    <3>2. CASE g \in (o + 1)..Depth
      <4>1. ChainLink(c, o, d, g) /\ fs2[g].upvals = c[g].uv
        BY <3>2
      <4>2. Len(c[g].uv) \in Nat /\ Len(c[g].uv) >= Len(frames[g].upvals) /\ c[g].uv[q] = frames[g].upvals[q]
        BY <4>1 DEF ChainLink
      <4>3. Len(frames[g].upvals) \in Nat
        BY <1>1, FrameFields
      <4> QED BY <4>1, <4>2, <4>3
    <3> QED BY <1>2, <3>1, <3>2
  <2>2. CASE i \in 1..Len(frames[f].upvals)
    <3>1. Link(frames, f, u) /\ u = frames[f].upvals[i]
      BY <2>1, <2>2, <1>1 DEF Linked, Depth
    <3> HIDE DEF u
    <3>2. f > 1 /\ f - 1 \in 1..Depth
      BY <3>1, <1>1 DEF Link
    <3>3. u.src = "upval" => u.idx \in 1..Len(fs2[f - 1].upvals) /\ fs2[f - 1].upvals[u.idx].id = u.id
      BY <3>1, <3>2, <2>1 DEF Link
    <3>4. fs2[f - 1].decls = frames[f - 1].decls
      BY <3>2, <1>4
    <3>5. Link(fs2, f, u)
      BY <3>1, <3>2, <3>3, <3>4 DEF Link
    <3> QED BY <3>5 DEF u
  <2>3. CASE i \notin 1..Len(frames[f].upvals)
    <3>1. f \in (o + 1)..Depth
      <4>1. ~(f \in 1..o)
        BY <2>3
      <4> QED BY <4>1, <1>2
    <3>2. ChainLink(c, o, d, f) /\ fs2[f].upvals = c[f].uv /\ Len(frames[f].upvals) \in Nat
      BY <3>1, <1>1, FrameFields
    <3>3. i \in (Len(frames[f].upvals) + 1)..Len(c[f].uv) /\ u = c[f].uv[i]
      BY <2>3, <3>2
    <3>4. /\ u.id = d.id
          /\ f = o + 1 => u.src = "local" /\ u.idx = d.slot
          /\ f # o + 1 => u.src = "upval" /\ u.idx = c[f - 1].ix
      BY <3>2, <3>3 DEF ChainLink
    <3> HIDE DEF u
    <3>5. CASE f = o + 1
      <4>1. f - 1 = o /\ f > 1
        BY <3>5, <1>2
      <4>2. k \in 1..Len(fs2[f - 1].decls) /\ fs2[f - 1].decls[k] = d
        BY <4>1, <1>2, <1>4 DEF Decls
      <4>3. Link(fs2, f, u)
        BY <3>4, <3>5, <4>1, <4>2 DEF Link
      <4> QED BY <4>3 DEF u
    <3>6. CASE f # o + 1
      <4>1. f - 1 \in (o + 1)..Depth /\ f > 1
        BY <3>1, <3>6, <1>1, <1>2
      <4>2. ChainLink(c, o, d, f - 1) /\ fs2[f - 1].upvals = c[f - 1].uv
        BY <4>1
      <4>3. c[f - 1].ix \in 1..Len(fs2[f - 1].upvals) /\ fs2[f - 1].upvals[c[f - 1].ix].id = d.id
        BY <4>2 DEF ChainLink
      <4>4. Link(fs2, f, u)
        BY <3>4, <3>6, <4>1, <4>3 DEF Link
      <4> QED BY <4>4 DEF u
    <3> QED BY <3>5, <3>6
  <2> QED BY <2>2, <2>3
<1> DEFINE rch2 == rch \cup {d.id}
<1>9. Exact(fs2[o], rch2)
  <2>1. \A w \in frames[o].owners : w[2] = d.id => w = <<d.slot, d.id>>
    <3>1. GoodOwners(frames[o], n)
      BY <1>1, <1>2 DEF GoodFrame
    <3> DEFINE b == <<d.slot, d.id>>
    <3>2. b \in frames[o].owners /\ b[2] = d.id
      BY <1>3
    <3> HIDE DEF b
    <3>3. \A w \in frames[o].owners : w[2] = d.id => w = b
      BY <3>1, <3>2 DEF GoodOwners
    <3> QED BY <3>3 DEF b
  <2>2. frames[o].captured = {w[1] : w \in {v \in frames[o].owners : v[2] \in rch}}
    BY <1>1, <1>2 DEF AllExact, Exact, Depth
  <2>3. {v \in frames[o].owners : v[2] \in rch2} = {v \in frames[o].owners : v[2] \in rch} \cup {<<d.slot, d.id>>}
    <3> DEFINE b == <<d.slot, d.id>>
               os == frames[o].owners
    <3>1. b \in os /\ b[2] = d.id /\ \A w \in os : w[2] = d.id => w = b
      BY <2>1, <1>3
    <3> HIDE DEF b, os
    <3>2. {v \in os : v[2] \in rch2} = {v \in os : v[2] \in rch} \cup {b}
      BY <3>1
    <3> QED BY <3>2 DEF b, os
  <2>4. {w[1] : w \in {v \in frames[o].owners : v[2] \in rch2}}
        = {w[1] : w \in {v \in frames[o].owners : v[2] \in rch}} \cup {d.slot}
    <3> DEFINE A == {v \in frames[o].owners : v[2] \in rch2}
               B == {v \in frames[o].owners : v[2] \in rch}
               b == <<d.slot, d.id>>
    <3>1. A = B \cup {b} /\ b[1] = d.slot
      BY <2>3
    <3> HIDE DEF A, B, b
    <3>2. {w[1] : w \in A} = {w[1] : w \in B} \cup {d.slot}
      BY <3>1
    <3> QED BY <3>2 DEF A, B
  <2> QED BY <2>2, <2>4, <1>2, <1>4 DEF Exact
<1>10. ASSUME NEW g, Exact(g, rch), \A w \in g.owners : w[2] # d.id
       PROVE  Exact(g, rch2)
  <2>1. {v \in g.owners : v[2] \in rch2} = {v \in g.owners : v[2] \in rch}
    BY <1>10
  <2> QED BY <2>1, <1>10 DEF Exact
<1>11. Has(frames[o], d.id)
  BY <1>3 DEF Has
<1>12. \A f \in 1..Depth : Exact(fs2[f], rch2)
  <2> SUFFICES ASSUME NEW f \in 1..Depth, f # o PROVE Exact(fs2[f], rch2)
    BY <1>9
  <2>1. Exact(fs2[f], rch)
    <3>1. Exact(frames[f], rch)
      BY <1>1 DEF AllExact, Depth
    <3>2. fs2[f].captured = frames[f].captured /\ fs2[f].owners = frames[f].owners
      BY <1>4
    <3> QED BY <3>1, <3>2 DEF Exact
  <2>2. ~Has(frames[f], d.id)
    BY <1>1, <1>2, <1>3, <1>11 DEF Apart, Depth
  <2>3. \A w \in fs2[f].owners : w[2] # d.id
    BY <2>2, <1>4 DEF Has
  <2> HIDE DEF rch2
  <2> QED BY <2>1, <2>3, <1>10
<1>13. \A i \in 1..Len(fns) : Exact(fns[i], rch2)
  <2> SUFFICES ASSUME NEW i \in 1..Len(fns) PROVE Exact(fns[i], rch2)
    OBVIOUS
  <2>1. Exact(fns[i], rch)
    BY <1>1 DEF AllExact
  <2>2. \A w \in fns[i].owners : w[2] # d.id
    BY <1>1, <1>2, <1>11 DEF Apart, Depth
  <2> HIDE DEF rch2
  <2> QED BY <2>1, <2>2, <1>10
<1>14. AllExact(fs2, fns, rch2)
  <2> HIDE DEF rch2
  <2> QED BY <1>12, <1>13 DEF AllExact
<1>15. Spared(fs2, asg)
  BY <1>1, <1>4 DEF Spared, Depth
<1>16. rch2 \subseteq 2..(n - 1)
  BY <1>1, <1>3
<1> HIDE DEF rch2
<1>17. NamesGood(fs2, fns, n, rch2, asg)
  BY <1>1, <1>5, <1>7, <1>8, <1>14, <1>15, <1>16 DEF NamesGood
<1> QED BY <1>17 DEF rch2

(* What a resolution returns, field by field. *)
Result(kind, idx, ro, id, fs, gs) ==
  [kind |-> kind, idx |-> idx, ro |-> ro, id |-> id, frames |-> fs, globals |-> gs]

LEMMA ResultFields ==
  ASSUME NEW kind, NEW idx, NEW ro, NEW id, NEW fs, NEW gs, NEW r, r = Result(kind, idx, ro, id, fs, gs)
  PROVE  r.kind = kind /\ r.idx = idx /\ r.id = id /\ r.frames = fs /\ r.globals = gs
  BY DEF Result

(* A name that is global or built in changes no frame, and at most adds     *)
(* itself to the globals when there is room.                                *)
LEMMA GlobalResolved ==
  ASSUME NEW name, NEW ro, FewGlobals(globals), NEW r, r = AsGlobal(name, ro)
  PROVE  /\ r.frames = frames /\ r.id = 0 /\ r.kind \in {"builtin", "global", "error"}
         /\ FewGlobals(r.globals)
<1> DEFINE z == Unbound.ro
<1>0. Unbound = Result("error", 0, z, 0, frames, globals)
  BY DEF Unbound, Result
<1> HIDE DEF z
<1>1. CASE name \in Builtins
  <2> DEFINE r1 == [Unbound EXCEPT !.kind = "builtin"]
  <2>1. r = [r1 EXCEPT !.ro = ro]
    BY <1>1, Zenon DEF AsGlobal
  <2>2. r1 = Result("builtin", 0, z, 0, frames, globals)
    BY <1>0 DEF Result
  <2> HIDE DEF r1
  <2>3. r = Result("builtin", 0, ro, 0, frames, globals)
    BY <2>1, <2>2 DEF Result
  <2>4. r.frames = frames /\ r.id = 0 /\ r.kind = "builtin" /\ r.globals = globals
    BY <2>3 DEF Result
  <2> QED BY <2>4
<1>2. CASE name \notin Builtins /\ (name \in globals \/ Cardinality(globals) < MaxGlobals)
  <2> DEFINE gs == globals \cup {name}
             r1 == [Unbound EXCEPT !.kind = "global"]
             r2 == [r1 EXCEPT !.ro = ro]
  <2>1. r = [r2 EXCEPT !.globals = @ \cup {name}]
    BY <1>2, Zenon DEF AsGlobal
  <2>2. r1 = Result("global", 0, z, 0, frames, globals)
    BY <1>0 DEF Result
  <2> HIDE DEF r1
  <2>3. r2 = Result("global", 0, ro, 0, frames, globals)
    BY <2>2 DEF Result
  <2> HIDE DEF r2
  <2>4. r.frames = frames /\ r.id = 0 /\ r.kind = "global" /\ r.globals = gs
    BY <2>1, <2>3 DEF Result
  <2>5. FewGlobals(gs)
    <3>1. IsFiniteSet(globals) /\ Cardinality(globals) \in Nat /\ Cardinality(globals) <= MaxGlobals /\ MaxGlobals \in Nat
      BY ScopesAssumption, FS_CardinalityType DEF FewGlobals
    <3>2. CASE name \in globals
      <4>1. gs = globals
        BY <3>2
      <4> QED BY <4>1
    <3>3. CASE name \notin globals
      <4>1. IsFiniteSet(gs) /\ Cardinality(gs) = Cardinality(globals) + 1
        BY <3>1, <3>3, FS_AddElement
      <4> HIDE DEF gs
      <4>2. Cardinality(gs) <= MaxGlobals
        BY <4>1, <3>1, <3>3, <1>2
      <4> QED BY <4>1, <4>2 DEF FewGlobals
    <3> QED BY <3>2, <3>3
  <2> QED BY <2>4, <2>5
<1>3. CASE name \notin Builtins /\ ~(name \in globals \/ Cardinality(globals) < MaxGlobals)
  <2>1. r = Unbound
    BY <1>3 DEF AsGlobal
  <2>2. r.frames = frames /\ r.id = 0 /\ r.kind = "error" /\ r.globals = globals
    BY <2>1 DEF Unbound
  <2> QED BY <2>2
<1> QED BY <1>1, <1>2, <1>3

(* A search finds a declaration of a name. *)
LEMMA SearchFacts ==
  ASSUME frames \in Seq(FrameRec), NEW name, NEW f \in 1..Depth, Search(f, name) # 0
  PROVE  Search(f, name) \in 1..Len(Decls(f)) /\ Decls(f)[Search(f, name)].kind \in {"local", "global"}
<1> DEFINE S == {i \in DOMAIN Decls(f) : Decls(f)[i].kind # "all" /\ Decls(f)[i].name = name}
<1>1. Decls(f) \in Seq(DeclRec) /\ Len(Decls(f)) \in Nat /\ DOMAIN Decls(f) = 1..Len(Decls(f))
  <2>1. frames[f] \in FrameRec
    BY DEF Depth
  <2> QED BY <2>1, FrameFields DEF Decls
<1>2. Search(f, name) = Greatest(S) /\ S # {}
  BY DEF Search
<1>3. S \subseteq 1..Len(Decls(f))
  BY <1>1
<1>4. Greatest(S) \in S
  <2> HIDE DEF S
  <2> QED BY <1>1, <1>2, <1>3, GreatestFacts
<1>5. Decls(f)[Greatest(S)] \in DeclRec /\ Decls(f)[Greatest(S)].kind # "all" /\ Greatest(S) \in 1..Len(Decls(f))
  <2>1. \A i \in S : i \in 1..Len(Decls(f)) /\ Decls(f)[i].kind # "all"
    BY <1>3
  <2>2. \A i \in 1..Len(Decls(f)) : Decls(f)[i] \in DeclRec
    BY <1>1
  <2> HIDE DEF S
  <2> QED BY <1>4, <2>1, <2>2
<1> HIDE DEF S
<1>6. Decls(f)[Greatest(S)].kind \in {"local", "global"}
  BY <1>5 DEF DeclRec
<1> QED BY <1>2, <1>5, <1>6

LEMMA OwnerFacts ==
  ASSUME frames \in Seq(FrameRec), NEW name, OwnerFrame(name) # 0
  PROVE  OwnerFrame(name) \in 1..Depth /\ Search(OwnerFrame(name), name) # 0
<1> DEFINE S == {f \in 1..Depth : Search(f, name) # 0}
<1>1. OwnerFrame(name) = Greatest(S) /\ S # {}
  BY DEF OwnerFrame
<1>2. S \subseteq 1..Depth /\ Depth \in Nat
  BY DEF Depth
<1>3. Greatest(S) \in S
  <2> HIDE DEF S
  <2> QED BY <1>1, <1>2, GreatestFacts
<1>4. \A f \in S : f \in 1..Depth /\ Search(f, name) # 0
  OBVIOUS
<1> HIDE DEF S
<1> QED BY <1>1, <1>3, <1>4

(* The frames that AsUpvalue returns. *)
UpvalueFrames(o, d) ==
  [f \in DOMAIN frames |->
     IF f = o THEN [frames[f] EXCEPT !.captured = @ \cup {d.slot}]
     ELSE IF f > o THEN [frames[f] EXCEPT !.upvals = Chain(o, d)[f].uv]
     ELSE frames[f]]

ByUpvalue(r, d, fns, n, rch, asg) ==
  /\ r.kind = "upval" /\ r.id = d.id /\ r.globals = globals
  /\ NamesGood(r.frames, fns, n, rch \cup {d.id}, asg)
  /\ Len(r.frames) = Depth
  /\ \A f \in 1..Depth : SameScope(frames[f], r.frames[f])
  /\ r.idx \in 1..Len(r.frames[Depth].upvals) /\ r.frames[Depth].upvals[r.idx].id = d.id

LEMMA UpvalueResolved ==
  ASSUME NEW fns, NEW n, NEW rch, NEW asg, NamesGood(frames, fns, n, rch, asg),
         NEW o \in 1..(Depth - 1), NEW k \in 1..Len(Decls(o)), NEW d, d = Decls(o)[k], d.kind = "local",
         NEW r, r = AsUpvalue(o, d), r.kind # "error"
  PROVE  ByUpvalue(r, d, fns, n, rch, asg)
<1>1. /\ frames \in Seq(FrameRec) /\ Depth \in Nat /\ Depth >= 1 /\ Depth \in 1..MaxDepth /\ n \in Nat /\ n >= 2
      /\ (\A l \in 1..Depth : frames[l] \in FrameRec /\ GoodFrame(frames[l], n))
  BY NamesParts DEF Depth
<1>2. o \in Nat /\ o \in 1..Depth /\ o < Depth /\ Depth \in (o + 1)..Depth /\ \A f \in 1..Depth : f \in 1..o \/ f \in (o + 1)..Depth
  BY <1>1
<1> DEFINE c == Chain(o, d)
           fs2 == UpvalueFrames(o, d)
<1>3. Chained(c, o, d, Depth)
  BY <1>1, <1>2, ChainIsChained
<1>4. DOMAIN c = (o + 1)..Depth
  <2> HIDE DEF c
  <2> QED BY <1>3 DEF Chained
<1>5. \A f \in (o + 1)..Depth : ChainLink(c, o, d, f)
  <2> HIDE DEF c
  <2> QED BY <1>3, ChainFacts
<1>6. ~ \E f \in DOMAIN c : Len(c[f].uv) > MaxUpvals
  <2> SUFFICES ASSUME \E f \in DOMAIN c : Len(c[f].uv) > MaxUpvals PROVE FALSE
    OBVIOUS
  <2>1. r = Unbound
    BY Zenon DEF AsUpvalue
  <2> QED BY <2>1 DEF Unbound
<1>7. /\ r.kind = "upval" /\ r.id = d.id /\ r.globals = globals /\ r.frames = fs2 /\ r.idx = c[Depth].ix
  <2> DEFINE ix == c[Depth].ix
             id == d.id
             kind == "upval"
             z == Unbound.ro
  <2> DEFINE r1 == [Unbound EXCEPT !.kind = kind]
             r2 == [r1 EXCEPT !.idx = ix]
             r3 == [r2 EXCEPT !.id = id]
  <2>1. r = [r3 EXCEPT !.frames = fs2]
    BY <1>6, Zenon DEF AsUpvalue, UpvalueFrames
  <2>2. Unbound = Result("error", 0, z, 0, frames, globals)
    BY DEF Unbound, Result
  <2> HIDE DEF c, fs2, ix, id, kind, z
  <2>3. r1 = Result(kind, 0, z, 0, frames, globals)
    BY <2>2 DEF Result
  <2> HIDE DEF r1
  <2>4. r2 = Result(kind, ix, z, 0, frames, globals)
    BY <2>3 DEF Result
  <2> HIDE DEF r2
  <2>5. r3 = Result(kind, ix, z, id, frames, globals)
    BY <2>4 DEF Result
  <2> HIDE DEF r3
  <2>6. r = Result(kind, ix, z, id, fs2, globals)
    BY <2>1, <2>5 DEF Result
  <2>7. /\ r.kind = kind /\ r.id = id /\ r.globals = globals /\ r.frames = fs2 /\ r.idx = ix
    BY <2>6, ResultFields
  <2> QED BY <2>7 DEF ix, id, kind
<1>9. DOMAIN frames = 1..Depth
  BY <1>1 DEF Depth
<1>10. \A f \in (o + 1)..Depth : Len(c[f].uv) \in Nat /\ Len(c[f].uv) <= MaxUpvals /\ c[f].uv \in Seq(UpvalRec)
  <2>1. \A f \in (o + 1)..Depth : Len(c[f].uv) \in Nat /\ c[f].uv \in Seq(UpvalRec)
    BY <1>5 DEF ChainLink
  <2>2. \A f \in (o + 1)..Depth : ~(Len(c[f].uv) > MaxUpvals)
    BY <1>4, <1>6
  <2>3. MaxUpvals \in Nat
    BY ScopesAssumption
  <2> HIDE DEF c
  <2> QED BY <2>1, <2>2, <2>3
<1>11. d.slot \in Nat
  <2>1. GoodDecls(frames[o], n) /\ frames[o] \in FrameRec
    BY <1>1, <1>2 DEF GoodFrame
  <2>2. d.slot \in 0..(frames[o].next - 1)
    BY <2>1 DEF GoodDecls, Decls
  <2> QED BY <2>2
<1> HIDE DEF c
<1> DEFINE A(f) == [frames[f] EXCEPT !.captured = @ \cup {d.slot}]
           B(f) == [frames[f] EXCEPT !.upvals = c[f].uv]
<1>12. \A f \in 1..Depth : fs2[f] = IF f = o THEN A(f) ELSE IF f > o THEN B(f) ELSE frames[f]
  BY <1>9 DEF UpvalueFrames, c
<1>13. DOMAIN fs2 = 1..Depth
  BY <1>9 DEF UpvalueFrames
<1> HIDE DEF fs2
<1>14. /\ A(o) \in FrameRec /\ SameScope(frames[o], A(o)) /\ A(o).upvals = frames[o].upvals
       /\ A(o).captured = frames[o].captured \cup {d.slot}
  <2> DEFINE f == frames[o]
             cs == f.captured \cup {d.slot}
             g == [f EXCEPT !.captured = cs]
  <2>1. f \in FrameRec /\ A(o) = g
    BY <1>1, <1>2
  <2>2. cs \in SUBSET Nat
    BY <2>1, <1>11, FrameFields
  <2> HIDE DEF f, cs
  <2>3. g = FrameOf(f.decls, f.next, f.upvals, cs, f.vararg, f.owners)
    BY <2>1, FrameChanged
  <2> HIDE DEF g
  <2>4. g.decls = f.decls /\ g.next = f.next /\ g.owners = f.owners /\ g.vararg = f.vararg /\ g.upvals = f.upvals /\ g.captured = cs
    BY <2>3 DEF FrameOf
  <2>5. g \in FrameRec
    BY <2>1, <2>2, <2>3, FrameFields DEF FrameRec, FrameOf
  <2> HIDE DEF A
  <2> QED BY <2>1, <2>4, <2>5 DEF SameScope, f, cs
<1>15. ASSUME NEW f \in (o + 1)..Depth
       PROVE  /\ B(f) \in FrameRec /\ SameScope(frames[f], B(f)) /\ B(f).upvals = c[f].uv
              /\ B(f).captured = frames[f].captured
  <2> DEFINE e == frames[f]
             uv == c[f].uv
             g == [e EXCEPT !.upvals = uv]
  <2>1. e \in FrameRec /\ B(f) = g /\ uv \in Seq(UpvalRec)
    BY <1>1, <1>2, <1>10
  <2> HIDE DEF e, uv
  <2>3. g = FrameOf(e.decls, e.next, uv, e.captured, e.vararg, e.owners)
    BY <2>1, FrameChanged
  <2> HIDE DEF g
  <2>4. g.decls = e.decls /\ g.next = e.next /\ g.owners = e.owners /\ g.vararg = e.vararg /\ g.upvals = uv /\ g.captured = e.captured
    BY <2>3 DEF FrameOf
  <2>5. g \in FrameRec
    BY <2>1, <2>3, FrameFields DEF FrameRec, FrameOf
  <2> HIDE DEF B
  <2> QED BY <2>1, <2>4, <2>5 DEF SameScope, e, uv
<1> HIDE DEF A, B
<1>16. /\ fs2[o] = A(o) /\ (\A f \in (o + 1)..Depth : fs2[f] = B(f))
       /\ \A f \in 1..o : f # o => fs2[f] = frames[f]
  <2>1. \A f \in (o + 1)..Depth : f \in 1..Depth /\ f # o /\ f > o
    BY <1>1, <1>2
  <2>2. \A f \in 1..o : f # o => f \in 1..Depth /\ ~(f > o)
    BY <1>1, <1>2
  <2> QED BY <1>2, <1>12, <2>1, <2>2
<1>17. \A f \in 1..Depth : fs2[f] \in FrameRec /\ SameScope(frames[f], fs2[f])
  <2> SUFFICES ASSUME NEW f \in 1..Depth PROVE fs2[f] \in FrameRec /\ SameScope(frames[f], fs2[f])
    OBVIOUS
  <2>1. CASE f = o
    BY <2>1, <1>14, <1>16
  <2>2. CASE f \in 1..o /\ f # o
    BY <2>2, <1>1, <1>16 DEF SameScope
  <2>3. CASE f \in (o + 1)..Depth
    BY <2>3, <1>15, <1>16
  <2> QED BY <1>2, <2>1, <2>2, <2>3
<1>18. fs2 \in Seq(FrameRec) /\ Len(fs2) = Depth
  <2>1. fs2 = [f \in 1..Depth |-> fs2[f]]
    BY <1>13 DEF fs2, UpvalueFrames
  <2>2. fs2 \in [1..Depth -> FrameRec]
    BY <2>1, <1>17
  <2> QED BY <2>2, <1>1, SeqDef
<1>19. /\ \A f \in 1..o : fs2[f].upvals = frames[f].upvals
       /\ \A f \in 1..Depth : f # o => fs2[f].captured = frames[f].captured
       /\ fs2[o].captured = frames[o].captured \cup {d.slot}
       /\ \A f \in (o + 1)..Depth : fs2[f].upvals = c[f].uv
  BY <1>2, <1>14, <1>15, <1>16
<1>20. NamesGood(fs2, fns, n, rch \cup {d.id}, asg)
  <2>1. Caught(fs2, c, o, d)
    BY <1>5, <1>10, <1>17, <1>18, <1>19 DEF Caught
  <2> HIDE DEF fs2
  <2> QED BY <2>1, UpvalueMade
<1>21. r.idx \in 1..Len(fs2[Depth].upvals) /\ fs2[Depth].upvals[r.idx].id = d.id
  <2>1. ChainLink(c, o, d, Depth) /\ fs2[Depth].upvals = c[Depth].uv
    BY <1>2, <1>5, <1>19
  <2> QED BY <2>1, <1>7 DEF ChainLink
<1> QED BY <1>7, <1>17, <1>18, <1>20, <1>21 DEF ByUpvalue

-----------------------------------------------------------------------------
(* An upvalue followed down from frame f to frame lo, as a recursion.       *)
OriginStep(at, fs, f, ix, g) ==
  IF g = f THEN ix
  ELSE IF at[g + 1] = 0 \/ fs[g + 1].upvals[at[g + 1]].src = "local" THEN 0
  ELSE fs[g + 1].upvals[at[g + 1]].idx
Followed(at, fs, f, ix, lo) == at = [g \in lo..f |-> OriginStep(at, fs, f, ix, g)]

LEMMA FollowedExists ==
  ASSUME NEW fs, NEW f \in Nat, NEW ix, NEW m \in Nat, m < f
  PROVE  \E at : Followed(at, fs, f, ix, f - m)
<1> DEFINE T == {j \in Nat : j < f /\ ~ \E at : Followed(at, fs, f, ix, f - j)}
<1> SUFFICES ASSUME T # {} PROVE FALSE
  OBVIOUS
<1>0. T \subseteq Nat
  OBVIOUS
<1>1. PICK j \in T : \A i \in T : j <= i
  <2> HIDE DEF T
  <2> QED BY <1>0, LeastNat
<1>2. j # 0
  <2> SUFFICES ASSUME j = 0 PROVE FALSE
    OBVIOUS
  <2> DEFINE z == [g \in f..f |-> ix]
  <2>1. \A g \in f..f : OriginStep(z, fs, f, ix, g) = ix
    BY DEF OriginStep
  <2>2. z = [g \in f..f |-> OriginStep(z, fs, f, ix, g)]
    BY <2>1
  <2>3. f - j = f
    OBVIOUS
  <2> QED BY <2>2, <2>3, <1>1 DEF Followed
<1>3. j - 1 \in Nat /\ j - 1 < f /\ j - 1 \notin T /\ f - (j - 1) = (f - j) + 1
  BY <1>1, <1>2
<1> DEFINE lo == f - j
<1>4. PICK c : Followed(c, fs, f, ix, lo + 1)
  BY <1>3
<1>5. lo \in Nat /\ lo < f
  BY <1>1, <1>2
<1> HIDE DEF lo
<1> DEFINE h == [g \in lo..f |-> IF g = lo THEN OriginStep(c, fs, f, ix, lo) ELSE c[g]]
<1>6. ASSUME NEW g \in lo..f
      PROVE  h[g] = OriginStep(h, fs, f, ix, g)
  <2>1. g # f => h[g + 1] = c[g + 1]
    <3>1. g # f => g + 1 \in lo..f /\ g + 1 # lo
      BY <1>5
    <3> QED BY <3>1
  <2>2. OriginStep(h, fs, f, ix, g) = OriginStep(c, fs, f, ix, g)
    <3> HIDE DEF h
    <3>1. CASE g = f
      BY <3>1 DEF OriginStep
    <3>2. CASE g # f
      BY <2>1, <3>2, Zenon DEF OriginStep
    <3> QED BY <3>1, <3>2
  <2>3. CASE g = lo
    BY <2>2, <2>3
  <2>4. CASE g # lo
    <3>1. g \in (lo + 1)..f
      BY <2>4, <1>5
    <3>2. c[g] = OriginStep(c, fs, f, ix, g)
      BY <3>1, <1>4, Zenon DEF Followed
    <3> QED BY <2>2, <2>4, <3>2
  <2> QED BY <2>3, <2>4
<1>7. h = [g \in lo..f |-> h[g]]
  BY Zenon
<1>8. Followed(h, fs, f, ix, lo)
  <2> HIDE DEF h
  <2>1. [g \in lo..f |-> h[g]] = [g \in lo..f |-> OriginStep(h, fs, f, ix, g)]
    BY <1>6
  <2> QED BY <1>7, <2>1, Zenon DEF Followed
<1> QED BY <1>1, <1>8 DEF lo

(* It ends at a declaration with the identity it is for. *)
LeadsHome(fs, f, ix, o) ==
  /\ o.frame \in 1..(f - 1) /\ o.frame \in 1..Len(fs) /\ o.slot \in Nat
  /\ \E k \in 1..Len(fs[o.frame].decls) :
       fs[o.frame].decls[k].slot = o.slot /\ fs[o.frame].decls[k].id = fs[f].upvals[ix].id

LEMMA OriginFacts ==
  ASSUME NEW fs, NEW fns, NEW n, NEW rch, NEW asg, NamesGood(fs, fns, n, rch, asg),
         NEW f \in 1..Len(fs), NEW ix \in 1..Len(fs[f].upvals), NEW o, o = Origin(fs, f, ix)
  PROVE  LeadsHome(fs, f, ix, o)
<1>1. /\ fs \in Seq(FrameRec) /\ Len(fs) \in Nat /\ n \in Nat
      /\ (\A l \in 1..Len(fs) : fs[l] \in FrameRec /\ GoodFrame(fs[l], n)) /\ Linked(fs)
  BY NamesParts
<1>2. f \in Nat /\ f >= 1 /\ \A g \in 1..f : g \in 1..Len(fs)
  BY <1>1
<1> DEFINE at == CHOOSE at : Followed(at, fs, f, ix, 1)
           first == CHOOSE g \in 2..f : at[g] # 0 /\ fs[g].upvals[at[g]].src = "local"
           id == fs[f].upvals[ix].id
<1>3. Followed(at, fs, f, ix, 1)
  <2>1. f - (f - 1) = 1 /\ f - 1 \in Nat /\ f - 1 < f
    BY <1>2
  <2> DEFINE m == f - 1
  <2> HIDE DEF m
  <2>2. \E a : Followed(a, fs, f, ix, f - m)
    BY <2>1, <1>2, FollowedExists DEF m
  <2>3. \E a : Followed(a, fs, f, ix, 1)
    BY <2>1, <2>2 DEF m
  <2> QED BY <2>3, Zenon
<1>4. o = [frame |-> first - 1, slot |-> fs[first].upvals[at[first]].idx]
  BY Zenon DEF Origin, Followed, OriginStep
<1> HIDE DEF at
<1>5. \A g \in 1..f : at[g] = OriginStep(at, fs, f, ix, g)
  BY <1>3, Zenon DEF Followed
<1> DEFINE Good(g) == at[g] = 0 \/ (at[g] \in 1..Len(fs[g].upvals) /\ fs[g].upvals[at[g]].id = id)
<1>6. \A g \in 1..f : Good(g)
  <2> DEFINE T == {m \in Nat : m < f /\ ~Good(f - m)}
  <2>1. T = {}
    <3> SUFFICES ASSUME T # {} PROVE FALSE
      OBVIOUS
    <3>1. PICK j \in T : \A i \in T : j <= i
      <4>1. T \subseteq Nat
        OBVIOUS
      <4> HIDE DEF T
      <4> QED BY <4>1, LeastNat
    <3>2. j \in Nat /\ j < f /\ ~Good(f - j)
      BY <3>1
    <3> DEFINE g == f - j
    <3>3. j # 0
      <4>1. at[f] = ix
        BY <1>2, <1>5 DEF OriginStep
      <4>2. Good(f)
        BY <4>1
      <4>3. f - 0 = f
        BY <1>2
      <4> QED BY <3>2, <4>2, <4>3
    <3>4. j - 1 \in Nat /\ j - 1 < f /\ ~(j <= j - 1) /\ f - (j - 1) = g + 1
      BY <3>2, <3>3, <1>2
    <3>5. j - 1 \notin T
      BY <3>1, <3>4
    <3>6. Good(g + 1)
      BY <3>4, <3>5
    <3>7. g \in 1..f /\ g # f /\ g + 1 \in 1..f /\ g + 1 \in 1..Len(fs) /\ (g + 1) - 1 = g
      BY <3>2, <3>3, <1>1, <1>2
    <3>8. ~Good(g)
      BY <3>2
    <3> HIDE DEF g, T
    <3>9. at[g] = OriginStep(at, fs, f, ix, g)
      BY <3>7, <1>5
    <3>10. CASE at[g + 1] = 0 \/ fs[g + 1].upvals[at[g + 1]].src = "local"
      <4>1. at[g] = 0
        BY <3>7, <3>9, <3>10 DEF OriginStep
      <4> QED BY <4>1, <3>8
    <3>11. CASE ~(at[g + 1] = 0 \/ fs[g + 1].upvals[at[g + 1]].src = "local")
      <4> DEFINE u == fs[g + 1].upvals[at[g + 1]]
      <4>1. at[g] = u.idx
        BY <3>7, <3>9, <3>11 DEF OriginStep
      <4>2. at[g + 1] \in 1..Len(fs[g + 1].upvals) /\ u.id = id
        BY <3>6, <3>11
      <4>3. u \in UpvalRec
        BY <4>2, <3>7, <1>1, FrameFields
      <4>4. u.src = "upval"
        BY <4>3, <3>11 DEF UpvalRec
      <4>5. Link(fs, g + 1, u)
        BY <4>2, <3>7, <1>1 DEF Linked
      <4> HIDE DEF u
      <4>6. u.idx \in 1..Len(fs[g].upvals) /\ fs[g].upvals[u.idx].id = u.id
        BY <4>4, <4>5, <3>7 DEF Link
      <4> QED BY <4>1, <4>2, <4>6, <3>8
    <3> QED BY <3>10, <3>11
  <2> SUFFICES ASSUME NEW g \in 1..f PROVE Good(g)
    OBVIOUS
  <2>2. f - g \in Nat /\ f - g < f /\ f - (f - g) = g
    BY <1>2
  <2>3. f - g \notin T
    BY <2>1
  <2> HIDE DEF Good
  <2> QED BY <2>2, <2>3
<1>7. \E g \in 2..f : at[g] # 0 /\ fs[g].upvals[at[g]].src = "local"
  <2> DEFINE G == {g \in Nat : g \in 1..f /\ at[g] # 0}
  <2>1. f \in G
    <3>1. at[f] = ix
      BY <1>2, <1>5 DEF OriginStep
    <3> QED BY <3>1, <1>1, <1>2
  <2>2. PICK g \in G : \A h \in G : g <= h
    <3>1. G \subseteq Nat
      OBVIOUS
    <3> HIDE DEF G
    <3> QED BY <2>1, <3>1, LeastNat
  <2>3. g \in 1..f /\ g \in 1..Len(fs) /\ at[g] # 0 /\ Good(g)
    BY <2>2, <1>2, <1>6
  <2> DEFINE u == fs[g].upvals[at[g]]
  <2>4. Link(fs, g, u) /\ u \in UpvalRec
    <3>1. at[g] \in 1..Len(fs[g].upvals)
      BY <2>3
    <3> QED BY <3>1, <2>3, <1>1, FrameFields DEF Linked
  <2>5. g > 1 /\ g \in 2..f
    BY <2>3, <2>4 DEF Link
  <2>6. u.src = "local"
    <3> SUFFICES ASSUME u.src # "local" PROVE FALSE
      OBVIOUS
    <3>1. u.src = "upval"
      BY <2>4 DEF UpvalRec
    <3>2. g - 1 \in 1..f /\ g - 1 # f /\ (g - 1) + 1 = g /\ g - 1 \in Nat /\ ~(g <= g - 1)
      BY <2>3, <2>5, <1>2
    <3>3. at[g - 1] = u.idx
      BY <3>1, <3>2, <2>3, <1>5 DEF OriginStep
    <3>4. u.idx \in 1..Len(fs[g - 1].upvals)
      BY <3>1, <2>4 DEF Link
    <3>5. at[g - 1] # 0
      BY <3>3, <3>4
    <3>6. g - 1 \in G
      BY <3>2, <3>5
    <3> QED BY <3>2, <3>6, <2>2
  <2> QED BY <2>3, <2>5, <2>6
<1>8. first \in 2..f /\ at[first] # 0 /\ fs[first].upvals[at[first]].src = "local"
  BY <1>7, Zenon
<1> HIDE DEF first
<1> DEFINE u == fs[first].upvals[at[first]]
<1>9. first \in 1..f /\ first \in 1..Len(fs) /\ first - 1 \in 1..(f - 1) /\ first - 1 \in 1..Len(fs)
  BY <1>1, <1>2, <1>8
<1>10. at[first] \in 1..Len(fs[first].upvals) /\ u.id = id
  BY <1>6, <1>8, <1>9
<1>11. Link(fs, first, u) /\ u.src = "local" /\ u.idx \in Nat
  BY <1>1, <1>8, <1>9, <1>10, FrameFields DEF Linked
<1> HIDE DEF u, id
<1>12. o.frame = first - 1 /\ o.slot = u.idx
  BY <1>4 DEF u
<1>13. \E k \in 1..Len(fs[first - 1].decls) :
         fs[first - 1].decls[k].slot = u.idx /\ fs[first - 1].decls[k].id = u.id
  BY <1>11 DEF Link
<1> QED BY <1>9, <1>10, <1>11, <1>12, <1>13 DEF LeadsHome, id

-----------------------------------------------------------------------------
(* The attribute that a slot is found to have is that of its variable.      *)
NoConst(fs, id) ==
  \A f \in 1..Len(fs) : \A i \in 1..Len(fs[f].decls) :
    fs[f].decls[i].attrib = "const" => fs[f].decls[i].id # id

LEMMA NotConst ==
  ASSUME NEW fns, NEW n, NEW rch, NEW asg, NamesGood(frames, fns, n, rch, asg),
         NEW f \in 1..Depth, NEW k \in 1..Len(Decls(f)), NEW slot \in Nat, Decls(f)[k].slot = slot,
         AttribBySlot(f, slot) # "const"
  PROVE  NoConst(frames, Decls(f)[k].id)
<1>1. /\ frames \in Seq(FrameRec) /\ Depth \in Nat /\ n \in Nat
      /\ (\A l \in 1..Depth : frames[l] \in FrameRec /\ GoodFrame(frames[l], n)) /\ Apart(frames, fns)
  BY NamesParts DEF Depth
<1> DEFINE S == {i \in DOMAIN Decls(f) : Decls(f)[i].slot = slot}
<1>2. Decls(f) \in Seq(DeclRec) /\ DOMAIN Decls(f) = 1..Len(Decls(f)) /\ Len(Decls(f)) \in Nat
  BY <1>1, FrameFields DEF Decls
<1>3. k \in S /\ S \subseteq 1..Len(Decls(f)) /\ \A i \in S : i = k
  <2>1. \A i \in 1..Len(Decls(f)) : Decls(f)[i].slot = slot => i = k
    BY <1>1, SlotOnce DEF Decls
  <2> QED BY <1>2, <2>1
<1>4. AttribBySlot(f, slot) = Decls(f)[Greatest(S)].attrib
  BY <1>3 DEF AttribBySlot
<1>5. Greatest(S) = k
  <2> HIDE DEF S
  <2>1. Greatest(S) \in S
    BY <1>2, <1>3, GreatestFacts
  <2> QED BY <1>3, <2>1
<1> SUFFICES ASSUME NEW g \in 1..Depth, NEW i \in 1..Len(frames[g].decls),
                    frames[g].decls[i].attrib = "const", frames[g].decls[i].id = Decls(f)[k].id
             PROVE  FALSE
  BY DEF NoConst, Depth
<1>6. Has(frames[g], Decls(f)[k].id) /\ Has(frames[f], Decls(f)[k].id) /\ Decls(f)[k].id \in Nat
  BY <1>1, FrameFields DEF Has, Decls
<1>7. g = f
  BY <1>1, <1>6 DEF Apart, Depth
<1>8. i = k
  BY <1>1, <1>7, SlotOnce DEF Decls
<1> QED BY <1>4, <1>5, <1>7, <1>8 DEF Decls

ReachedBy(r) == IF r.kind = "upval" THEN reached \cup {r.id} ELSE reached

(* Resolving a name keeps what is known of names; if what it finds may be   *)
(* assigned to, it is no <const>.                                           *)
LEMMA Resolved ==
  ASSUME NamesInv, NEW name, NEW r, r = ResolveName(name), r.kind # "error"
  PROVE  /\ NamesGood(r.frames, funcs, nextId, ReachedBy(r), assigned)
         /\ FewGlobals(r.globals)
         /\ Len(r.frames) = Depth /\ \A f \in 1..Depth : SameScope(frames[f], r.frames[f])
         /\ r.id \in Nat /\ (r.id = 0 \/ r.id \in 2..(nextId - 1))
         /\ Assignable(r) /\ r.id # 0 => NoConst(frames, r.id)
<1>1. NamesGood(frames, funcs, nextId, reached, assigned) /\ FewGlobals(globals)
  BY DEF NamesInv
<1>2. /\ frames \in Seq(FrameRec) /\ Depth \in Nat /\ Depth >= 1 /\ nextId \in Nat
      /\ (\A l \in 1..Depth : frames[l] \in FrameRec /\ GoodFrame(frames[l], nextId))
  BY <1>1, NamesParts DEF Depth
<1> DEFINE o == OwnerFrame(name)
           k == Search(o, name)
           d == Declaration(name)
<1>3. ASSUME NEW ro, r = AsGlobal(name, ro)
      PROVE  /\ NamesGood(r.frames, funcs, nextId, ReachedBy(r), assigned)
             /\ FewGlobals(r.globals)
             /\ Len(r.frames) = Depth /\ \A f \in 1..Depth : SameScope(frames[f], r.frames[f])
             /\ r.id = 0
  <2>1. /\ r.frames = frames /\ r.id = 0 /\ r.kind \in {"builtin", "global", "error"}
        /\ FewGlobals(r.globals)
    BY <1>1, <1>3, GlobalResolved
  <2>2. r.kind # "upval"
    BY <2>1
  <2> QED BY <1>1, <2>1, <2>2 DEF ReachedBy, SameScope, Depth
<1>4. CASE NotDeclared(name)
  <2>1. r = Unbound
    BY <1>4 DEF ResolveName
  <2> QED BY <2>1 DEF Unbound
<1>5. CASE ~NotDeclared(name) /\ o = 0
  <2>1. r = AsGlobal(name, FreeIsReadOnly(name))
    BY <1>5 DEF ResolveName
  <2> DEFINE ro == FreeIsReadOnly(name)
  <2> HIDE DEF ro
  <2>2. r = AsGlobal(name, ro)
    BY <2>1 DEF ro
  <2> QED BY <2>2, <1>3
<1>6. CASE ~NotDeclared(name) /\ o # 0 /\ d.kind = "global"
  <2> DEFINE ro == d.attrib = "const"
  <2>1. r = AsGlobal(name, ro)
    BY <1>6 DEF ResolveName
  <2> HIDE DEF ro
  <2> QED BY <2>1, <1>3
<1>7. ASSUME o # 0
      PROVE  o \in 1..Depth /\ k \in 1..Len(Decls(o)) /\ d = Decls(o)[k] /\ d.kind \in {"local", "global"}
  <2>1. o \in 1..Depth /\ k # 0
    BY <1>2, <1>7, OwnerFacts
  <2>2. d = Decls(o)[k]
    BY DEF Declaration
  <2> HIDE DEF o, d
  <2>3. k \in 1..Len(Decls(o)) /\ Decls(o)[k].kind \in {"local", "global"}
    BY <1>2, <2>1, SearchFacts
  <2> QED BY <2>1, <2>2, <2>3
<1>8. ASSUME o # 0, d.kind = "local"
      PROVE  d.slot \in Nat /\ d.id \in 2..(nextId - 1)
  <2>1. GoodDecls(frames[o], nextId) /\ frames[o] \in FrameRec
    BY <1>2, <1>7, <1>8 DEF GoodFrame
  <2> HIDE DEF o, d, k
  <2>2. d.id \in 2..(nextId - 1) /\ d.slot \in 0..(frames[o].next - 1)
    BY <2>1, <1>7, <1>8 DEF GoodDecls, Decls
  <2> QED BY <2>2
<1>9. CASE ~NotDeclared(name) /\ o = Depth /\ d.kind = "local"
  <2>0. o # 0
    BY <1>2, <1>9
  <2>1. r = [Unbound EXCEPT !.kind = "local", !.idx = d.slot, !.id = d.id]
    BY <1>2, <1>9 DEF ResolveName
  <2>2. r.kind = "local" /\ r.idx = d.slot /\ r.id = d.id /\ r.frames = frames /\ r.globals = globals
    <3> DEFINE kind == "local"
               ix == d.slot
               id == d.id
               z == Unbound.ro
               r1 == [Unbound EXCEPT !.kind = kind]
               r2 == [r1 EXCEPT !.idx = ix]
    <3>1. r = [r2 EXCEPT !.id = id]
      BY <2>1, Zenon
    <3>2. Unbound = Result("error", 0, z, 0, frames, globals)
      BY DEF Unbound, Result
    <3> HIDE DEF d, ix, id, kind, z
    <3>3. r1 = Result(kind, 0, z, 0, frames, globals)
      BY <3>2 DEF Result
    <3> HIDE DEF r1
    <3>4. r2 = Result(kind, ix, z, 0, frames, globals)
      BY <3>3 DEF Result
    <3> HIDE DEF r2
    <3>5. r = Result(kind, ix, z, id, frames, globals)
      BY <3>1, <3>4 DEF Result
    <3>6. r.kind = kind /\ r.id = id /\ r.globals = globals /\ r.frames = frames /\ r.idx = ix
      BY <3>5, ResultFields
    <3> QED BY <3>6 DEF kind, ix, id
  <2>3. ReachedBy(r) = reached
    BY <2>2 DEF ReachedBy
  <2>4. ASSUME Assignable(r) PROVE NoConst(frames, r.id)
    <3>1. AttribBySlot(Depth, r.idx) # "const"
      BY <2>2, <2>4 DEF Assignable
    <3> DEFINE slot == d.slot
    <3>2. slot \in Nat /\ AttribBySlot(o, slot) # "const" /\ Decls(o)[k].slot = slot
      BY <1>7, <1>8, <1>9, <2>0, <2>2, <3>1
    <3>3. o \in 1..Depth /\ k \in 1..Len(Decls(o)) /\ Decls(o)[k].id = r.id
      BY <1>7, <2>0, <2>2
    <3> HIDE DEF slot, o, k
    <3> QED BY <1>1, <3>2, <3>3, NotConst
  <2>5. r.id \in Nat /\ r.id \in 2..(nextId - 1)
    BY <1>8, <1>9, <2>0, <2>2
  <2> HIDE DEF o, d, k
  <2> QED BY <1>1, <2>2, <2>3, <2>4, <2>5 DEF SameScope, Depth
<1>10. CASE ~NotDeclared(name) /\ o # 0 /\ o # Depth /\ d.kind = "local"
  <2>1. r = AsUpvalue(o, d)
    BY <1>10 DEF ResolveName
  <2>2. o \in 1..(Depth - 1) /\ k \in 1..Len(Decls(o)) /\ d = Decls(o)[k]
    BY <1>2, <1>7, <1>10
  <2>3. d.kind = "local" /\ d.id \in 2..(nextId - 1) /\ d.id \in Nat
    BY <1>8, <1>10
  <2> HIDE DEF o, d, k
  <2>4. /\ r.kind = "upval" /\ r.id = d.id /\ r.globals = globals
        /\ NamesGood(r.frames, funcs, nextId, reached \cup {d.id}, assigned)
        /\ Len(r.frames) = Depth
        /\ \A f \in 1..Depth : SameScope(frames[f], r.frames[f])
        /\ r.idx \in 1..Len(r.frames[Depth].upvals) /\ r.frames[Depth].upvals[r.idx].id = d.id
    <3>1. NamesGood(frames, funcs, nextId, reached, assigned)
      BY <1>1
    <3>2. r.kind # "error"
      OBVIOUS
    <3>3. ByUpvalue(r, d, funcs, nextId, reached, assigned)
      BY ONLY <2>1, <2>2, <2>3, <3>1, <3>2, UpvalueResolved
    <3> QED BY <3>3 DEF ByUpvalue
  <2>5. ReachedBy(r) = reached \cup {d.id}
    BY <2>4 DEF ReachedBy
  <2>6. ASSUME Assignable(r) PROVE NoConst(frames, r.id)
    <3> DEFINE w == Origin(r.frames, Depth, r.idx)
               slot == w.slot
    <3>1. AttribBySlot(w.frame, slot) # "const"
      BY <2>4, <2>6 DEF Assignable, UpvalIsConst
    <3>2. Depth \in 1..Len(r.frames) /\ NamesGood(r.frames, funcs, nextId, reached \cup {d.id}, assigned)
      BY <2>4, <1>2
    <3>3. /\ w.frame \in 1..Len(r.frames) /\ w.slot \in Nat
          /\ \E q \in 1..Len(r.frames[w.frame].decls) :
               r.frames[w.frame].decls[q].slot = w.slot /\ r.frames[w.frame].decls[q].id = d.id
      <4> DEFINE fs == r.frames
                 rch == reached \cup {d.id}
                 ix == r.idx
      <4>1. NamesGood(fs, funcs, nextId, rch, assigned) /\ Depth \in 1..Len(fs) /\ ix \in 1..Len(fs[Depth].upvals)
            /\ w = Origin(fs, Depth, ix) /\ fs[Depth].upvals[ix].id = d.id
        BY <2>4, <3>2
      <4> HIDE DEF w, fs, rch, ix
      <4>2. LeadsHome(fs, Depth, ix, w)
        BY ONLY <4>1, OriginFacts
      <4> QED BY <4>1, <4>2 DEF LeadsHome, fs
    <3> HIDE DEF w
    <3>4. r.frames[w.frame].decls = Decls(w.frame) /\ w.frame \in 1..Depth
      BY <2>4, <3>3 DEF SameScope, Decls
    <3>5. PICK q \in 1..Len(Decls(w.frame)) : Decls(w.frame)[q].slot = slot /\ Decls(w.frame)[q].id = r.id
      BY <2>4, <3>3, <3>4
    <3>6. slot \in Nat
      BY <3>3
    <3> DEFINE g == w.frame
    <3> HIDE DEF slot, g
    <3>7. g \in 1..Depth /\ q \in 1..Len(Decls(g)) /\ Decls(g)[q].slot = slot /\ AttribBySlot(g, slot) # "const" /\ Decls(g)[q].id = r.id
      BY <3>1, <3>4, <3>5 DEF g
    <3> QED BY <1>1, <3>6, <3>7, NotConst
  <2>7. r.id \in Nat /\ r.id \in 2..(nextId - 1) /\ FewGlobals(r.globals)
    BY <1>1, <2>3, <2>4
  <2> QED BY <2>4, <2>5, <2>6, <2>7
<1>11. o = 0 \/ (o # 0 /\ (d.kind = "global" \/ d.kind = "local"))
  BY <1>7
<1> HIDE DEF o, d, k
<1> QED BY <1>2, <1>4, <1>5, <1>6, <1>9, <1>10, <1>11
-----------------------------------------------------------------------------
(* The declarations of a local statement, one after the other.              *)
ListStep(decl, f, nms, ats, n, k) ==
  IF k = 0 THEN f ELSE DeclareLocal(decl[k - 1], nms[k], ats[k], n + k - 1)
Listed(decl, f, nms, ats, n, m) == decl = [k \in 0..m |-> ListStep(decl, f, nms, ats, n, k)]

LEMMA ListedExists ==
  ASSUME NEW f, NEW nms, NEW ats, NEW n, NEW m \in Nat
  PROVE  \E decl : Listed(decl, f, nms, ats, n, m)
<1> DEFINE T == {j \in Nat : ~ \E decl : Listed(decl, f, nms, ats, n, j)}
<1> SUFFICES ASSUME T # {} PROVE FALSE
  OBVIOUS
<1>0. T \subseteq Nat
  OBVIOUS
<1>1. PICK j \in T : \A i \in T : j <= i
  <2> HIDE DEF T
  <2> QED BY <1>0, LeastNat
<1>2. j # 0
  <2> SUFFICES ASSUME j = 0 PROVE FALSE
    OBVIOUS
  <2> DEFINE z == [k \in 0..0 |-> f]
  <2>1. \A k \in 0..0 : ListStep(z, f, nms, ats, n, k) = f
    BY DEF ListStep
  <2>2. z = [k \in 0..0 |-> ListStep(z, f, nms, ats, n, k)]
    BY <2>1
  <2> QED BY <2>2, <1>1 DEF Listed
<1>3. j \in Nat /\ j - 1 \in Nat /\ ~(j <= j - 1)
  BY <1>1, <1>2
<1>4. PICK c : Listed(c, f, nms, ats, n, j - 1)
  <2>1. j - 1 \notin T
    BY <1>1, <1>3
  <2> QED BY <2>1, <1>3
<1> DEFINE h == [k \in 0..j |-> IF k = j THEN ListStep(c, f, nms, ats, n, j) ELSE c[k]]
<1>5. ASSUME NEW k \in 0..j
      PROVE  h[k] = ListStep(h, f, nms, ats, n, k)
  <2>1. k # 0 => h[k - 1] = c[k - 1]
    <3>1. k # 0 => k - 1 \in 0..j /\ k - 1 # j
      BY <1>3
    <3> QED BY <3>1
  <2>2. ListStep(h, f, nms, ats, n, k) = ListStep(c, f, nms, ats, n, k)
    <3> HIDE DEF h
    <3>1. CASE k = 0
      BY <3>1 DEF ListStep
    <3>2. CASE k # 0
      BY <2>1, <3>2, Zenon DEF ListStep
    <3> QED BY <3>1, <3>2
  <2>3. CASE k = j
    BY <2>2, <2>3
  <2>4. CASE k # j
    <3>1. k \in 0..(j - 1)
      BY <2>4, <1>3
    <3>2. c[k] = ListStep(c, f, nms, ats, n, k)
      BY <3>1, <1>4, Zenon DEF Listed
    <3> QED BY <2>2, <2>4, <3>2
  <2> QED BY <2>3, <2>4
<1>6. h = [k \in 0..j |-> h[k]]
  BY Zenon
<1>7. Listed(h, f, nms, ats, n, j)
  <2> HIDE DEF h
  <2>1. [k \in 0..j |-> h[k]] = [k \in 0..j |-> ListStep(h, f, nms, ats, n, k)]
    BY <1>5
  <2> QED BY <1>6, <2>1, Zenon DEF Listed
<1> QED BY <1>1, <1>7

(* A frame with a list of declarations more. *)
Longer(f, g, n, m) == /\ GoodFrame(g, n + m) /\ Extends(f, g, n) /\ Len(g.decls) = Len(f.decls) + m

LEMMA ListDeclared ==
  ASSUME NEW n \in Nat, n >= 2, NEW f, GoodFrame(f, n), NEW nms \in Seq(Names), NEW ats \in Seq(Attribs),
         Len(nms) = Len(ats), Len(f.decls) + Len(nms) <= MaxLocals,
         NEW decl, Listed(decl, f, nms, ats, n, Len(nms))
  PROVE  Longer(f, decl[Len(nms)], n, Len(nms))
<1> DEFINE L == Len(nms)
           T == {m \in Nat : m <= L /\ ~Longer(f, decl[m], n, m)}
<1>1. L \in Nat /\ f \in FrameRec /\ Len(f.decls) \in Nat /\ MaxLocals \in Nat
  BY ScopesAssumption, FrameFields DEF GoodFrame
<1>2. \A m \in 0..L : decl[m] = ListStep(decl, f, nms, ats, n, m)
  BY Zenon DEF Listed
<1> SUFFICES ASSUME T # {} PROVE FALSE
  BY <1>1
<1>3. PICK m \in T : \A i \in T : m <= i
  <2>1. T \subseteq Nat
    OBVIOUS
  <2> HIDE DEF T
  <2> QED BY <2>1, LeastNat
<1>4. m \in Nat /\ m \in 0..L /\ ~Longer(f, decl[m], n, m)
  BY <1>1, <1>3
<1>5. m # 0
  <2> SUFFICES ASSUME m = 0 PROVE FALSE
    OBVIOUS
  <2>1. decl[0] = f /\ n + 0 = n /\ Len(f.decls) + 0 = Len(f.decls)
    BY <1>1, <1>2 DEF ListStep
  <2>2. Extends(f, f, n)
    BY <1>1 DEF Extends
  <2> QED BY <1>4, <2>1, <2>2 DEF Longer
<1> DEFINE p == m - 1
           f1 == decl[p]
           k == n + p
           g == DeclareLocal(f1, nms[m], ats[m], k)
<1>6. p \in Nat /\ p \in 0..L /\ ~(m <= p) /\ p + 1 = m /\ k \in Nat /\ k >= 2 /\ n <= k /\ k + 1 = n + m /\ m \in 1..L
  BY <1>1, <1>4, <1>5
<1>7. Longer(f, f1, n, p)
  <2>1. p \notin T
    BY <1>3, <1>6
  <2> HIDE DEF f1
  <2> QED BY <2>1, <1>1, <1>6 DEF f1
<1>8. decl[m] = g
  <2>1. n + m - 1 = k
    BY <1>6
  <2>2. decl[m] = DeclareLocal(decl[m - 1], nms[m], ats[m], n + m - 1)
    BY <1>2, <1>4, <1>5 DEF ListStep
  <2> QED BY <2>1, <2>2
<1>9. nms[m] \in Names /\ ats[m] \in Attribs
  BY <1>6
<1> HIDE DEF p, f1, k, T, L
<1>10. GoodFrame(f1, k) /\ Extends(f, f1, n) /\ Len(f1.decls) = Len(f.decls) + p
  BY <1>7 DEF Longer, k
<1>11. f1 \in FrameRec
  BY <1>10 DEF GoodFrame
<1>12. OneMore(f1, g, k)
  BY <1>6, <1>9, <1>11, DeclaredIsOneMore
<1> HIDE DEF g
<1>13. Len(f1.decls) < MaxLocals
  <2>1. Len(f.decls) + L <= MaxLocals /\ p < L
    BY <1>1, <1>6 DEF L
  <2> QED BY <2>1, <1>1, <1>6, <1>10
<1>14. GoodFrame(g, k + 1) /\ Extends(f1, g, k) /\ Len(g.decls) = Len(f1.decls) + 1
  BY <1>1, <1>6, <1>10, <1>12, <1>13, OneMoreGood
<1>15. g \in FrameRec
  BY <1>14 DEF GoodFrame
<1>16. Extends(f, g, n)
  BY <1>1, <1>6, <1>10, <1>11, <1>14, <1>15, ExtendsMore
<1>17. Longer(f, g, n, m)
  <2>1. Len(g.decls) = Len(f.decls) + m
    <3>1. Len(g.decls) = (Len(f.decls) + p) + 1
      BY <1>10, <1>14
    <3>2. (Len(f.decls) + p) + 1 = Len(f.decls) + m
      BY <1>1, <1>4, <1>6
    <3> QED BY <3>1, <3>2
  <2> QED BY <1>6, <1>14, <1>16, <2>1 DEF Longer
<1> QED BY <1>4, <1>8, <1>17
-----------------------------------------------------------------------------
(* Views of the open blocks.                                                *)
LEMMA ViewFields ==
  ASSUME NEW vs \in Seq(ViewRec)
  PROVE  /\ Len(vs) \in Nat
         /\ \A i \in 1..Len(vs) :
              /\ vs[i] \in ViewRec /\ vs[i].bid \in Nat /\ vs[i].mark \in Nat /\ vs[i].low \in Nat
              /\ vs[i].top \in Nat /\ vs[i].lev \in Nat /\ vs[i].gotos \in Nat /\ vs[i].nact \in Nat
              /\ vs[i].fgotos \in Nat /\ vs[i].flabels \in Nat /\ vs[i].kind \in Kinds
<1>1. \A v \in ViewRec :
         /\ v.bid \in Nat /\ v.mark \in Nat /\ v.low \in Nat
         /\ v.top \in Nat /\ v.lev \in Nat /\ v.gotos \in Nat /\ v.nact \in Nat
         /\ v.fgotos \in Nat /\ v.flabels \in Nat /\ v.kind \in Kinds
  BY DEF ViewRec
<1> QED BY <1>1

(* What is known where blocks, labels and gotos are good. *)
LEMMA JumpsParts ==
  ASSUME NEW vs, NEW fs, NEW op, NEW ls, NEW gs, NEW b, NEW f, NEW n \in Nat, NEW sn,
         JumpsGood(vs, fs, op, ls, gs, b, f, n, sn)
  PROVE  /\ vs \in Seq(ViewRec) /\ op \in Seq(BlockRec) /\ Len(vs) = Len(op) /\ Len(op) \in Nat /\ Len(op) >= 1
         /\ b \in BlkRec /\ f \in FnRec /\ ls \in Seq(LabelRec) /\ gs \in Seq(GotoRec)
         /\ Len(ls) \in Nat /\ Len(gs) \in Nat
         /\ Shows(vs, op, b, f, Len(ls), Len(fs)) /\ Nested(vs, fs, n, Len(gs))
         /\ Pending(vs, fs, gs, n) /\ Noted(vs, ls, sn, n)
         /\ \A i \in 1..Len(vs) : vs[i].bid \in 0..n
<1>1. /\ Shows(vs, op, b, f, Len(ls), Len(fs)) /\ Nested(vs, fs, n, Len(gs))
      /\ Pending(vs, fs, gs, n) /\ Noted(vs, ls, sn, n)
  BY DEF JumpsGood
<1>2. /\ vs \in Seq(ViewRec) /\ op \in Seq(BlockRec) /\ Len(vs) = Len(op) /\ Len(op) \in Nat /\ Len(op) >= 1
      /\ b \in BlkRec /\ f \in FnRec
  BY <1>1 DEF Shows
<1>3. ls \in Seq(LabelRec) /\ gs \in Seq(GotoRec) /\ Len(ls) \in Nat /\ Len(gs) \in Nat
  BY <1>1 DEF Pending, Noted
<1>4. \A i \in 1..Len(vs) : vs[i].bid \in 0..n
  <2> SUFFICES ASSUME NEW i \in 1..Len(vs) PROVE vs[i].bid \in 0..n
    OBVIOUS
  <2>1. vs[i].bid <= n
    BY <1>1 DEF Nested, Bounded
  <2>2. vs[i].bid \in Nat
    BY <1>2, ViewFields
  <2> QED BY <2>1, <2>2
<1> QED BY <1>1, <1>2, <1>3, <1>4

(* Frames fs2 have the declarations of fs, and new ones on top. *)
Grown(fs, fs2, n) ==
  /\ Len(fs) \in Nat /\ Len(fs) >= 1 /\ Len(fs2) = Len(fs)
  /\ \A l \in 1..Len(fs) : Len(fs[l].decls) \in Nat /\ Len(fs2[l].decls) \in Nat
  /\ \A l \in 1..Len(fs) : Len(fs2[l].decls) >= Len(fs[l].decls)
  /\ \A l \in 1..Len(fs) : \A k \in 1..Len(fs[l].decls) : fs2[l].decls[k] = fs[l].decls[k]
  /\ \A l \in 1..Len(fs) : \A k \in (Len(fs[l].decls) + 1)..Len(fs2[l].decls) :
       fs2[l].decls[k].id \in Nat /\ fs2[l].decls[k].id >= n

(* The fields of a goto. *)
LEMMA GotoFields ==
  ASSUME NEW gs \in Seq(GotoRec)
  PROVE  /\ Len(gs) \in Nat
         /\ \A m \in 1..Len(gs) :
              /\ gs[m] \in GotoRec /\ gs[m].name \in LabelNames /\ gs[m].nact \in Nat
              /\ gs[m].resolved \in BOOLEAN /\ gs[m].path \in SUBSET Nat
              /\ gs[m].ids \in Seq(Nat) /\ Len(gs[m].ids) \in Nat
              /\ \A q \in 1..Len(gs[m].ids) : gs[m].ids[q] \in Nat
<1>1. \A g \in GotoRec :
         /\ g.name \in LabelNames /\ g.nact \in Nat
         /\ g.resolved \in BOOLEAN /\ g.path \in SUBSET Nat /\ g.ids \in Seq(Nat)
  BY DEF GotoRec
<1> QED BY <1>1

(* Agreement survives declarations that are newer than the goto. *)
LEMMA AgreesGrown ==
  ASSUME NEW fs, NEW fs2, NEW n \in Nat, Grown(fs, fs2, n), NEW l \in 1..Len(fs),
         NEW g \in GotoRec, \A q \in 1..Len(g.ids) : g.ids[q] < n, Agrees(g, fs[l].decls)
  PROVE  Agrees(g, fs2[l].decls)
<1> DEFINE ds == fs[l].decls
           es == fs2[l].decls
<1>1. /\ Len(ds) \in Nat /\ Len(es) \in Nat /\ Len(es) >= Len(ds)
      /\ \A k \in 1..Len(ds) : es[k] = ds[k]
      /\ \A k \in (Len(ds) + 1)..Len(es) : es[k].id \in Nat /\ es[k].id >= n
  BY DEF Grown
<1>2. g.nact \in Nat /\ Len(g.ids) \in Nat /\ \A q \in 1..Len(g.ids) : g.ids[q] \in Nat /\ g.ids[q] < n
  BY DEF GotoRec
<1>3. /\ g.nact <= Len(g.ids) /\ g.nact <= Len(ds)
      /\ \A k \in 1..g.nact : g.ids[k] = ds[k].id
      /\ \A k \in (g.nact + 1)..Len(ds) : \A q \in 1..Len(g.ids) : g.ids[q] < ds[k].id
  BY DEF Agrees
<1> HIDE DEF ds, es
<1>4. g.nact <= Len(es) /\ \A k \in 1..g.nact : g.ids[k] = es[k].id
  BY <1>1, <1>2, <1>3
<1>5. ASSUME NEW k \in (g.nact + 1)..Len(es), NEW q \in 1..Len(g.ids) PROVE g.ids[q] < es[k].id
  <2>1. CASE k <= Len(ds)
    <3>1. k \in (g.nact + 1)..Len(ds) /\ k \in 1..Len(ds)
      BY <2>1, <1>1, <1>2
    <3> QED BY <3>1, <1>1, <1>3
  <2>2. CASE k > Len(ds)
    <3>1. k \in (Len(ds) + 1)..Len(es)
      BY <2>2, <1>1, <1>2
    <3>2. es[k].id \in Nat /\ es[k].id >= n /\ g.ids[q] \in Nat /\ g.ids[q] < n
      BY <3>1, <1>1, <1>2
    <3> QED BY <3>2
  <2> QED BY <1>1, <1>2, <2>1, <2>2
<1> QED BY <1>3, <1>4, <1>5 DEF Agrees, es

(* Declarations and identities come: the blocks and gotos stay good. *)
LEMMA JKept ==
  ASSUME NEW vs, NEW fs, NEW op, NEW ls, NEW gs, NEW b, NEW f, NEW n \in Nat, NEW sn,
         JumpsGood(vs, fs, op, ls, gs, b, f, n, sn),
         NEW fs2, Grown(fs, fs2, n), NEW m \in Nat, n <= m
  PROVE  JumpsGood(vs, fs2, op, ls, gs, b, f, m, sn)
<1>1. /\ vs \in Seq(ViewRec) /\ Len(vs) = Len(op) /\ Len(op) \in Nat /\ Len(op) >= 1
      /\ ls \in Seq(LabelRec) /\ gs \in Seq(GotoRec)
      /\ Len(ls) \in Nat /\ Len(gs) \in Nat
      /\ Shows(vs, op, b, f, Len(ls), Len(fs)) /\ Nested(vs, fs, n, Len(gs))
      /\ Pending(vs, fs, gs, n) /\ Noted(vs, ls, sn, n)
      /\ \A i \in 1..Len(vs) : vs[i].bid \in 0..n
  BY JumpsParts
<1>2. /\ Len(fs) \in Nat /\ Len(fs) >= 1 /\ Len(fs2) = Len(fs)
      /\ \A l \in 1..Len(fs) : Len(fs[l].decls) \in Nat /\ Len(fs2[l].decls) \in Nat /\ Len(fs2[l].decls) >= Len(fs[l].decls)
  BY DEF Grown
<1>3. /\ \A i \in 1..Len(vs) :
              /\ vs[i].bid \in Nat /\ vs[i].mark \in Nat /\ vs[i].lev \in Nat /\ vs[i].nact \in Nat
      /\ \A i \in 1..Len(vs) : Bounded(vs[i], Len(fs), Len(fs[vs[i].lev].decls), n, Len(gs))
  BY <1>1, ViewFields DEF Nested
<1>4. \A i \in 1..Len(vs) : vs[i].lev \in 1..Len(fs)
  BY <1>3 DEF Bounded
<1>5. Shows(vs, op, b, f, Len(ls), Len(fs2))
  BY <1>1, <1>2
<1>6. Nested(vs, fs2, m, Len(gs))
  <2>1. ASSUME NEW i \in 1..Len(vs)
        PROVE  Bounded(vs[i], Len(fs2), Len(fs2[vs[i].lev].decls), m, Len(gs))
    <3> DEFINE nd == Len(fs[vs[i].lev].decls)
               nd2 == Len(fs2[vs[i].lev].decls)
    <3>1. nd \in Nat /\ nd2 \in Nat /\ nd <= nd2
      BY <1>2, <1>4
    <3>2. Bounded(vs[i], Len(fs), nd, n, Len(gs)) /\ vs[i].bid \in Nat /\ vs[i].mark \in Nat /\ vs[i].nact \in Nat
      BY <1>3
    <3> HIDE DEF nd, nd2
    <3>3. Bounded(vs[i], Len(fs2), nd2, m, Len(gs))
      BY <3>1, <3>2, <1>2 DEF Bounded
    <3> QED BY <3>3 DEF nd2
  <2> QED BY <2>1, <1>1 DEF Nested
<1>7. Pending(vs, fs2, gs, m)
  <2> SUFFICES ASSUME NEW j \in 1..Len(gs)
               PROVE  /\ gs[j].path \subseteq 0..m
                      /\ \A q \in 1..Len(gs[j].ids) : gs[j].ids[q] < m
                      /\ \A i \in 1..Len(vs) :
                           /\ vs[i].kind # "until" => (vs[i].bid \in gs[j].path <=> Within(vs, i, j))
                           /\ Within(vs, i, j) => Agrees(gs[j], fs2[vs[i].lev].decls)
    BY <1>1 DEF Pending
  <2>1. /\ gs[j].path \subseteq 0..n
        /\ \A q \in 1..Len(gs[j].ids) : gs[j].ids[q] < n
        /\ \A i \in 1..Len(vs) :
             /\ vs[i].kind # "until" => (vs[i].bid \in gs[j].path <=> Within(vs, i, j))
             /\ Within(vs, i, j) => Agrees(gs[j], fs[vs[i].lev].decls)
    BY <1>1 DEF Pending
  <2>2. gs[j] \in GotoRec /\ Len(gs[j].ids) \in Nat /\ \A q \in 1..Len(gs[j].ids) : gs[j].ids[q] \in Nat
    BY <1>1, GotoFields
  <2>3. ASSUME NEW i \in 1..Len(vs), Within(vs, i, j) PROVE Agrees(gs[j], fs2[vs[i].lev].decls)
    <3> DEFINE l == vs[i].lev
               g == gs[j]
    <3>1. l \in 1..Len(fs) /\ g \in GotoRec /\ Agrees(g, fs[l].decls) /\ \A q \in 1..Len(g.ids) : g.ids[q] < n
      BY <1>4, <2>1, <2>2, <2>3
    <3> HIDE DEF l, g
    <3>2. Agrees(g, fs2[l].decls)
      BY <3>1, AgreesGrown
    <3> QED BY <3>2 DEF l, g
  <2>4. gs[j].path \subseteq 0..m
    BY <2>1
  <2>5. \A q \in 1..Len(gs[j].ids) : gs[j].ids[q] < m
    BY <2>1, <2>2
  <2> QED BY <2>1, <2>3, <2>4, <2>5
<1>8. Noted(vs, ls, sn, m)
  <2>1. \A s \in sn : s[2] \in 0..n => s[2] \in 0..m
    OBVIOUS
  <2> QED BY <2>1, <1>1 DEF Noted
<1> QED BY <1>5, <1>6, <1>7, <1>8 DEF JumpsGood

(* The block on top, and what the others are to it. *)
TopView(vs, fs, op, ls, gs, b, f, L) ==
  /\ L \in Nat /\ L >= 1 /\ L \in 1..L /\ Len(op) = L
  /\ vs[L].kind = op[L].kind /\ vs[L].bid = op[L].bid /\ vs[L].mark = op[L].mark /\ vs[L].low = op[L].labels
  /\ vs[L].gotos = b.gotos /\ vs[L].nact = b.nact
  /\ vs[L].fgotos = f.gotos /\ vs[L].flabels = f.labels
  /\ vs[L].top = Len(ls) /\ vs[L].lev = Len(fs) /\ Len(fs) \in Nat /\ Len(fs) >= 1
  /\ \A i \in 1..L :
       /\ vs[i].lev \in 1..Len(fs) /\ vs[i].top <= Len(ls) /\ vs[i].gotos <= Len(gs)
       /\ vs[i].fgotos <= vs[i].gotos
       /\ vs[i].flabels <= vs[i].low /\ vs[i].low <= vs[i].top
       /\ vs[i].nact <= Len(fs[vs[i].lev].decls) /\ vs[i].mark <= Len(fs[vs[i].lev].decls)
       /\ vs[i].kind # "until" => vs[i].mark <= vs[i].nact
       /\ vs[i].lev = Len(fs) => vs[i].fgotos = f.gotos /\ vs[i].flabels = f.labels
       /\ vs[i].lev = Len(fs) /\ i # L => vs[i].kind # "until" /\ vs[i].nact <= vs[L].mark
       /\ vs[i].lev # Len(fs) => vs[i].gotos <= f.gotos /\ vs[i].lev < Len(fs) /\ i # L
       /\ i # L => Inside(vs[i], vs[L]) /\ vs[i].top <= vs[L].low

LEMMA TopFacts ==
  ASSUME NEW vs, NEW fs, NEW op, NEW ls, NEW gs, NEW b, NEW f, NEW n \in Nat, NEW sn,
         JumpsGood(vs, fs, op, ls, gs, b, f, n, sn)
  PROVE  TopView(vs, fs, op, ls, gs, b, f, Len(vs))
<1> DEFINE L == Len(vs)
<1>1. /\ vs \in Seq(ViewRec) /\ L = Len(op) /\ L \in Nat /\ L >= 1 /\ L = Len(vs)
      /\ b \in BlkRec /\ f \in FnRec /\ Len(ls) \in Nat /\ Len(gs) \in Nat
      /\ Shows(vs, op, b, f, Len(ls), Len(fs)) /\ Nested(vs, fs, n, Len(gs))
  BY JumpsParts
<1> HIDE DEF L
<1>2. /\ vs[L].kind = op[L].kind /\ vs[L].bid = op[L].bid /\ vs[L].mark = op[L].mark /\ vs[L].low = op[L].labels
      /\ Shown(vs[L], b, f, Len(ls)) /\ vs[L].lev = Len(fs)
  BY <1>1 DEF Shows
<1>3. /\ vs[L].gotos = b.gotos /\ vs[L].nact = b.nact
      /\ vs[L].fgotos = f.gotos /\ vs[L].flabels = f.labels /\ vs[L].top = Len(ls)
  BY <1>2 DEF Shown
<1>4. \A i \in 1..L :
         /\ vs[i].bid \in Nat /\ vs[i].mark \in Nat /\ vs[i].low \in Nat
         /\ vs[i].top \in Nat /\ vs[i].lev \in Nat /\ vs[i].gotos \in Nat /\ vs[i].nact \in Nat
         /\ vs[i].fgotos \in Nat /\ vs[i].flabels \in Nat
  BY <1>1, ViewFields
<1>5. L \in 1..L
  BY <1>1
<1>6. Len(fs) \in Nat /\ Len(fs) >= 1
  <2>1. Bounded(vs[L], Len(fs), Len(fs[vs[L].lev].decls), n, Len(gs))
    BY <1>1, <1>5 DEF Nested
  <2>2. vs[L].lev \in 1..Len(fs)
    BY <2>1 DEF Bounded
  <2> QED BY <2>2, <1>2, <1>4, <1>5
<1>7. ASSUME NEW i \in 1..L
      PROVE  /\ vs[i].lev \in 1..Len(fs) /\ vs[i].top <= Len(ls) /\ vs[i].gotos <= Len(gs)
             /\ vs[i].fgotos <= vs[i].gotos
             /\ vs[i].flabels <= vs[i].low /\ vs[i].low <= vs[i].top
             /\ vs[i].nact <= Len(fs[vs[i].lev].decls) /\ vs[i].mark <= Len(fs[vs[i].lev].decls)
             /\ vs[i].kind # "until" => vs[i].mark <= vs[i].nact
             /\ vs[i].lev = Len(fs) => vs[i].fgotos = f.gotos /\ vs[i].flabels = f.labels
             /\ vs[i].lev = Len(fs) /\ i # L => vs[i].kind # "until" /\ vs[i].nact <= vs[L].mark
             /\ vs[i].lev # Len(fs) => vs[i].gotos <= f.gotos /\ vs[i].lev < Len(fs) /\ i # L
             /\ i # L => Inside(vs[i], vs[L]) /\ vs[i].top <= vs[L].low
  <2>1. Bounded(vs[i], Len(fs), Len(fs[vs[i].lev].decls), n, Len(gs))
    BY <1>1 DEF Nested
  <2>2. /\ vs[i].lev \in 1..Len(fs) /\ vs[i].gotos <= Len(gs)
        /\ vs[i].fgotos <= vs[i].gotos
        /\ vs[i].flabels <= vs[i].low /\ vs[i].low <= vs[i].top
        /\ vs[i].nact <= Len(fs[vs[i].lev].decls) /\ vs[i].mark <= Len(fs[vs[i].lev].decls)
        /\ vs[i].kind # "until" => vs[i].mark <= vs[i].nact
    BY <2>1 DEF Bounded
  <2>3. CASE i = L
    BY <2>2, <2>3, <1>2, <1>3, <1>4, <1>5, <1>1
  <2>4. CASE i # L
    <3>1. i < L
      BY <2>4, <1>1
    <3>2. Inside(vs[i], vs[L])
      BY <3>1, <1>1, <1>5 DEF Nested
    <3>3. /\ vs[i].top <= vs[L].low /\ vs[i].lev <= vs[L].lev
          /\ vs[i].lev = vs[L].lev => vs[i].nact <= vs[L].mark /\ vs[i].fgotos = vs[L].fgotos /\ vs[i].flabels = vs[L].flabels
          /\ vs[i].lev < vs[L].lev => vs[i].gotos <= vs[L].fgotos
          /\ vs[i].kind = "until" => vs[i].lev < vs[L].lev
      BY <3>2 DEF Inside
    <3>4. vs[L].low <= vs[L].top
      <4>1. Bounded(vs[L], Len(fs), Len(fs[vs[L].lev].decls), n, Len(gs))
        BY <1>1, <1>5 DEF Nested
      <4> QED BY <4>1 DEF Bounded
    <3>5. vs[i].top <= Len(ls)
      <4>1. vs[i].top \in Nat /\ vs[L].low \in Nat /\ vs[L].top \in Nat /\ vs[L].top = Len(ls)
        BY <1>3, <1>4, <1>5
      <4>2. vs[i].top <= vs[L].low /\ vs[L].low <= vs[L].top
        BY <3>3, <3>4
      <4> QED BY <4>1, <4>2
    <3>6. /\ vs[i].lev = Len(fs) => vs[i].fgotos = f.gotos /\ vs[i].flabels = f.labels
          /\ vs[i].lev # Len(fs) => vs[i].gotos <= f.gotos /\ vs[i].lev < Len(fs)
      <4> DEFINE u == vs[i]
                 v == vs[L]
                 D == Len(fs)
      <4>1. /\ u.lev \in Nat /\ v.lev = D /\ D \in Nat /\ u.lev <= v.lev
            /\ v.fgotos = f.gotos /\ v.flabels = f.labels
            /\ u.lev = v.lev => u.fgotos = v.fgotos /\ u.flabels = v.flabels
            /\ u.lev < v.lev => u.gotos <= v.fgotos
        BY <3>3, <1>2, <1>3, <1>4, <1>6
      <4> HIDE DEF u, v, D
      <4>2. /\ u.lev = D => u.fgotos = f.gotos /\ u.flabels = f.labels
            /\ u.lev # D => u.gotos <= f.gotos /\ u.lev < D
        BY ONLY <4>1
      <4> QED BY <4>2 DEF u, D
    <3>7. vs[i].lev = Len(fs) => vs[i].kind # "until" /\ vs[i].nact <= vs[L].mark
      BY <3>3, <1>2, <1>4, <1>5, <1>6
    <3> QED BY <2>2, <2>4, <3>2, <3>3, <3>5, <3>6, <3>7
  <2> QED BY <2>3, <2>4
<1>8. TopView(vs, fs, op, ls, gs, b, f, L)
  BY <1>1, <1>2, <1>3, <1>5, <1>6, <1>7 DEF TopView
<1> QED BY <1>8 DEF L
-----------------------------------------------------------------------------
(* A block or function, seen from inside, that may be opened in the frames  *)
(* fs when blk is b and fn is f: fs2 are the frames then.                   *)
Opens(e, fs, fs2, nl, ng, b, f, n, m) ==
  /\ e \in ViewRec /\ e.bid = m /\ n < m
  /\ e.low = nl /\ e.top = nl /\ e.gotos = ng /\ e.mark <= e.nact
  /\ Len(fs2) = e.lev /\ Len(fs2[e.lev].decls) \in Nat /\ e.nact <= Len(fs2[e.lev].decls)
  /\ \A l \in 1..Len(fs) : fs2[l].decls = fs[l].decls
  /\ \/ /\ e.kind \in {"do", "repeat"} /\ e.lev = Len(fs)
        /\ e.fgotos = f.gotos /\ e.flabels = f.labels /\ b.nact <= e.mark
     \/ /\ e.kind = "function" /\ e.lev = Len(fs) + 1 /\ e.fgotos = ng /\ e.flabels = nl

(* Opening one keeps blocks, gotos and labels good. *)
LEMMA JPushed ==
  ASSUME NEW vs, NEW fs, NEW op, NEW ls, NEW gs, NEW b, NEW f, NEW n \in Nat, NEW sn,
         JumpsGood(vs, fs, op, ls, gs, b, f, n, sn),
         NEW e, NEW fs2, NEW m \in Nat, Opens(e, fs, fs2, Len(ls), Len(gs), b, f, n, m),
         e.kind = "function" \/ op[Len(op)].kind # "until",
         NEW r \in BlockRec, r.kind = e.kind, r.mark = e.mark, r.labels = Len(ls), r.blk = b,
         r.fn = f, r.bid = m,
         NEW b2 \in BlkRec, NEW f2 \in FnRec, Shown(e, b2, f2, Len(ls))
  PROVE  JumpsGood(Append(vs, e), fs2, Append(op, r), ls, gs, b2, f2, m, sn)
<1> DEFINE L == Len(vs)
           vs2 == Append(vs, e)
           op2 == Append(op, r)
           D == Len(fs)
<1>1. /\ vs \in Seq(ViewRec) /\ op \in Seq(BlockRec) /\ Len(vs) = Len(op) /\ Len(op) \in Nat /\ Len(op) >= 1
      /\ b \in BlkRec /\ f \in FnRec /\ ls \in Seq(LabelRec) /\ gs \in Seq(GotoRec)
      /\ Len(ls) \in Nat /\ Len(gs) \in Nat
      /\ Shows(vs, op, b, f, Len(ls), Len(fs)) /\ Nested(vs, fs, n, Len(gs))
      /\ Pending(vs, fs, gs, n) /\ Noted(vs, ls, sn, n)
      /\ \A i \in 1..Len(vs) : vs[i].bid \in 0..n
  BY JumpsParts
<1>2. /\ L \in Nat /\ L >= 1 /\ L \in 1..L /\ Len(op) = L
      /\ vs[L].kind = op[L].kind /\ vs[L].nact = b.nact
      /\ vs[L].fgotos = f.gotos /\ vs[L].lev = D /\ D \in Nat /\ D >= 1
      /\ \A i \in 1..L :
              /\ vs[i].lev \in 1..D /\ vs[i].top <= Len(ls) /\ vs[i].gotos <= Len(gs)
              /\ vs[i].kind # "until" => vs[i].mark <= vs[i].nact
              /\ vs[i].lev = D => vs[i].fgotos = f.gotos /\ vs[i].flabels = f.labels
              /\ vs[i].lev = D /\ i # L => vs[i].kind # "until" /\ vs[i].nact <= vs[L].mark
              /\ vs[i].lev # D => vs[i].gotos <= f.gotos /\ vs[i].lev < D /\ i # L
  <2>1. TopView(vs, fs, op, ls, gs, b, f, L)
    BY TopFacts
  <2> QED BY <2>1 DEF TopView
<1>3. /\ e \in ViewRec /\ e.bid = m /\ n < m
      /\ e.low = Len(ls) /\ e.top = Len(ls) /\ e.gotos = Len(gs) /\ e.mark <= e.nact
      /\ Len(fs2) = e.lev /\ Len(fs2[e.lev].decls) \in Nat /\ e.nact <= Len(fs2[e.lev].decls)
      /\ \A l \in 1..D : fs2[l].decls = fs[l].decls
      /\ \/ /\ e.kind \in {"do", "repeat"} /\ e.lev = D
            /\ e.fgotos = f.gotos /\ e.flabels = f.labels /\ b.nact <= e.mark
         \/ /\ e.kind = "function" /\ e.lev = D + 1 /\ e.fgotos = Len(gs) /\ e.flabels = Len(ls)
  BY DEF Opens
<1>4. /\ vs2 \in Seq(ViewRec) /\ Len(vs2) = L + 1 /\ vs2[L + 1] = e /\ \A i \in 1..L : vs2[i] = vs[i]
      /\ op2 \in Seq(BlockRec) /\ Len(op2) = L + 1 /\ op2[L + 1] = r /\ \A i \in 1..L : op2[i] = op[i]
  <2>1. vs2 \in Seq(ViewRec) /\ Len(vs2) = L + 1 /\ vs2[L + 1] = e /\ \A i \in 1..L : vs2[i] = vs[i]
    BY <1>1, <1>3, AppendFacts
  <2>2. op2 \in Seq(BlockRec) /\ Len(op2) = Len(op) + 1 /\ op2[Len(op) + 1] = r /\ \A i \in 1..Len(op) : op2[i] = op[i]
    BY <1>1, AppendFacts
  <2> QED BY <2>1, <2>2, <1>2
<1>5. /\ e.bid \in Nat /\ e.mark \in Nat /\ e.low \in Nat /\ e.top \in Nat /\ e.lev \in Nat
      /\ e.gotos \in Nat /\ e.nact \in Nat /\ e.fgotos \in Nat /\ e.flabels \in Nat
  BY <1>3 DEF ViewRec
<1>6. \A i \in 1..L :
        /\ vs[i].bid \in Nat /\ vs[i].mark \in Nat /\ vs[i].low \in Nat
        /\ vs[i].top \in Nat /\ vs[i].lev \in Nat /\ vs[i].gotos \in Nat /\ vs[i].nact \in Nat
        /\ vs[i].fgotos \in Nat /\ vs[i].flabels \in Nat
  BY <1>1, ViewFields
<1>7. 1..(L + 1) = (1..L) \cup {L + 1} /\ L + 1 \notin 1..L
  BY <1>2
<1>8. f.gotos \in Nat /\ f.labels \in Nat /\ b.nact \in Nat
  BY <1>1 DEF FnRec, BlkRec
<1>9. f.gotos <= Len(gs) /\ f.labels <= Len(ls)
  <2>1. Bounded(vs[L], Len(fs), Len(fs[vs[L].lev].decls), n, Len(gs))
    BY <1>1, <1>2 DEF Nested
  <2>2. /\ vs[L].fgotos <= vs[L].gotos /\ vs[L].gotos <= Len(gs)
        /\ vs[L].flabels <= vs[L].low /\ vs[L].low <= vs[L].top
    BY <2>1 DEF Bounded
  <2>3. vs[L].flabels = f.labels /\ vs[L].top <= Len(ls)
    BY <1>2
  <2>4. f.gotos <= Len(gs)
    BY <2>2, <1>2, <1>6, <1>1
  <2>5. f.labels <= Len(ls)
    BY <2>2, <2>3, <1>2, <1>6, <1>1
  <2> QED BY <2>4, <2>5
<1> HIDE DEF vs2, op2, L, D
<1>10. Shows(vs2, op2, b2, f2, Len(ls), Len(fs2))
  <2>1. \A i \in 1..L : vs[i].kind = op[i].kind /\ vs[i].bid = op[i].bid
                        /\ vs[i].mark = op[i].mark /\ vs[i].low = op[i].labels
    BY <1>1, <1>2 DEF Shows
  <2>2. \A i \in 1..(L + 1) : vs2[i].kind = op2[i].kind /\ vs2[i].bid = op2[i].bid
                        /\ vs2[i].mark = op2[i].mark /\ vs2[i].low = op2[i].labels
    BY <2>1, <1>3, <1>4, <1>7
  <2>3. \A i \in 1..L : Shown(vs2[i], op2[i + 1].blk, op2[i + 1].fn, op2[i + 1].labels)
    <3> SUFFICES ASSUME NEW i \in 1..L PROVE Shown(vs2[i], op2[i + 1].blk, op2[i + 1].fn, op2[i + 1].labels)
      OBVIOUS
    <3>1. CASE i = L
      <4>1. Shown(vs[L], b, f, Len(ls))
        BY <1>1, <1>2 DEF Shows
      <4> QED BY <4>1, <3>1, <1>2, <1>4
    <3>2. CASE i # L
      <4>1. i \in 1..(L - 1) /\ i + 1 \in 1..L
        BY <3>2, <1>2
      <4>2. Shown(vs[i], op[i + 1].blk, op[i + 1].fn, op[i + 1].labels)
        BY <4>1, <1>1, <1>2 DEF Shows
      <4> QED BY <4>1, <4>2, <1>4
    <3> QED BY <3>1, <3>2
  <2>4. (L + 1) - 1 = L /\ L + 1 >= 1
    BY <1>2
  <2>5. Shown(vs2[L + 1], b2, f2, Len(ls)) /\ vs2[L + 1].lev = Len(fs2)
    BY <1>3, <1>4
  <2>6. /\ vs2 \in Seq(ViewRec) /\ op2 \in Seq(BlockRec) /\ Len(vs2) = Len(op2) /\ Len(op2) >= 1
        /\ b2 \in BlkRec /\ f2 \in FnRec /\ Len(op2) = L + 1
    BY <1>4, <2>4
  <2>7. \A i \in 1..(Len(op2) - 1) : Shown(vs2[i], op2[i + 1].blk, op2[i + 1].fn, op2[i + 1].labels)
    BY <2>3, <2>4, <2>6
  <2>8. Shown(vs2[Len(op2)], b2, f2, Len(ls)) /\ vs2[Len(op2)].lev = Len(fs2)
    BY <2>5, <2>6
  <2>9. \A i \in 1..Len(op2) : vs2[i].kind = op2[i].kind /\ vs2[i].bid = op2[i].bid
                        /\ vs2[i].mark = op2[i].mark /\ vs2[i].low = op2[i].labels
    BY <2>2, <2>6
  <2> QED BY <2>6, <2>7, <2>8, <2>9 DEF Shows
<1>11. \A i \in 1..L : Inside(vs[i], e)
  <2> SUFFICES ASSUME NEW i \in 1..L PROVE Inside(vs[i], e)
    OBVIOUS
  <2>1. vs[i].lev <= D /\ D <= e.lev /\ vs[i].lev \in Nat
    BY <1>2, <1>3
  <2>2. vs[i].bid < e.bid
    BY <1>1, <1>3, <1>6 DEF L
  <2>3. vs[i].gotos <= e.gotos /\ vs[i].top <= e.low
    BY <1>2, <1>3
  <2>4. CASE e.kind = "function"
    <3>1. vs[i].lev < e.lev /\ e.fgotos = Len(gs)
      BY <2>1, <2>4, <1>2, <1>3
    <3>2. vs[i].gotos <= e.fgotos
      BY <3>1, <1>2
    <3>3. vs[i].lev <= e.lev /\ vs[i].lev # e.lev
      BY <3>1, <2>1, <1>5
    <3> QED BY <2>2, <2>3, <3>1, <3>2, <3>3 DEF Inside
  <2>5. CASE e.kind # "function"
    <3>1. e.lev = D /\ e.fgotos = f.gotos /\ e.flabels = f.labels /\ b.nact <= e.mark /\ vs[L].kind # "until"
      BY <2>5, <1>2, <1>3
    <3>2. vs[i].lev = D => vs[i].nact <= e.mark /\ vs[i].kind # "until"
      <4>1. CASE i = L
        BY <4>1, <3>1, <1>2
      <4>2. ASSUME i # L, vs[i].lev = D PROVE vs[i].nact <= e.mark /\ vs[i].kind # "until"
        <5>1. vs[i].kind # "until" /\ vs[i].nact <= vs[L].mark
          BY <4>2, <1>2
        <5>2. vs[L].mark <= vs[L].nact /\ vs[L].nact = b.nact
          BY <3>1, <1>2
        <5>3. vs[i].nact \in Nat /\ vs[L].mark \in Nat /\ vs[L].nact \in Nat
          BY <1>2, <1>6
        <5>4. vs[i].nact <= e.mark
          <6>1. b.nact <= e.mark /\ e.mark \in Nat
            BY <3>1, <1>5
          <6>2. vs[i].nact <= vs[L].mark /\ vs[L].mark <= vs[L].nact /\ vs[L].nact <= e.mark
            BY <5>1, <5>2, <6>1
          <6> QED BY ONLY <5>3, <6>1, <6>2
        <5> QED BY <5>1, <5>4
      <4> QED BY <4>1, <4>2
    <3>3. vs[i].lev = D => vs[i].fgotos = e.fgotos /\ vs[i].flabels = e.flabels
      BY <3>1, <1>2
    <3>4. vs[i].lev # D => vs[i].gotos <= e.fgotos /\ vs[i].lev < D
      BY <3>1, <1>2
    <3>5. vs[i].lev < D => vs[i].lev # D
      BY <2>1, <1>2
    <3>6. vs[i].kind = "until" => vs[i].lev < e.lev
      BY <3>1, <3>2, <3>4
    <3>7. vs[i].lev <= e.lev
      BY <2>1, <3>1
    <3> QED BY <2>2, <2>3, <3>1, <3>2, <3>3, <3>4, <3>5, <3>6, <3>7 DEF Inside
  <2> QED BY <2>4, <2>5
<1>12. Nested(vs2, fs2, m, Len(gs))
  <2>1. vs2[1].lev = 1 /\ vs2[1].kind = "chunk"
    BY <1>1, <1>2, <1>4 DEF Nested
  <2>2. ASSUME NEW i \in 2..(L + 1)
        PROVE  /\ vs2[i].kind # "chunk"
               /\ vs2[i].lev = vs2[i - 1].lev + IF vs2[i].kind = "function" THEN 1 ELSE 0
               /\ vs2[i].kind = "until" =>
                     vs2[i].top = vs2[i].low /\ vs2[i].gotos = vs2[i - 1].gotos /\ vs2[i].nact = vs2[i - 1].nact
    <3>1. CASE i = L + 1
      <4>1. vs2[i] = e /\ vs2[i - 1] = vs[L]
        BY <3>1, <1>2, <1>4
      <4>2. e.kind # "chunk" /\ e.kind # "until"
        BY <1>3
      <4>3. e.lev = vs[L].lev + IF e.kind = "function" THEN 1 ELSE 0
        BY <1>2, <1>3
      <4> QED BY <4>1, <4>2, <4>3
    <3>2. CASE i # L + 1
      <4>1. i \in 2..L /\ i \in 1..L /\ i - 1 \in 1..L
        BY <3>2, <1>2
      <4>2. vs2[i] = vs[i] /\ vs2[i - 1] = vs[i - 1]
        BY <4>1, <1>4
      <4>3. /\ vs[i].kind # "chunk"
            /\ vs[i].lev = vs[i - 1].lev + IF vs[i].kind = "function" THEN 1 ELSE 0
            /\ vs[i].kind = "until" =>
                  vs[i].top = vs[i].low /\ vs[i].gotos = vs[i - 1].gotos /\ vs[i].nact = vs[i - 1].nact
        BY <4>1, <1>1 DEF Nested, L
      <4> QED BY <4>2, <4>3
    <3> QED BY <3>1, <3>2
  <2>3. ASSUME NEW i \in 1..(L + 1), NEW j \in 1..(L + 1), i < j PROVE Inside(vs2[i], vs2[j])
    <3>1. i \in 1..L
      BY <2>3, <1>2
    <3>2. CASE j = L + 1
      BY <3>1, <3>2, <1>4, <1>11
    <3>3. CASE j # L + 1
      <4>1. j \in 1..L
        BY <3>3, <1>7
      <4>2. Inside(vs[i], vs[j])
        BY <4>1, <3>1, <2>3, <1>1 DEF Nested, L
      <4> QED BY <4>1, <4>2, <3>1, <1>4
    <3> QED BY <3>2, <3>3
  <2>4. ASSUME NEW i \in 1..(L + 1) PROVE Bounded(vs2[i], Len(fs2), Len(fs2[vs2[i].lev].decls), m, Len(gs))
    <3>1. CASE i = L + 1
      <4> DEFINE nd == Len(fs2[e.lev].decls)
      <4>1. e.lev \in 1..Len(fs2)
        BY <1>2, <1>3, <1>5
      <4>2. nd \in Nat /\ e.mark <= e.nact /\ e.nact <= nd
        BY <1>3
      <4> HIDE DEF nd
      <4>3. e.mark <= nd /\ e.nact <= nd
        BY <4>2, <1>5
      <4>4. e.fgotos <= e.gotos /\ e.gotos <= Len(gs) /\ e.flabels <= e.low /\ e.low <= e.top
        BY <1>1, <1>3, <1>9
      <4>5. e.bid <= m
        BY <1>3
      <4>6. Bounded(e, Len(fs2), nd, m, Len(gs))
        BY <1>3, <4>1, <4>3, <4>4, <4>5 DEF Bounded
      <4> QED BY <4>6, <3>1, <1>4 DEF nd
    <3>2. CASE i # L + 1
      <4>1. i \in 1..L /\ vs2[i] = vs[i] /\ vs[i].lev \in 1..D
        BY <3>2, <1>2, <1>4, <1>7
      <4> DEFINE nd == Len(fs[vs[i].lev].decls)
      <4>2. Bounded(vs[i], D, nd, n, Len(gs))
        BY <4>1, <1>1 DEF Nested, L, D
      <4>3. Len(fs2[vs[i].lev].decls) = nd
        BY <4>1, <1>3
      <4> HIDE DEF nd
      <4>4. vs[i].lev \in 1..Len(fs2)
        BY <4>1, <1>2, <1>3
      <4>5. vs[i].bid <= m
        BY <4>1, <1>1, <1>3 DEF L
      <4>6. Bounded(vs[i], Len(fs2), nd, m, Len(gs))
        BY <4>2, <4>4, <4>5 DEF Bounded
      <4> QED BY <4>1, <4>3, <4>6
    <3> QED BY <3>1, <3>2
  <2> QED BY <2>1, <2>2, <2>3, <2>4, <1>4 DEF Nested
<1>13. \A j \in 1..Len(gs) : ~Within(vs2, L + 1, j)
  <2> SUFFICES ASSUME NEW j \in 1..Len(gs), Within(vs2, L + 1, j) PROVE FALSE
    OBVIOUS
  <2>1. j > vs2[L + 1].gotos
    BY DEF Within
  <2>2. j > Len(gs)
    BY <2>1, <1>3, <1>4
  <2> QED BY <2>2, <1>1
<1>14. ASSUME NEW i \in 1..L, NEW j \in 1..Len(gs) PROVE Within(vs2, i, j) <=> Within(vs, i, j)
  <2>1. \A k \in (i + 1)..L : vs2[k] = vs[k]
    BY <1>2, <1>4
  <2>2. (i + 1)..(L + 1) = ((i + 1)..L) \cup {L + 1}
    BY <1>2
  <2>3. vs2[i] = vs[i] /\ vs2[L + 1] = e
    BY <1>4
  <2>4. ASSUME Within(vs, i, j), vs[i].lev < e.lev PROVE j <= e.fgotos
    <3>1. CASE e.kind = "function"
      BY <3>1, <1>1, <1>3
    <3>2. CASE e.kind # "function"
      <4>1. e.lev = D /\ e.fgotos = f.gotos
        BY <3>2, <1>3
      <4>2. i # L /\ vs[i].lev < vs[L].lev
        BY <4>1, <2>4, <1>2, <1>6
      <4>3. L \in (i + 1)..L
        BY <4>2, <1>2
      <4>4. j <= vs[L].fgotos
        BY <2>4, <4>2, <4>3 DEF Within, L
      <4> QED BY <4>1, <4>4, <1>2
    <3> QED BY <3>1, <3>2
  <2>5. Within(vs, i, j) <=> j > vs[i].gotos /\ \A k \in (i + 1)..L : vs[i].lev < vs[k].lev => j <= vs[k].fgotos
    BY DEF Within, L
  <2>6. Within(vs2, i, j) <=> j > vs2[i].gotos /\ \A k \in (i + 1)..(L + 1) : vs2[i].lev < vs2[k].lev => j <= vs2[k].fgotos
    BY <1>4 DEF Within
  <2> QED BY <2>1, <2>2, <2>3, <2>4, <2>5, <2>6
<1>15. Pending(vs2, fs2, gs, m)
  <2> SUFFICES ASSUME NEW j \in 1..Len(gs)
               PROVE  /\ gs[j].path \subseteq 0..m
                      /\ \A q \in 1..Len(gs[j].ids) : gs[j].ids[q] < m
                      /\ \A i \in 1..(L + 1) :
                           /\ vs2[i].kind # "until" => (vs2[i].bid \in gs[j].path <=> Within(vs2, i, j))
                           /\ Within(vs2, i, j) => Agrees(gs[j], fs2[vs2[i].lev].decls)
    BY <1>1, <1>4 DEF Pending
  <2>1. /\ gs[j].path \subseteq 0..n
        /\ \A q \in 1..Len(gs[j].ids) : gs[j].ids[q] < n
        /\ \A i \in 1..L :
             /\ vs[i].kind # "until" => (vs[i].bid \in gs[j].path <=> Within(vs, i, j))
             /\ Within(vs, i, j) => Agrees(gs[j], fs[vs[i].lev].decls)
    BY <1>1 DEF Pending, L
  <2>2. \A q \in 1..Len(gs[j].ids) : gs[j].ids[q] \in Nat
    BY <1>1, GotoFields
  <2>3. gs[j].path \subseteq 0..m
    BY <2>1, <1>3
  <2>4. \A q \in 1..Len(gs[j].ids) : gs[j].ids[q] < m
    BY <2>1, <2>2, <1>3
  <2>5. ASSUME NEW i \in 1..(L + 1)
        PROVE  /\ vs2[i].kind # "until" => (vs2[i].bid \in gs[j].path <=> Within(vs2, i, j))
               /\ Within(vs2, i, j) => Agrees(gs[j], fs2[vs2[i].lev].decls)
    <3>1. CASE i = L + 1
      <4>1. vs2[i].bid = m /\ m \notin gs[j].path
        BY <3>1, <2>1, <1>3, <1>4
      <4> QED BY <3>1, <4>1, <1>13
    <3>2. CASE i # L + 1
      <4>1. i \in 1..L /\ vs2[i] = vs[i] /\ vs[i].lev \in 1..D
        BY <3>2, <1>2, <1>4, <1>7
      <4>2. fs2[vs[i].lev].decls = fs[vs[i].lev].decls
        BY <4>1, <1>3
      <4> QED BY <4>1, <4>2, <2>1, <1>14
    <3> QED BY <3>1, <3>2
  <2> QED BY <2>3, <2>4, <2>5
<1>16. Noted(vs2, ls, sn, m)
  <2>1. ASSUME NEW s \in sn
        PROVE  /\ s[2] \in 0..m
               /\ \A i \in 1..(L + 1) : s[2] = vs2[i].bid /\ vs2[i].kind # "until" =>
                     \E q \in (vs2[i].low + 1)..vs2[i].top : ls[q].name = s[1]
    <3>1. /\ s[2] \in 0..n
          /\ \A i \in 1..L : s[2] = vs[i].bid /\ vs[i].kind # "until" =>
                \E q \in (vs[i].low + 1)..vs[i].top : ls[q].name = s[1]
      BY <1>1 DEF Noted, L
    <3>2. s[2] \in 0..m /\ s[2] # m
      BY <3>1, <1>3
    <3>3. vs2[L + 1].bid = m
      BY <1>3, <1>4
    <3> QED BY <3>1, <3>2, <3>3, <1>4, <1>7
  <2> QED BY <2>1, <1>1, <1>4 DEF Noted
<1> QED BY <1>10, <1>12, <1>15, <1>16 DEF JumpsGood, vs2, op2, L
-----------------------------------------------------------------------------
(* What a block that ends leaves: the views vs but the last, the frames     *)
(* fs2, the labels ls2 of ls and the gotos gs2 of gs.                       *)
Leaves(vs, L, fs2, ls, ls2, gs, gs2) ==
  /\ L \in Nat /\ L >= 2
  /\ Len(fs2) = vs[L - 1].lev
  /\ ls2 \in Seq(LabelRec) /\ Len(ls2) = vs[L].low /\ \A q \in 1..Len(ls2) : ls2[q] = ls[q]
  /\ gs2 \in Seq(GotoRec) /\ Len(gs2) <= Len(gs)
  /\ \A j \in 1..Len(gs2) : gs2[j].path = gs[j].path /\ gs2[j].ids = gs[j].ids
  /\ \A i \in 1..(L - 1) :
       /\ vs[i].gotos <= Len(gs2)
       /\ vs[i].mark <= Len(fs2[vs[i].lev].decls) /\ vs[i].nact <= Len(fs2[vs[i].lev].decls)
       /\ \A j \in 1..Len(gs2) :
            /\ Within(vs, i, j) => Agrees(gs2[j], fs2[vs[i].lev].decls)
            /\ vs[i].lev < vs[L].lev /\ (vs[i].lev < vs[L - 1].lev => j <= vs[L - 1].fgotos) =>
                  j <= vs[L].fgotos

LEMMA JPopped ==
  ASSUME NEW vs, NEW fs, NEW op, NEW ls, NEW gs, NEW b, NEW f, NEW n \in Nat, NEW sn,
         JumpsGood(vs, fs, op, ls, gs, b, f, n, sn),
         NEW fs2, NEW ls2, NEW gs2, Leaves(vs, Len(vs), fs2, ls, ls2, gs, gs2),
         NEW b2 \in BlkRec, NEW f2 \in FnRec, Shown(vs[Len(vs) - 1], b2, f2, Len(ls2))
  PROVE  JumpsGood(Front(vs, Len(vs) - 1), fs2, Front(op, Len(vs) - 1), ls2, gs2, b2, f2, n, sn)
<1> DEFINE L == Len(vs)
           K == L - 1
           vs2 == Front(vs, K)
           op2 == Front(op, K)
<1>1. /\ vs \in Seq(ViewRec) /\ op \in Seq(BlockRec) /\ Len(vs) = Len(op) /\ Len(op) \in Nat /\ Len(op) >= 1
      /\ b \in BlkRec /\ f \in FnRec /\ ls \in Seq(LabelRec) /\ gs \in Seq(GotoRec)
      /\ Len(ls) \in Nat /\ Len(gs) \in Nat
      /\ Shows(vs, op, b, f, Len(ls), Len(fs)) /\ Nested(vs, fs, n, Len(gs))
      /\ Pending(vs, fs, gs, n) /\ Noted(vs, ls, sn, n)
      /\ \A i \in 1..Len(vs) : vs[i].bid \in 0..n
  BY JumpsParts
<1>2. /\ L \in Nat /\ L >= 2
      /\ Len(fs2) = vs[K].lev
      /\ ls2 \in Seq(LabelRec) /\ Len(ls2) = vs[L].low /\ \A q \in 1..Len(ls2) : ls2[q] = ls[q]
      /\ gs2 \in Seq(GotoRec) /\ Len(gs2) <= Len(gs)
      /\ \A j \in 1..Len(gs2) : gs2[j].path = gs[j].path /\ gs2[j].ids = gs[j].ids
      /\ \A i \in 1..K :
           /\ vs[i].gotos <= Len(gs2)
           /\ vs[i].mark <= Len(fs2[vs[i].lev].decls) /\ vs[i].nact <= Len(fs2[vs[i].lev].decls)
           /\ \A j \in 1..Len(gs2) :
                /\ Within(vs, i, j) => Agrees(gs2[j], fs2[vs[i].lev].decls)
                /\ vs[i].lev < vs[L].lev /\ (vs[i].lev < vs[K].lev => j <= vs[K].fgotos) =>
                      j <= vs[L].fgotos
  BY DEF Leaves
<1>3. K \in Nat /\ K >= 1 /\ K \in 1..K /\ L = K + 1 /\ K \in 0..L /\ 1..L = (1..K) \cup {L} /\ 1..K \subseteq 1..L
      /\ L \in 1..L
  BY <1>2
<1>4. /\ vs2 \in Seq(ViewRec) /\ Len(vs2) = K /\ \A i \in 1..K : vs2[i] = vs[i]
      /\ op2 \in Seq(BlockRec) /\ Len(op2) = K /\ \A i \in 1..K : op2[i] = op[i]
  <2>1. K \in 0..Len(vs) /\ K \in 0..Len(op)
    BY <1>1, <1>3
  <2> HIDE DEF K
  <2> QED BY <1>1, <2>1, FrontFacts
<1>5. \A i \in 1..L :
        /\ vs[i].bid \in Nat /\ vs[i].mark \in Nat /\ vs[i].low \in Nat
        /\ vs[i].top \in Nat /\ vs[i].lev \in Nat /\ vs[i].gotos \in Nat /\ vs[i].nact \in Nat
        /\ vs[i].fgotos \in Nat /\ vs[i].flabels \in Nat
  BY <1>1, ViewFields
<1>6. Len(gs2) \in Nat /\ 1..Len(gs2) \subseteq 1..Len(gs)
  BY <1>1, <1>2
<1>7. Len(op) = L
  BY <1>1
<1>21. Len(vs) = L
  OBVIOUS
<1> HIDE DEF vs2, op2, L, K
<1>8. Shows(vs2, op2, b2, f2, Len(ls2), Len(fs2))
  <2>1. \A i \in 1..K : vs2[i].kind = op2[i].kind /\ vs2[i].bid = op2[i].bid
                        /\ vs2[i].mark = op2[i].mark /\ vs2[i].low = op2[i].labels
    <3>1. \A i \in 1..L : vs[i].kind = op[i].kind /\ vs[i].bid = op[i].bid
                        /\ vs[i].mark = op[i].mark /\ vs[i].low = op[i].labels
      BY <1>1, <1>7 DEF Shows
    <3> QED BY <3>1, <1>3, <1>4
  <2>2. \A i \in 1..(K - 1) : Shown(vs2[i], op2[i + 1].blk, op2[i + 1].fn, op2[i + 1].labels)
    <3> SUFFICES ASSUME NEW i \in 1..(K - 1) PROVE Shown(vs2[i], op2[i + 1].blk, op2[i + 1].fn, op2[i + 1].labels)
      OBVIOUS
    <3>1. i \in 1..(L - 1) /\ i \in 1..K /\ i + 1 \in 1..K
      BY <1>3
    <3>2. Shown(vs[i], op[i + 1].blk, op[i + 1].fn, op[i + 1].labels)
      BY <3>1, <1>1, <1>7 DEF Shows
    <3> QED BY <3>1, <3>2, <1>4
  <2>3. Shown(vs2[K], b2, f2, Len(ls2)) /\ vs2[K].lev = Len(fs2)
    BY <1>2, <1>3, <1>4 DEF L, K
  <2> QED BY <1>3, <1>4, <2>1, <2>2, <2>3 DEF Shows
<1>9. Nested(vs2, fs2, n, Len(gs2))
  <2>1. vs2[1].lev = 1 /\ vs2[1].kind = "chunk"
    BY <1>1, <1>3, <1>4 DEF Nested
  <2>2. ASSUME NEW i \in 2..K
        PROVE  /\ vs2[i].kind # "chunk"
               /\ vs2[i].lev = vs2[i - 1].lev + IF vs2[i].kind = "function" THEN 1 ELSE 0
               /\ vs2[i].kind = "until" =>
                     vs2[i].top = vs2[i].low /\ vs2[i].gotos = vs2[i - 1].gotos /\ vs2[i].nact = vs2[i - 1].nact
    <3>1. i \in 2..L /\ i \in 1..K /\ i - 1 \in 1..K
      BY <1>3
    <3>2. /\ vs[i].kind # "chunk"
          /\ vs[i].lev = vs[i - 1].lev + IF vs[i].kind = "function" THEN 1 ELSE 0
          /\ vs[i].kind = "until" =>
                vs[i].top = vs[i].low /\ vs[i].gotos = vs[i - 1].gotos /\ vs[i].nact = vs[i - 1].nact
      BY <3>1, <1>1, <1>21 DEF Nested
    <3>3. vs2[i] = vs[i] /\ vs2[i - 1] = vs[i - 1]
      BY <3>1, <1>4
    <3> QED BY <3>2, <3>3
  <2>3. ASSUME NEW i \in 1..K, NEW j \in 1..K, i < j PROVE Inside(vs2[i], vs2[j])
    <3>1. Inside(vs[i], vs[j])
      BY <2>3, <1>1, <1>3, <1>21 DEF Nested
    <3> QED BY <3>1, <1>4
  <2>4. ASSUME NEW i \in 1..K PROVE Bounded(vs2[i], Len(fs2), Len(fs2[vs2[i].lev].decls), n, Len(gs2))
    <3> DEFINE nd == Len(fs[vs[i].lev].decls)
               nd2 == Len(fs2[vs[i].lev].decls)
    <3>1. Bounded(vs[i], Len(fs), nd, n, Len(gs)) /\ vs2[i] = vs[i]
      BY <1>1, <1>3, <1>4, <1>21 DEF Nested
    <3>2. vs[i].mark <= nd2 /\ vs[i].nact <= nd2 /\ vs[i].gotos <= Len(gs2)
      BY <1>2
    <3>3. vs[i].lev <= Len(fs2)
      <4>1. CASE i = K
        BY <4>1, <1>2, <1>3, <1>5
      <4>2. CASE i # K
        <5>1. i < K
          BY <4>2, <1>3
        <5>2. Inside(vs[i], vs[K])
          BY <5>1, <1>1, <1>3, <1>21 DEF Nested
        <5> QED BY <5>2, <1>2 DEF Inside
      <4> QED BY <4>1, <4>2
    <3>4. vs[i].lev \in 1..Len(fs)
      BY <3>1 DEF Bounded
    <3>5. vs[i].lev \in 1..Len(fs2)
      <4>1. Len(fs2) \in Nat
        BY <1>2, <1>3, <1>5
      <4> QED BY <4>1, <3>3, <3>4
    <3> HIDE DEF nd, nd2
    <3>6. Bounded(vs[i], Len(fs2), nd2, n, Len(gs2))
      BY <3>1, <3>2, <3>5 DEF Bounded
    <3> QED BY <3>1, <3>6 DEF nd2
  <2> QED BY <1>4, <2>1, <2>2, <2>3, <2>4 DEF Nested
<1>10. ASSUME NEW i \in 1..K, NEW j \in 1..Len(gs2) PROVE Within(vs2, i, j) <=> Within(vs, i, j)
  <2>1. \A k \in (i + 1)..K : vs2[k] = vs[k]
    BY <1>3, <1>4
  <2>2. (i + 1)..L = ((i + 1)..K) \cup {L}
    BY <1>3
  <2>3. vs2[i] = vs[i]
    BY <1>4
  <2>4. Within(vs, i, j) <=> j > vs[i].gotos /\ \A k \in (i + 1)..L : vs[i].lev < vs[k].lev => j <= vs[k].fgotos
    BY <1>21 DEF Within
  <2>5. Within(vs2, i, j) <=> j > vs2[i].gotos /\ \A k \in (i + 1)..K : vs2[i].lev < vs2[k].lev => j <= vs2[k].fgotos
    BY <1>4 DEF Within
  <2>6. ASSUME Within(vs2, i, j), vs[i].lev < vs[L].lev PROVE j <= vs[L].fgotos
    <3>1. ASSUME vs[i].lev < vs[K].lev PROVE j <= vs[K].fgotos
      <4>1. i # K
        BY <3>1, <1>5, <1>3
      <4>2. K \in (i + 1)..K
        BY <4>1, <1>3
      <4>3. vs2[K] = vs[K]
        BY <1>3, <1>4
      <4> QED BY <3>1, <4>2, <4>3, <2>3, <2>5, <2>6
    <3> QED BY <3>1, <2>6, <1>2
  <2> QED BY <2>1, <2>2, <2>3, <2>4, <2>5, <2>6
<1>11. Pending(vs2, fs2, gs2, n)
  <2> SUFFICES ASSUME NEW j \in 1..Len(gs2)
               PROVE  /\ gs2[j].path \subseteq 0..n
                      /\ \A q \in 1..Len(gs2[j].ids) : gs2[j].ids[q] < n
                      /\ \A i \in 1..K :
                           /\ vs2[i].kind # "until" => (vs2[i].bid \in gs2[j].path <=> Within(vs2, i, j))
                           /\ Within(vs2, i, j) => Agrees(gs2[j], fs2[vs2[i].lev].decls)
    BY <1>2, <1>4 DEF Pending
  <2>1. j \in 1..Len(gs) /\ gs2[j].path = gs[j].path /\ gs2[j].ids = gs[j].ids
    BY <1>2, <1>6
  <2>2. /\ gs[j].path \subseteq 0..n
        /\ \A q \in 1..Len(gs[j].ids) : gs[j].ids[q] < n
        /\ \A i \in 1..K : vs[i].kind # "until" => (vs[i].bid \in gs[j].path <=> Within(vs, i, j))
    BY <2>1, <1>1, <1>3, <1>21 DEF Pending
  <2> QED BY <2>1, <2>2, <1>2, <1>4, <1>10
<1>12. Noted(vs2, ls2, sn, n)
  <2>1. ASSUME NEW s \in sn
        PROVE  /\ s[2] \in 0..n
               /\ \A i \in 1..K : s[2] = vs2[i].bid /\ vs2[i].kind # "until" =>
                     \E q \in (vs2[i].low + 1)..vs2[i].top : ls2[q].name = s[1]
    <3>1. /\ s[2] \in 0..n
          /\ \A i \in 1..K : s[2] = vs[i].bid /\ vs[i].kind # "until" =>
                \E q \in (vs[i].low + 1)..vs[i].top : ls[q].name = s[1]
      BY <1>1, <1>3, <1>21 DEF Noted
    <3>2. ASSUME NEW i \in 1..K, NEW q \in (vs[i].low + 1)..vs[i].top PROVE ls2[q] = ls[q]
      <4>1. i < L
        BY <1>3
      <4>2. Inside(vs[i], vs[L])
        BY <4>1, <1>1, <1>3, <1>21 DEF Nested
      <4>3. vs[i].top <= vs[L].low
        BY <4>2 DEF Inside
      <4>4. vs[i].top \in Nat /\ vs[i].low \in Nat /\ vs[L].low \in Nat
        BY <1>3, <1>5
      <4>5. q \in 1..vs[L].low
        <5> DEFINE lo == vs[i].low
                   hi == vs[i].top
                   ll == vs[L].low
        <5>1. hi \in Nat /\ lo \in Nat /\ ll \in Nat /\ hi <= ll /\ q \in (lo + 1)..hi
          BY <4>3, <4>4
        <5> HIDE DEF lo, hi, ll
        <5>2. q \in 1..ll
          BY ONLY <5>1
        <5> QED BY <5>2 DEF ll
      <4> QED BY <4>5, <1>2
    <3>3. ASSUME NEW i \in 1..K, s[2] = vs2[i].bid, vs2[i].kind # "until"
          PROVE  \E q \in (vs2[i].low + 1)..vs2[i].top : ls2[q].name = s[1]
      <4>1. vs2[i] = vs[i]
        BY <1>4
      <4>2. PICK q \in (vs[i].low + 1)..vs[i].top : ls[q].name = s[1]
        BY <3>1, <3>3, <4>1
      <4>3. ls2[q] = ls[q]
        BY <3>2
      <4> QED BY <4>1, <4>2, <4>3
    <3> QED BY <3>1, <3>3
  <2> QED BY <2>1, <1>2, <1>4 DEF Noted
<1> QED BY <1>8, <1>9, <1>11, <1>12 DEF JumpsGood, vs2, op2, L, K
-----------------------------------------------------------------------------
(* What a clamp does to the gotos. *)
Clamped(gs, gs2, from, mark) ==
  /\ gs2 \in Seq(GotoRec) /\ Len(gs2) = Len(gs)
  /\ \A j \in 1..Len(gs) :
       /\ gs2[j].name = gs[j].name /\ gs2[j].resolved = gs[j].resolved
       /\ gs2[j].ids = gs[j].ids /\ gs2[j].path = gs[j].path
       /\ gs2[j].nact \in Nat
       /\ j <= from => gs2[j] = gs[j]
       /\ j > from => gs2[j].nact = IF gs[j].nact > mark THEN mark ELSE gs[j].nact

LEMMA ClampFacts ==
  ASSUME NEW gs \in Seq(GotoRec), NEW mark \in Nat, fn \in FnRec
  PROVE  Clamped(gs, Clamp(gs, mark), fn.gotos, mark)
<1> DEFINE T(i) == i > fn.gotos /\ gs[i].nact > mark
           g2(i) == [gs[i] EXCEPT !.nact = mark]
           gs2 == [i \in 1..Len(gs) |-> IF T(i) THEN g2(i) ELSE gs[i]]
<1>1. fn.gotos \in Nat /\ Len(gs) \in Nat /\ DOMAIN gs = 1..Len(gs)
  BY DEF FnRec
<1>2. Clamp(gs, mark) = gs2
  BY <1>1, Zenon DEF Clamp
<1>3. \A i \in 1..Len(gs) : gs[i] \in GotoRec
  OBVIOUS
<1>4. ASSUME NEW i \in 1..Len(gs)
      PROVE  /\ g2(i) \in GotoRec /\ g2(i).name = gs[i].name /\ g2(i).resolved = gs[i].resolved
             /\ g2(i).ids = gs[i].ids /\ g2(i).path = gs[i].path /\ g2(i).nact = mark
  <2> DEFINE g == gs[i]
  <2>1. g \in GotoRec
    BY <1>3
  <2> HIDE DEF g
  <2>2. /\ [g EXCEPT !.nact = mark] \in GotoRec /\ [g EXCEPT !.nact = mark].name = g.name
        /\ [g EXCEPT !.nact = mark].resolved = g.resolved
        /\ [g EXCEPT !.nact = mark].ids = g.ids /\ [g EXCEPT !.nact = mark].path = g.path
        /\ [g EXCEPT !.nact = mark].nact = mark
    BY <2>1 DEF GotoRec
  <2> QED BY <2>2 DEF g
<1> HIDE DEF g2
<1>5. gs2 \in Seq(GotoRec) /\ Len(gs2) = Len(gs) /\ \A i \in 1..Len(gs) : gs2[i] = IF T(i) THEN g2(i) ELSE gs[i]
  <2>1. \A i \in 1..Len(gs) : (IF T(i) THEN g2(i) ELSE gs[i]) \in GotoRec
    BY <1>3, <1>4
  <2> QED BY <2>1, <1>1
<1>6. \A i \in 1..Len(gs) : gs[i].nact \in Nat
  BY GotoFields
<1> HIDE DEF gs2
<1>7. ASSUME NEW j \in 1..Len(gs)
      PROVE  /\ gs2[j].name = gs[j].name /\ gs2[j].resolved = gs[j].resolved
             /\ gs2[j].ids = gs[j].ids /\ gs2[j].path = gs[j].path
             /\ gs2[j].nact \in Nat
             /\ j <= fn.gotos => gs2[j] = gs[j]
             /\ j > fn.gotos => gs2[j].nact = IF gs[j].nact > mark THEN mark ELSE gs[j].nact
  <2>1. CASE T(j)
    <3>1. gs2[j] = g2(j) /\ j > fn.gotos /\ gs[j].nact > mark
      BY <2>1, <1>5
    <3> QED BY <3>1, <1>1, <1>4
  <2>2. CASE ~T(j)
    <3>1. gs2[j] = gs[j]
      BY <2>2, <1>5
    <3> QED BY <2>2, <3>1, <1>1, <1>6
  <2> QED BY <2>1, <2>2
<1>8. Clamped(gs, gs2, fn.gotos, mark)
  BY <1>5, <1>7 DEF Clamped
<1> QED BY <1>2, <1>8

(* Agreement survives a clamp to the scope that is left. *)
LEMMA AgreesClamped ==
  ASSUME NEW g \in GotoRec, NEW h \in GotoRec, h.ids = g.ids,
         NEW ds \in Seq(DeclRec), NEW mark \in 0..Len(ds), Agrees(g, ds),
         h.nact = IF g.nact > mark THEN mark ELSE g.nact
  PROVE  Agrees(h, Front(ds, mark))
<1> DEFINE es == Front(ds, mark)
<1>1. Len(es) = mark /\ Len(ds) \in Nat /\ \A j \in 1..mark : es[j] = ds[j]
  BY FrontFacts
<1>2. g.nact \in Nat /\ h.nact \in Nat /\ Len(g.ids) \in Nat /\ mark \in Nat /\ mark <= Len(ds)
  BY <1>1 DEF GotoRec
<1>3. /\ g.nact <= Len(g.ids) /\ g.nact <= Len(ds)
      /\ \A k \in 1..g.nact : g.ids[k] = ds[k].id
      /\ \A k \in (g.nact + 1)..Len(ds) : \A q \in 1..Len(g.ids) : g.ids[q] < ds[k].id
  BY DEF Agrees
<1>4. h.nact <= mark /\ h.nact <= g.nact /\ (h.nact < mark => h.nact = g.nact)
  BY <1>2
<1> HIDE DEF es
<1>5. h.nact <= Len(g.ids) /\ h.nact <= Len(es)
  BY <1>1, <1>2, <1>3, <1>4
<1>6. \A k \in 1..h.nact : g.ids[k] = es[k].id
  BY <1>1, <1>2, <1>3, <1>4
<1>7. ASSUME NEW k \in (h.nact + 1)..Len(es), NEW q \in 1..Len(g.ids) PROVE g.ids[q] < es[k].id
  <2>1. h.nact = g.nact /\ k \in (g.nact + 1)..Len(ds) /\ k \in 1..mark
    BY <1>1, <1>2, <1>4
  <2>2. es[k] = ds[k]
    BY <2>1, <1>1
  <2> QED BY <2>1, <2>2, <1>3
<1>8. Agrees(h, es)
  BY <1>5, <1>6, <1>7 DEF Agrees
<1> QED BY <1>8 DEF es

(* The frames fs2 that a rewind to mark leaves. *)
Rewinds(fs, fs2, mark) ==
  /\ Len(fs2) = Len(fs)
  /\ fs[Len(fs)].decls \in Seq(DeclRec) /\ mark \in 0..Len(fs[Len(fs)].decls)
  /\ \A l \in 1..Len(fs) : l # Len(fs) => fs2[l].decls = fs[l].decls
  /\ fs2[Len(fs)].decls = Front(fs[Len(fs)].decls, mark)

(* A block that is no function ends. *)
LEMMA JBlockClosed ==
  ASSUME NEW vs, NEW fs, NEW op, NEW ls, NEW gs, NEW b, NEW f, NEW n \in Nat, NEW sn,
         JumpsGood(vs, fs, op, ls, gs, b, f, n, sn),
         op[Len(op)].kind \in {"do", "repeat", "until"},
         NEW fs2, NEW mark, mark = op[Len(op)].mark, Rewinds(fs, fs2, mark),
         NEW gs2, Clamped(gs, gs2, f.gotos, mark),
         NEW ls2 \in Seq(LabelRec), Len(ls2) = op[Len(op)].labels,
         \A q \in 1..Len(ls2) : ls2[q] = ls[q],
         NEW b2, b2 = op[Len(op)].blk
  PROVE  /\ Len(op) > 1
         /\ JumpsGood(Front(vs, Len(vs) - 1), fs2, Front(op, Len(vs) - 1), ls2, gs2, b2, f, n, sn)
<1> DEFINE L == Len(vs)
           K == L - 1
           D == Len(fs)
<1>1. /\ vs \in Seq(ViewRec) /\ op \in Seq(BlockRec) /\ Len(vs) = Len(op) /\ Len(op) \in Nat /\ Len(op) >= 1
      /\ b \in BlkRec /\ f \in FnRec /\ ls \in Seq(LabelRec) /\ gs \in Seq(GotoRec)
      /\ Len(ls) \in Nat /\ Len(gs) \in Nat
      /\ Shows(vs, op, b, f, Len(ls), Len(fs)) /\ Nested(vs, fs, n, Len(gs))
      /\ Pending(vs, fs, gs, n) /\ Noted(vs, ls, sn, n)
  BY JumpsParts
<1>2. TopView(vs, fs, op, ls, gs, b, f, L)
  BY TopFacts
<1> HIDE DEF L
<1>3. /\ L \in Nat /\ L >= 1 /\ L \in 1..L /\ Len(op) = L
      /\ vs[L].kind = op[L].kind /\ vs[L].mark = op[L].mark /\ vs[L].low = op[L].labels
      /\ vs[L].fgotos = f.gotos /\ vs[L].flabels = f.labels
      /\ vs[L].lev = D /\ D \in Nat /\ D >= 1
      /\ \A i \in 1..L :
              /\ vs[i].lev \in 1..D /\ vs[i].gotos <= Len(gs)
              /\ vs[i].fgotos <= vs[i].gotos
              /\ vs[i].nact <= Len(fs[vs[i].lev].decls) /\ vs[i].mark <= Len(fs[vs[i].lev].decls)
              /\ vs[i].kind # "until" => vs[i].mark <= vs[i].nact
              /\ vs[i].lev = D => vs[i].fgotos = f.gotos /\ vs[i].flabels = f.labels
              /\ vs[i].lev = D /\ i # L => vs[i].kind # "until" /\ vs[i].nact <= vs[L].mark
              /\ vs[i].lev # D => vs[i].gotos <= f.gotos /\ vs[i].lev < D /\ i # L
  BY <1>2 DEF TopView
<1>4. L >= 2 /\ L \in 2..L
  <2>1. L # 1
    BY <1>1, <1>3 DEF Nested
  <2> QED BY <2>1, <1>3
<1>5. K \in Nat /\ K >= 1 /\ K \in 1..L /\ L = K + 1 /\ K \in 1..K
  BY <1>4, <1>3
<1>6. vs[K].lev = D
  <2>1. vs[L].lev = vs[L - 1].lev + IF vs[L].kind = "function" THEN 1 ELSE 0
    BY <1>1, <1>4 DEF Nested, L
  <2>2. vs[L].kind # "function" /\ vs[K].lev \in 1..D
    BY <1>3, <1>5
  <2>3. vs[L - 1] = vs[K]
    OBVIOUS
  <2>4. vs[L].lev = vs[K].lev + 0
    BY <2>1, <2>2, <2>3
  <2> QED BY <2>2, <2>4, <1>3
<1>7. \A i \in 1..L :
        /\ vs[i].bid \in Nat /\ vs[i].mark \in Nat /\ vs[i].low \in Nat
        /\ vs[i].top \in Nat /\ vs[i].lev \in Nat /\ vs[i].gotos \in Nat /\ vs[i].nact \in Nat
        /\ vs[i].fgotos \in Nat /\ vs[i].flabels \in Nat
  BY <1>1, ViewFields DEF L
<1>8. Shown(vs[K], op[L].blk, op[L].fn, op[L].labels)
  <2>1. K \in 1..(Len(op) - 1) /\ K + 1 = L
    BY <1>3, <1>5
  <2> QED BY <2>1, <1>1 DEF Shows
<1>9. Shown(vs[K], b2, f, Len(ls2))
  <2>1. vs[K].fgotos = f.gotos /\ vs[K].flabels = f.labels
    BY <1>3, <1>5, <1>6
  <2>2. Len(ls2) = op[L].labels /\ b2 = op[L].blk
    BY <1>3
  <2> QED BY <2>1, <2>2, <1>8 DEF Shown
<1>10. b2 \in BlkRec
  <2>1. op[L] \in BlockRec /\ b2 = op[L].blk
    BY <1>1, <1>3
  <2> QED BY <2>1 DEF BlockRec
<1>11. /\ Len(fs2) = D /\ fs[D].decls \in Seq(DeclRec) /\ mark \in 0..Len(fs[D].decls)
       /\ \A l \in 1..D : l # D => fs2[l].decls = fs[l].decls
       /\ fs2[D].decls = Front(fs[D].decls, mark)
  BY DEF Rewinds
<1>12. /\ gs2 \in Seq(GotoRec) /\ Len(gs2) = Len(gs)
       /\ \A j \in 1..Len(gs) :
            /\ gs2[j].ids = gs[j].ids /\ gs2[j].path = gs[j].path
            /\ j <= f.gotos => gs2[j] = gs[j]
            /\ j > f.gotos => gs2[j].nact = IF gs[j].nact > mark THEN mark ELSE gs[j].nact
  BY DEF Clamped
<1>13. Len(fs2[D].decls) = mark /\ vs[L].mark = mark /\ mark \in Nat
  BY <1>3, <1>11, FrontFacts
<1>14. f.gotos \in Nat
  BY <1>1 DEF FnRec
<1> HIDE DEF K, D
<1>15. ASSUME NEW i \in 1..K
       PROVE  /\ vs[i].gotos <= Len(gs2)
              /\ vs[i].mark <= Len(fs2[vs[i].lev].decls) /\ vs[i].nact <= Len(fs2[vs[i].lev].decls)
              /\ \A j \in 1..Len(gs2) :
                   /\ Within(vs, i, j) => Agrees(gs2[j], fs2[vs[i].lev].decls)
                   /\ vs[i].lev < vs[L].lev /\ (vs[i].lev < vs[K].lev => j <= vs[K].fgotos) =>
                         j <= vs[L].fgotos
  <2>1. i \in 1..L /\ i # L /\ i < L
    BY <1>5
  <2>2. vs[i].gotos <= Len(gs2)
    BY <2>1, <1>3, <1>12
  <2>3. \A j \in 1..Len(gs2) : vs[i].lev < vs[L].lev /\ (vs[i].lev < vs[K].lev => j <= vs[K].fgotos) =>
                         j <= vs[L].fgotos
    <3>1. vs[K].fgotos = f.gotos
      BY <1>3, <1>5, <1>6
    <3> QED BY <3>1, <1>3, <1>6
  <2>4. CASE vs[i].lev = D
    <3>1. vs[i].mark <= vs[i].nact /\ vs[i].nact <= vs[L].mark
      BY <2>1, <2>4, <1>3
    <3>2. vs[i].mark \in Nat /\ vs[i].nact \in Nat
      BY <2>1, <1>7
    <3>3. vs[i].mark <= mark /\ vs[i].nact <= mark
      BY <3>1, <3>2, <1>13
    <3>4. ASSUME NEW j \in 1..Len(gs2), Within(vs, i, j) PROVE Agrees(gs2[j], fs2[D].decls)
      <4>1. j \in 1..Len(gs)
        BY <1>12
      <4>2. Agrees(gs[j], fs[D].decls)
        BY <2>1, <2>4, <3>4, <4>1, <1>1 DEF Pending, L
      <4>3. j > vs[i].gotos
        BY <3>4 DEF Within
      <4>4. vs[i].fgotos = f.gotos /\ vs[i].fgotos <= vs[i].gotos /\ vs[i].gotos \in Nat
        BY <2>1, <2>4, <1>3, <1>7
      <4>5. j > f.gotos
        BY <4>1, <4>3, <4>4, <1>14
      <4>6. gs[j] \in GotoRec /\ gs2[j] \in GotoRec
        BY <4>1, <1>1, <1>12
      <4>7. gs2[j].ids = gs[j].ids /\ gs2[j].nact = IF gs[j].nact > mark THEN mark ELSE gs[j].nact
        BY <4>1, <4>5, <1>12
      <4>8. Agrees(gs2[j], Front(fs[D].decls, mark))
        BY ONLY <4>2, <4>6, <4>7, <1>11, AgreesClamped
      <4> QED BY <4>8, <1>11
    <3> QED BY <2>2, <2>3, <2>4, <3>3, <3>4, <1>13
  <2>5. CASE vs[i].lev # D
    <3>1. vs[i].lev \in 1..D /\ vs[i].lev < D
      BY <2>1, <2>5, <1>3
    <3>2. fs2[vs[i].lev].decls = fs[vs[i].lev].decls
      BY <2>5, <3>1, <1>11
    <3>3. ASSUME NEW j \in 1..Len(gs2), Within(vs, i, j) PROVE Agrees(gs2[j], fs2[vs[i].lev].decls)
      <4>1. j \in 1..Len(gs)
        BY <1>12
      <4>2. Agrees(gs[j], fs[vs[i].lev].decls)
        BY <2>1, <3>3, <4>1, <1>1 DEF Pending, L
      <4>3. L \in (i + 1)..L
        BY <2>1, <1>3
      <4>4. j <= vs[L].fgotos
        BY <3>1, <3>3, <4>3, <1>3 DEF Within, L
      <4>5. gs2[j] = gs[j]
        BY <4>1, <4>4, <1>3, <1>12
      <4> QED BY <4>2, <4>5, <3>2
    <3> QED BY <2>1, <2>2, <2>3, <3>2, <3>3, <1>3
  <2> QED BY <2>4, <2>5
<1>16. Leaves(vs, L, fs2, ls, ls2, gs, gs2)
  <2>1. Len(fs2) = vs[L - 1].lev /\ K = L - 1 /\ Len(ls2) = vs[L].low
    BY <1>3, <1>6, <1>11 DEF K
  <2>2. Len(gs2) <= Len(gs) /\ 1..Len(gs2) = 1..Len(gs)
    BY <1>1, <1>12
  <2> QED BY <2>1, <2>2, <1>4, <1>12, <1>15, <1>3 DEF Leaves
<1>17. JumpsGood(Front(vs, Len(vs) - 1), fs2, Front(op, Len(vs) - 1), ls2, gs2, b2, f, n, sn)
  <2>1. Leaves(vs, Len(vs), fs2, ls, ls2, gs, gs2) /\ Shown(vs[Len(vs) - 1], b2, f, Len(ls2)) /\ f \in FnRec
    BY <1>1, <1>9, <1>16 DEF L, K
  <2> QED BY ONLY <2>1, <1>10, JPopped, JumpsGood(vs, fs, op, ls, gs, b, f, n, sn), n \in Nat
<1> QED BY <1>3, <1>4, <1>17
-----------------------------------------------------------------------------
(* What the end of a function leaves of frames and gotos. *)
Returns(fs, fs2, gs, gs2, from) ==
  /\ Len(fs2) = Len(fs) - 1 /\ \A l \in 1..(Len(fs) - 1) : fs2[l] = fs[l]
  /\ gs2 \in Seq(GotoRec) /\ Len(gs2) = from /\ \A j \in 1..Len(gs2) : gs2[j] = gs[j]

(* What the end of a block leaves of the labels. *)
Forgets(ls, ls2, from) ==
  ls2 \in Seq(LabelRec) /\ Len(ls2) = from /\ \A q \in 1..Len(ls2) : ls2[q] = ls[q]

(* A function ends. *)
LEMMA JFunctionClosed ==
  ASSUME NEW vs, NEW fs, NEW op, NEW ls, NEW gs, NEW b, NEW f, NEW n \in Nat, NEW sn,
         JumpsGood(vs, fs, op, ls, gs, b, f, n, sn),
         op[Len(op)].kind = "function",
         NEW fs2, NEW gs2, Returns(fs, fs2, gs, gs2, f.gotos),
         NEW ls2, Forgets(ls, ls2, op[Len(op)].labels),
         NEW b2, b2 = op[Len(op)].blk, NEW f2, f2 = op[Len(op)].fn
  PROVE  /\ Len(op) > 1 /\ Len(fs) > 1
         /\ JumpsGood(Front(vs, Len(vs) - 1), fs2, Front(op, Len(vs) - 1), ls2, gs2, b2, f2, n, sn)
<1>0. /\ Len(fs2) = Len(fs) - 1 /\ \A l \in 1..(Len(fs) - 1) : fs2[l] = fs[l]
      /\ gs2 \in Seq(GotoRec) /\ Len(gs2) = f.gotos /\ \A j \in 1..Len(gs2) : gs2[j] = gs[j]
      /\ ls2 \in Seq(LabelRec) /\ Len(ls2) = op[Len(op)].labels
      /\ \A q \in 1..Len(ls2) : ls2[q] = ls[q]
  BY DEF Returns, Forgets
<1> USE <1>0
<1> DEFINE L == Len(vs)
           K == L - 1
           D == Len(fs)
<1>1. /\ vs \in Seq(ViewRec) /\ op \in Seq(BlockRec) /\ Len(vs) = Len(op) /\ Len(op) \in Nat /\ Len(op) >= 1
      /\ b \in BlkRec /\ f \in FnRec /\ ls \in Seq(LabelRec) /\ gs \in Seq(GotoRec)
      /\ Len(ls) \in Nat /\ Len(gs) \in Nat
      /\ Shows(vs, op, b, f, Len(ls), Len(fs)) /\ Nested(vs, fs, n, Len(gs))
      /\ Pending(vs, fs, gs, n) /\ Noted(vs, ls, sn, n)
  BY JumpsParts
<1>2. TopView(vs, fs, op, ls, gs, b, f, L)
  BY TopFacts
<1> HIDE DEF L
<1>3. /\ L \in Nat /\ L >= 1 /\ L \in 1..L /\ Len(op) = L
      /\ vs[L].kind = op[L].kind /\ vs[L].low = op[L].labels
      /\ vs[L].gotos = b.gotos /\ vs[L].fgotos = f.gotos
      /\ vs[L].lev = D /\ D \in Nat /\ D >= 1
      /\ \A i \in 1..L :
              /\ vs[i].lev \in 1..D /\ vs[i].gotos <= Len(gs) /\ vs[i].fgotos <= vs[i].gotos
              /\ vs[i].nact <= Len(fs[vs[i].lev].decls) /\ vs[i].mark <= Len(fs[vs[i].lev].decls)
              /\ vs[i].lev # D => vs[i].gotos <= f.gotos /\ vs[i].lev < D /\ i # L
              /\ i # L => Inside(vs[i], vs[L])
  BY <1>2 DEF TopView
<1>4. L >= 2 /\ L \in 2..L
  <2>1. L # 1
    BY <1>1, <1>3 DEF Nested
  <2> QED BY <2>1, <1>3
<1>5. K \in Nat /\ K >= 1 /\ K \in 1..L /\ L = K + 1 /\ K \in 1..K
  BY <1>4, <1>3
<1>6. vs[K].lev = D - 1
  <2>1. vs[L].lev = vs[L - 1].lev + IF vs[L].kind = "function" THEN 1 ELSE 0
    BY <1>1, <1>4 DEF Nested, L
  <2>2. vs[L].kind = "function" /\ vs[K].lev \in 1..D
    BY <1>3, <1>5
  <2>3. vs[L - 1] = vs[K]
    OBVIOUS
  <2>4. vs[L].lev = vs[K].lev + 1
    BY <2>1, <2>2, <2>3
  <2> QED BY <2>2, <2>4, <1>3
<1>7. \A i \in 1..L :
        /\ vs[i].lev \in Nat /\ vs[i].gotos \in Nat /\ vs[i].fgotos \in Nat
  BY <1>1, ViewFields DEF L
<1>8. Shown(vs[K], op[L].blk, op[L].fn, op[L].labels)
  <2>1. K \in 1..(Len(op) - 1) /\ K + 1 = L
    BY <1>3, <1>5
  <2> QED BY <2>1, <1>1 DEF Shows
<1>9. Shown(vs[K], b2, f2, Len(ls2))
  BY <1>3, <1>8
<1>10. b2 \in BlkRec /\ f2 \in FnRec
  <2>1. op[L] \in BlockRec /\ b2 = op[L].blk /\ f2 = op[L].fn
    BY <1>1, <1>3
  <2> QED BY <2>1 DEF BlockRec
<1>11. D > 1
  <2>1. vs[K].lev \in 1..D
    BY <1>3, <1>5
  <2> QED BY <2>1, <1>6, <1>3
<1>12. f.gotos \in Nat /\ f.gotos <= Len(gs)
  BY <1>1, <1>3, <1>7 DEF FnRec
<1>13. 1..Len(gs2) \subseteq 1..Len(gs) /\ Len(gs2) <= Len(gs)
  BY <1>1, <1>12
<1> HIDE DEF K, D
<1>15. ASSUME NEW i \in 1..K
       PROVE  /\ vs[i].gotos <= Len(gs2)
              /\ vs[i].mark <= Len(fs2[vs[i].lev].decls) /\ vs[i].nact <= Len(fs2[vs[i].lev].decls)
              /\ \A j \in 1..Len(gs2) :
                   /\ Within(vs, i, j) => Agrees(gs2[j], fs2[vs[i].lev].decls)
                   /\ vs[i].lev < vs[L].lev /\ (vs[i].lev < vs[K].lev => j <= vs[K].fgotos) =>
                         j <= vs[L].fgotos
  <2>1. i \in 1..L /\ i # L /\ i < L
    BY <1>5
  <2>2. vs[i].lev <= D - 1
    <3>1. CASE i = K
      BY <3>1, <1>6, <1>11, <1>3
    <3>2. CASE i # K
      <4>1. i < K
        BY <3>2, <1>5
      <4>2. Inside(vs[i], vs[K])
        BY <4>1, <2>1, <1>1, <1>5 DEF Nested, L
      <4> QED BY <4>2, <1>6 DEF Inside
    <3> QED BY <3>1, <3>2
  <2>3. vs[i].lev \in 1..(D - 1) /\ vs[i].lev # D /\ vs[i].lev \in 1..D
    BY <2>1, <2>2, <1>3, <1>7
  <2>4. vs[i].gotos <= Len(gs2)
    BY <2>1, <2>3, <1>3
  <2>5. fs2[vs[i].lev] = fs[vs[i].lev]
    BY <2>3 DEF D
  <2>6. vs[i].mark <= Len(fs2[vs[i].lev].decls) /\ vs[i].nact <= Len(fs2[vs[i].lev].decls)
    BY <2>1, <2>5, <1>3
  <2>7. \A j \in 1..Len(gs2) : j <= vs[L].fgotos
    BY <1>3, <1>12
  <2>8. ASSUME NEW j \in 1..Len(gs2), Within(vs, i, j) PROVE Agrees(gs2[j], fs2[vs[i].lev].decls)
    <3>1. j \in 1..Len(gs) /\ gs2[j] = gs[j]
      BY <1>13
    <3>2. Agrees(gs[j], fs[vs[i].lev].decls)
      BY <2>1, <2>8, <3>1, <1>1 DEF Pending, L
    <3> QED BY <3>1, <3>2, <2>5
  <2> QED BY <2>4, <2>6, <2>7, <2>8
<1>16. Leaves(vs, L, fs2, ls, ls2, gs, gs2)
  <2>1. Len(fs2) = vs[L - 1].lev /\ K = L - 1 /\ Len(ls2) = vs[L].low
    BY <1>3, <1>6 DEF K, D
  <2> QED BY <2>1, <1>4, <1>13, <1>15, <1>3 DEF Leaves
<1>17. JumpsGood(Front(vs, Len(vs) - 1), fs2, Front(op, Len(vs) - 1), ls2, gs2, b2, f2, n, sn)
  <2>1. Leaves(vs, Len(vs), fs2, ls, ls2, gs, gs2) /\ Shown(vs[Len(vs) - 1], b2, f2, Len(ls2))
    BY <1>9, <1>16 DEF L, K
  <2> QED BY ONLY <2>1, <1>10, JPopped, JumpsGood(vs, fs, op, ls, gs, b, f, n, sn), n \in Nat
<1> QED BY <1>3, <1>4, <1>11, <1>17 DEF D

(* What a block becomes whose labels are gone and whose condition is read. *)
Waiting(vs, K, L) ==
  [kind |-> "until", bid |-> vs[L].bid, mark |-> vs[L].mark, low |-> vs[L].low, top |-> vs[L].low,
   lev |-> vs[L].lev, gotos |-> vs[K].gotos, nact |-> vs[K].nact,
   fgotos |-> vs[L].fgotos, flabels |-> vs[L].flabels]

(* The blocks op where the one on top waits for its condition. *)
Waits(op, op2) ==
  /\ op2 \in Seq(BlockRec) /\ Len(op2) = Len(op)
  /\ \A i \in 1..Len(op) : op2[i].mark = op[i].mark /\ op2[i].labels = op[i].labels
                        /\ op2[i].blk = op[i].blk /\ op2[i].fn = op[i].fn /\ op2[i].bid = op[i].bid
  /\ \A i \in 1..Len(op) : op2[i].kind = IF i = Len(op) THEN "until" ELSE op[i].kind

(* The body of a repeat ends. *)
LEMMA JUntil ==
  ASSUME NEW vs, NEW fs, NEW op, NEW ls, NEW gs, NEW b, NEW f, NEW n \in Nat, NEW sn,
         JumpsGood(vs, fs, op, ls, gs, b, f, n, sn),
         op[Len(op)].kind = "repeat",
         NEW ls2, Forgets(ls, ls2, op[Len(op)].labels),
         NEW b2, b2 = op[Len(op)].blk,
         NEW op2, Waits(op, op2)
  PROVE  JumpsGood([vs EXCEPT ![Len(vs)] = Waiting(vs, Len(vs) - 1, Len(vs))],
                   fs, op2, ls2, gs, b2, f, n, sn)
<1>0. /\ ls2 \in Seq(LabelRec) /\ Len(ls2) = op[Len(op)].labels
      /\ \A q \in 1..Len(ls2) : ls2[q] = ls[q]
      /\ op2 \in Seq(BlockRec) /\ Len(op2) = Len(op)
      /\ \A i \in 1..Len(op) : op2[i].mark = op[i].mark /\ op2[i].labels = op[i].labels
                               /\ op2[i].blk = op[i].blk /\ op2[i].fn = op[i].fn /\ op2[i].bid = op[i].bid
      /\ \A i \in 1..Len(op) : op2[i].kind = IF i = Len(op) THEN "until" ELSE op[i].kind
  BY DEF Forgets, Waits
<1> USE <1>0
<1> DEFINE L == Len(vs)
           K == L - 1
           D == Len(fs)
           e == Waiting(vs, K, L)
           vs2 == [vs EXCEPT ![L] = e]
<1>1. /\ vs \in Seq(ViewRec) /\ op \in Seq(BlockRec) /\ Len(vs) = Len(op) /\ Len(op) \in Nat /\ Len(op) >= 1
      /\ b \in BlkRec /\ f \in FnRec /\ ls \in Seq(LabelRec) /\ gs \in Seq(GotoRec)
      /\ Len(ls) \in Nat /\ Len(gs) \in Nat
      /\ Shows(vs, op, b, f, Len(ls), Len(fs)) /\ Nested(vs, fs, n, Len(gs))
      /\ Pending(vs, fs, gs, n) /\ Noted(vs, ls, sn, n)
  BY ONLY JumpsGood(vs, fs, op, ls, gs, b, f, n, sn), n \in Nat, JumpsParts
<1>2. TopView(vs, fs, op, ls, gs, b, f, L)
  BY TopFacts
<1>21. Len(vs) = L
  OBVIOUS
<1> HIDE DEF L
<1>3. /\ L \in Nat /\ L >= 1 /\ L \in 1..L /\ Len(op) = L
      /\ vs[L].kind = op[L].kind /\ vs[L].low = op[L].labels
      /\ vs[L].gotos = b.gotos /\ vs[L].fgotos = f.gotos /\ vs[L].flabels = f.labels
      /\ vs[L].lev = D /\ D \in Nat /\ D >= 1
      /\ \A i \in 1..L :
              /\ vs[i].lev \in 1..D /\ vs[i].gotos <= Len(gs) /\ vs[i].fgotos <= vs[i].gotos
              /\ vs[i].nact <= Len(fs[vs[i].lev].decls) /\ vs[i].mark <= Len(fs[vs[i].lev].decls)
              /\ vs[i].flabels <= vs[i].low /\ vs[i].low <= vs[i].top
              /\ vs[i].lev = D => vs[i].fgotos = f.gotos /\ vs[i].flabels = f.labels
              /\ vs[i].lev # D => vs[i].gotos <= f.gotos /\ vs[i].lev < D /\ i # L
              /\ i # L => Inside(vs[i], vs[L]) /\ vs[i].top <= vs[L].low
  BY <1>2 DEF TopView
<1>4. L >= 2 /\ L \in 2..L
  <2>1. L # 1
    BY <1>1, <1>3 DEF Nested
  <2> QED BY <2>1, <1>3
<1>5. K \in Nat /\ K >= 1 /\ K \in 1..L /\ L = K + 1 /\ K \in 1..K /\ K < L /\ 1..L = (1..K) \cup {L}
  BY <1>4, <1>3
<1>6. vs[K].lev = D /\ vs[K].fgotos = f.gotos /\ vs[K].flabels = f.labels
  <2>1. vs[L].lev = vs[L - 1].lev + IF vs[L].kind = "function" THEN 1 ELSE 0
    BY <1>1, <1>4 DEF Nested, L
  <2>2. vs[L].kind # "function" /\ vs[K].lev \in 1..D
    BY <1>3, <1>5
  <2>3. vs[L - 1] = vs[K]
    OBVIOUS
  <2>4. vs[L].lev = vs[K].lev + 0
    BY <2>1, <2>2, <2>3
  <2>5. vs[K].lev = D
    BY <2>2, <2>4, <1>3
  <2> QED BY <2>5, <1>3, <1>5
<1>7. \A i \in 1..L :
        /\ vs[i].bid \in Nat /\ vs[i].mark \in Nat /\ vs[i].low \in Nat
        /\ vs[i].top \in Nat /\ vs[i].lev \in Nat /\ vs[i].gotos \in Nat /\ vs[i].nact \in Nat
        /\ vs[i].fgotos \in Nat /\ vs[i].flabels \in Nat
  BY <1>1, ViewFields DEF L
<1>8. Shown(vs[K], op[L].blk, op[L].fn, op[L].labels)
  <2>1. K \in 1..(Len(op) - 1) /\ K + 1 = L
    BY <1>3, <1>5
  <2> QED BY <2>1, <1>1 DEF Shows
<1>9. /\ e \in ViewRec /\ e.kind = "until" /\ e.bid = vs[L].bid /\ e.mark = vs[L].mark
      /\ e.low = vs[L].low /\ e.top = vs[L].low /\ e.lev = vs[L].lev
      /\ e.gotos = vs[K].gotos /\ e.nact = vs[K].nact
      /\ e.fgotos = vs[L].fgotos /\ e.flabels = vs[L].flabels
  <2>1. /\ e.kind = "until" /\ e.bid = vs[L].bid /\ e.mark = vs[L].mark
        /\ e.low = vs[L].low /\ e.top = vs[L].low /\ e.lev = vs[L].lev
        /\ e.gotos = vs[K].gotos /\ e.nact = vs[K].nact
        /\ e.fgotos = vs[L].fgotos /\ e.flabels = vs[L].flabels
    BY DEF Waiting
  <2>2. /\ vs[L].bid \in Nat /\ vs[L].mark \in Nat /\ vs[L].low \in Nat /\ vs[L].lev \in Nat
        /\ vs[K].gotos \in Nat /\ vs[K].nact \in Nat
        /\ vs[L].fgotos \in Nat /\ vs[L].flabels \in Nat
    BY <1>3, <1>5, <1>7
  <2>3. e \in ViewRec
    <3> HIDE DEF K
    <3>1. "until" \in Kinds
      BY DEF Kinds
    <3> QED BY ONLY <2>2, <3>1 DEF Waiting, ViewRec, e
  <2> QED BY <2>1, <2>3
<1>10. Shown(e, b2, f, Len(ls2))
  <2>1. vs[K].gotos = b2.gotos /\ vs[K].nact = b2.nact
    BY <1>3, <1>8 DEF Shown
  <2> QED BY <2>1, <1>3, <1>9 DEF Shown
<1>11. b2 \in BlkRec
  <2>1. op[L] \in BlockRec /\ b2 = op[L].blk
    BY <1>1, <1>3
  <2> QED BY <2>1 DEF BlockRec
<1> HIDE DEF e
<1>12. /\ vs2 \in Seq(ViewRec) /\ Len(vs2) = L /\ vs2[L] = e /\ \A i \in 1..L : i # L => vs2[i] = vs[i]
  BY <1>1, <1>3, <1>9, <1>21, ChangeFacts
<1>13. \A i \in 1..K : vs2[i] = vs[i] /\ i \in 1..L /\ i < L
  BY <1>5, <1>12
<1> HIDE DEF K, D, vs2
<1>14. Shows(vs2, op2, b2, f, Len(ls2), Len(fs))
  <2>1. \A i \in 1..L : vs[i].kind = op[i].kind /\ vs[i].bid = op[i].bid
                        /\ vs[i].mark = op[i].mark /\ vs[i].low = op[i].labels
    BY <1>1, <1>3 DEF Shows
  <2>2. \A i \in 1..L : vs2[i].kind = op2[i].kind /\ vs2[i].bid = op2[i].bid
                        /\ vs2[i].mark = op2[i].mark /\ vs2[i].low = op2[i].labels
    <3>1. ASSUME NEW i \in 1..L PROVE vs2[i].kind = op2[i].kind
      BY <2>1, <1>3, <1>9, <1>12
    <3>2. ASSUME NEW i \in 1..L
          PROVE vs2[i].bid = op2[i].bid /\ vs2[i].mark = op2[i].mark /\ vs2[i].low = op2[i].labels
      <4>1. vs2[i].bid = vs[i].bid /\ vs2[i].mark = vs[i].mark /\ vs2[i].low = vs[i].low
        BY <1>9, <1>12
      <4> QED BY <4>1, <2>1, <1>3
    <3> QED BY <3>1, <3>2
  <2>3. \A i \in 1..K : Shown(vs2[i], op2[i + 1].blk, op2[i + 1].fn, op2[i + 1].labels)
    <3> SUFFICES ASSUME NEW i \in 1..K PROVE Shown(vs2[i], op2[i + 1].blk, op2[i + 1].fn, op2[i + 1].labels)
      OBVIOUS
    <3>1. i \in 1..(Len(op) - 1) /\ i + 1 \in 1..Len(op)
      BY <1>3, <1>5
    <3>2. Shown(vs[i], op[i + 1].blk, op[i + 1].fn, op[i + 1].labels)
      BY <3>1, <1>1 DEF Shows
    <3> QED BY <3>1, <3>2, <1>13
  <2>4. Len(op2) = L /\ L - 1 = K
    BY <1>3 DEF K
  <2>5. vs2[L].lev = Len(fs)
    BY <1>3, <1>9, <1>12 DEF D
  <2> QED BY <1>1, <1>3, <1>10, <1>11, <1>12, <2>2, <2>3, <2>4, <2>5 DEF Shows
<1>15. \A i \in 1..K : Inside(vs[i], e)
  <2> SUFFICES ASSUME NEW i \in 1..K PROVE Inside(vs[i], e)
    OBVIOUS
  <2>1. Inside(vs[i], vs[L]) /\ i \in 1..L
    BY <1>3, <1>13
  <2>2. vs[i].gotos <= e.gotos
    <3>1. CASE i = K
      BY <3>1, <1>5, <1>7, <1>9
    <3>2. CASE i # K
      <4>1. i < K
        BY <3>2, <1>5
      <4>2. Inside(vs[i], vs[K])
        BY <4>1, <2>1, <1>1, <1>5, <1>21 DEF Nested
      <4> QED BY <4>2, <1>9 DEF Inside
    <3> QED BY <3>1, <3>2
  <2> QED BY <2>1, <2>2, <1>9 DEF Inside
<1>16. Nested(vs2, fs, n, Len(gs))
  <2>1. vs2[1].lev = 1 /\ vs2[1].kind = "chunk"
    <3>1. 1 \in 1..K
      BY <1>5
    <3> QED BY <3>1, <1>1, <1>13 DEF Nested
  <2>2. ASSUME NEW i \in 2..L
        PROVE  /\ vs2[i].kind # "chunk"
               /\ vs2[i].lev = vs2[i - 1].lev + IF vs2[i].kind = "function" THEN 1 ELSE 0
               /\ vs2[i].kind = "until" =>
                     vs2[i].top = vs2[i].low /\ vs2[i].gotos = vs2[i - 1].gotos /\ vs2[i].nact = vs2[i - 1].nact
    <3>1. CASE i = L
      <4>1. vs2[i - 1] = vs[K] /\ vs2[i] = e
        BY <3>1, <1>5, <1>12, <1>13
      <4>2. e.lev = vs[K].lev /\ vs[K].lev \in Nat
        BY <1>3, <1>6, <1>9, <1>5, <1>7
      <4> QED BY <4>1, <4>2, <1>9
    <3>2. CASE i # L
      <4>1. i \in 1..K /\ i - 1 \in 1..K
        BY <3>2, <1>5
      <4>2. /\ vs[i].kind # "chunk"
            /\ vs[i].lev = vs[i - 1].lev + IF vs[i].kind = "function" THEN 1 ELSE 0
            /\ vs[i].kind = "until" =>
                  vs[i].top = vs[i].low /\ vs[i].gotos = vs[i - 1].gotos /\ vs[i].nact = vs[i - 1].nact
        BY <1>1, <1>21 DEF Nested
      <4>3. vs2[i] = vs[i] /\ vs2[i - 1] = vs[i - 1]
        BY <4>1, <1>13
      <4> QED BY <4>2, <4>3
    <3> QED BY <3>1, <3>2
  <2>3. ASSUME NEW i \in 1..L, NEW j \in 1..L, i < j PROVE Inside(vs2[i], vs2[j])
    <3>1. i \in 1..K
      BY <2>3, <1>5
    <3>2. CASE j = L
      BY <3>1, <3>2, <1>12, <1>13, <1>15
    <3>3. CASE j # L
      <4>1. j \in 1..K
        BY <3>3, <1>5
      <4>2. Inside(vs[i], vs[j])
        BY <2>3, <1>1, <1>21 DEF Nested
      <4> QED BY <3>1, <4>1, <4>2, <1>13
    <3> QED BY <3>2, <3>3
  <2>4. ASSUME NEW i \in 1..L PROVE Bounded(vs2[i], Len(fs), Len(fs[vs2[i].lev].decls), n, Len(gs))
    <3>1. CASE i = L
      <4> DEFINE nd == Len(fs[D].decls)
      <4>1. Bounded(vs[L], D, nd, n, Len(gs)) /\ vs[L].lev = D
        BY <1>1, <1>3, <1>21 DEF Nested, D
      <4>2. vs[K].nact <= nd /\ vs[K].gotos <= Len(gs) /\ vs[K].fgotos <= vs[K].gotos /\ vs[L].fgotos = vs[K].fgotos
        BY <1>3, <1>5, <1>6
      <4>3. vs[L].flabels <= vs[L].low /\ vs[L].low <= vs[L].low
        BY <1>3, <1>7
      <4> HIDE DEF nd
      <4>4. Bounded(e, D, nd, n, Len(gs))
        BY <4>1, <4>2, <4>3, <1>9 DEF Bounded
      <4> QED BY <3>1, <4>4, <1>3, <1>9, <1>12 DEF nd, D
    <3>2. CASE i # L
      <4>1. vs2[i] = vs[i]
        BY <3>2, <1>12
      <4> QED BY <4>1, <1>1, <1>21 DEF Nested
    <3> QED BY <3>1, <3>2
  <2> QED BY <2>1, <2>2, <2>3, <2>4, <1>12 DEF Nested
<1>17. ASSUME NEW i \in 1..K, NEW j \in 1..Len(gs) PROVE Within(vs2, i, j) <=> Within(vs, i, j)
  <2>1. \A k \in (i + 1)..L : vs2[k].lev = vs[k].lev /\ vs2[k].fgotos = vs[k].fgotos
    <3> SUFFICES ASSUME NEW k \in (i + 1)..L PROVE vs2[k].lev = vs[k].lev /\ vs2[k].fgotos = vs[k].fgotos
      OBVIOUS
    <3>1. k \in 1..L
      BY <1>5
    <3> QED BY <3>1, <1>9, <1>12
  <2>2. vs2[i] = vs[i]
    BY <1>13
  <2> QED BY <2>1, <2>2, <1>12, <1>21 DEF Within
<1>18. Pending(vs2, fs, gs, n)
  <2> SUFFICES ASSUME NEW j \in 1..Len(gs)
               PROVE  /\ gs[j].path \subseteq 0..n
                      /\ \A q \in 1..Len(gs[j].ids) : gs[j].ids[q] < n
                      /\ \A i \in 1..L :
                           /\ vs2[i].kind # "until" => (vs2[i].bid \in gs[j].path <=> Within(vs2, i, j))
                           /\ Within(vs2, i, j) => Agrees(gs[j], fs[vs2[i].lev].decls)
    BY <1>1, <1>12 DEF Pending
  <2>1. /\ gs[j].path \subseteq 0..n
        /\ \A q \in 1..Len(gs[j].ids) : gs[j].ids[q] < n
        /\ \A i \in 1..L :
             /\ vs[i].kind # "until" => (vs[i].bid \in gs[j].path <=> Within(vs, i, j))
             /\ Within(vs, i, j) => Agrees(gs[j], fs[vs[i].lev].decls)
    BY <1>1, <1>21 DEF Pending
  <2>2. ASSUME Within(vs2, L, j) PROVE Agrees(gs[j], fs[vs2[L].lev].decls)
    <3>1. j > vs[K].gotos
      BY <2>2, <1>9, <1>12 DEF Within
    <3>2. \A k \in (K + 1)..L : ~(vs[K].lev < vs[k].lev)
      BY <1>3, <1>5, <1>6
    <3>3. Within(vs, K, j)
      BY <3>1, <3>2, <1>21 DEF Within
    <3>4. Agrees(gs[j], fs[vs[K].lev].decls)
      BY <2>1, <3>3, <1>5
    <3> QED BY <3>4, <1>3, <1>6, <1>9, <1>12
  <2>3. ASSUME NEW i \in 1..L
        PROVE  /\ vs2[i].kind # "until" => (vs2[i].bid \in gs[j].path <=> Within(vs2, i, j))
               /\ Within(vs2, i, j) => Agrees(gs[j], fs[vs2[i].lev].decls)
    <3>1. CASE i = L
      BY <3>1, <2>2, <1>9, <1>12
    <3>2. CASE i # L
      <4>1. i \in 1..K /\ vs2[i] = vs[i]
        BY <3>2, <1>5, <1>12
      <4> QED BY <4>1, <2>1, <1>17
    <3> QED BY <3>1, <3>2
  <2> QED BY <2>1, <2>3
<1>19. Noted(vs2, ls2, sn, n)
  <2>1. ASSUME NEW s \in sn
        PROVE  /\ s[2] \in 0..n
               /\ \A i \in 1..L : s[2] = vs2[i].bid /\ vs2[i].kind # "until" =>
                     \E q \in (vs2[i].low + 1)..vs2[i].top : ls2[q].name = s[1]
    <3>1. /\ s[2] \in 0..n
          /\ \A i \in 1..L : s[2] = vs[i].bid /\ vs[i].kind # "until" =>
                \E q \in (vs[i].low + 1)..vs[i].top : ls[q].name = s[1]
      BY <1>1, <1>21 DEF Noted
    <3>2. ASSUME NEW i \in 1..K, NEW q \in (vs[i].low + 1)..vs[i].top PROVE ls2[q] = ls[q]
      <4>1. vs[i].top <= vs[L].low
        BY <1>3, <1>13
      <4>2. vs[i].top \in Nat /\ vs[i].low \in Nat /\ vs[L].low \in Nat
        BY <1>3, <1>7, <1>13
      <4>3. q \in 1..vs[L].low
        BY <4>1, <4>2
      <4> QED BY <4>3, <1>3
    <3>3. ASSUME NEW i \in 1..L, s[2] = vs2[i].bid, vs2[i].kind # "until"
          PROVE  \E q \in (vs2[i].low + 1)..vs2[i].top : ls2[q].name = s[1]
      <4>1. i # L
        BY <3>3, <1>9, <1>12
      <4>2. i \in 1..K /\ vs2[i] = vs[i]
        BY <4>1, <1>5, <1>12
      <4>3. PICK q \in (vs[i].low + 1)..vs[i].top : ls[q].name = s[1]
        BY <3>1, <3>3, <4>2
      <4>4. ls2[q] = ls[q]
        BY <3>2, <4>2
      <4> QED BY <4>2, <4>3, <4>4
    <3> QED BY <3>1, <3>3
  <2> QED BY <2>1, <1>12 DEF Noted
<1>20. JumpsGood(vs2, fs, op2, ls2, gs, b2, f, n, sn)
  BY <1>14, <1>16, <1>18, <1>19 DEF JumpsGood
<1> QED BY <1>20 DEF vs2, e, L, K
-----------------------------------------------------------------------------
(* The blocks of the current function are those with no function inside     *)
(* them: Enclosing, for any stack of blocks.                                *)
Innermost(op, i) == \A j \in (i + 1)..Len(op) : op[j].kind # "function"
Around(op) == {op[i].bid : i \in {k \in DOMAIN op : Innermost(op, k)}}

LEMMA LevelRule ==
  ASSUME NEW vs, NEW fs, NEW op, NEW ls, NEW gs, NEW b, NEW f, NEW n \in Nat, NEW sn,
         JumpsGood(vs, fs, op, ls, gs, b, f, n, sn), NEW i \in 1..Len(op)
  PROVE  Innermost(op, i) <=> vs[i].lev = Len(fs)
<1> DEFINE L == Len(op)
           D == Len(fs)
<1>1. /\ vs \in Seq(ViewRec) /\ op \in Seq(BlockRec) /\ Len(vs) = L /\ L \in Nat /\ L >= 1
      /\ Shows(vs, op, b, f, Len(ls), Len(fs)) /\ Nested(vs, fs, n, Len(gs))
  BY JumpsParts
<1>2. /\ vs[L].lev = D /\ D \in Nat /\ \A k \in 1..L : vs[k].lev \in 1..D
  <2>1. TopView(vs, fs, op, ls, gs, b, f, Len(vs))
    BY TopFacts
  <2> QED BY <2>1, <1>1 DEF TopView
<1>3. \A k \in 1..L : vs[k].kind = op[k].kind
  BY <1>1 DEF Shows
<1>4. \A k \in 2..L : vs[k].lev = vs[k - 1].lev + IF vs[k].kind = "function" THEN 1 ELSE 0
  BY <1>1 DEF Nested
<1>5. \A k \in 1..L, j \in 1..L : k < j => vs[k].lev <= vs[j].lev
  <2> SUFFICES ASSUME NEW k \in 1..L, NEW j \in 1..L, k < j PROVE vs[k].lev <= vs[j].lev
    OBVIOUS
  <2>1. Inside(vs[k], vs[j])
    BY <1>1 DEF Nested
  <2> QED BY <2>1 DEF Inside
<1> HIDE DEF L, D
<1>6. i \in 1..L
  BY DEF L
<1>7. ASSUME vs[i].lev = D, NEW k \in (i + 1)..L, op[k].kind = "function" PROVE FALSE
  <2>1. k \in 2..L /\ k \in 1..L /\ k - 1 \in 1..L
    BY <1>1, <1>6
  <2>2. vs[k].lev = vs[k - 1].lev + 1
    BY <2>1, <1>3, <1>4, <1>7
  <2>3. vs[k].lev \in 1..D /\ vs[k - 1].lev \in 1..D
    BY <2>1, <1>2
  <2>4. vs[i].lev <= vs[k - 1].lev
    <3>1. CASE i = k - 1
      BY <3>1, <2>3
    <3>2. CASE i # k - 1
      <4>1. i < k - 1
        BY <3>2, <1>6
      <4> QED BY <4>1, <2>1, <1>5, <1>6
    <3> QED BY <3>1, <3>2
  <2> QED BY <2>2, <2>3, <2>4, <1>7, <1>2
<1>8. ASSUME \A k \in (i + 1)..L : op[k].kind # "function", vs[i].lev # D PROVE FALSE
  <2> DEFINE T == {k \in (i + 1)..L : vs[k].lev # vs[i].lev}
  <2>1. L \in T /\ T \subseteq Nat
    <3>1. i # L
      BY <1>2, <1>8
    <3> QED BY <3>1, <1>2, <1>6, <1>8, <1>1
  <2>2. PICK k \in T : \A y \in T : k <= y
    <3> HIDE DEF T
    <3> QED BY <2>1, LeastNat
  <2>3. k \in (i + 1)..L /\ vs[k].lev # vs[i].lev
    OBVIOUS
  <2>4. k \in 2..L /\ k - 1 \in 1..L /\ k \in 1..L
    BY <2>3, <1>6, <1>1
  <2>5. vs[k - 1].lev = vs[i].lev
    <3>1. CASE k - 1 = i
      BY <3>1
    <3>2. CASE k - 1 # i
      <4>1. k - 1 \in (i + 1)..L
        BY <3>2, <2>3, <1>6, <1>1
      <4>2. k - 1 \notin T
        BY <2>2, <2>3, <1>6, <1>1
      <4> QED BY <4>1, <4>2
    <3> QED BY <3>1, <3>2
  <2>6. vs[k].kind # "function"
    BY <2>3, <2>4, <1>3, <1>8
  <2>7. vs[k - 1].lev \in Nat
    BY <2>4, <1>2
  <2>8. vs[k].lev = vs[k - 1].lev + 0
    BY <2>4, <2>6, <1>4
  <2> QED BY <2>3, <2>5, <2>7, <2>8
<1>9. (\A k \in (i + 1)..L : op[k].kind # "function") <=> vs[i].lev = D
  BY <1>7, <1>8
<1> QED BY <1>9 DEF L, D, Innermost

(* Blocks have identities of their own. *)
LEMMA BlocksApart ==
  ASSUME NEW vs, NEW fs, NEW op, NEW ls, NEW gs, NEW b, NEW f, NEW n \in Nat, NEW sn,
         JumpsGood(vs, fs, op, ls, gs, b, f, n, sn),
         NEW i \in 1..Len(op), NEW j \in 1..Len(op), vs[i].bid = vs[j].bid
  PROVE  i = j
<1>1. /\ vs \in Seq(ViewRec) /\ Len(vs) = Len(op) /\ Nested(vs, fs, n, Len(gs))
  BY JumpsParts
<1>2. ASSUME NEW k \in 1..Len(op), NEW l \in 1..Len(op), k < l PROVE vs[k].bid # vs[l].bid
  <2>1. Inside(vs[k], vs[l])
    BY <1>1, <1>2 DEF Nested
  <2>2. vs[k].bid < vs[l].bid
    BY <2>1 DEF Inside
  <2>3. vs[k].bid \in Nat /\ vs[l].bid \in Nat
    BY <1>1, ViewFields
  <2> QED BY <2>2, <2>3
<1>3. i < j \/ j < i \/ i = j
  OBVIOUS
<1> QED BY <1>2, <1>3

(* A goto g in the scope ds. *)
MadeAt(g, ds, fs, op, n) ==
    /\ op[Len(op)].kind # "until" /\ g \in GotoRec /\ ds \in Seq(DeclRec)
    /\ ds = fs[Len(fs)].decls /\ \A k \in 1..Len(ds) : ds[k].id < n
    /\ g.nact = Len(ds) /\ g.ids = IdsOf(ds) /\ g.path = Around(op)
Answered(g, ls, f, sn) ==
    \A s \in sn : s[1] = g.name /\ s[2] \in g.path =>
        \E q \in (f.labels + 1)..Len(ls) : ls[q].name = g.name

(* A forward goto is made, where no label of that name is visible. *)
LEMMA JGotoMade ==
  ASSUME NEW vs, NEW fs, NEW op, NEW ls, NEW gs, NEW b, NEW f, NEW n \in Nat, NEW sn,
         JumpsGood(vs, fs, op, ls, gs, b, f, n, sn), NEW g, NEW ds, MadeAt(g, ds, fs, op, n)
  PROVE  /\ JumpsGood(vs, fs, op, ls, Append(gs, g), b, f, n, sn)
         /\ Answered(g, ls, f, sn)
<1>0. /\ op[Len(op)].kind # "until" /\ g \in GotoRec /\ ds \in Seq(DeclRec)
      /\ ds = fs[Len(fs)].decls /\ \A k \in 1..Len(ds) : ds[k].id < n
      /\ g.nact = Len(ds) /\ g.ids = IdsOf(ds) /\ g.path = Around(op)
  BY DEF MadeAt
<1> USE <1>0
<1> DEFINE L == Len(op)
           D == Len(fs)
           gs2 == Append(gs, g)
<1>1. /\ vs \in Seq(ViewRec) /\ op \in Seq(BlockRec) /\ Len(vs) = L /\ L \in Nat /\ L >= 1
      /\ b \in BlkRec /\ f \in FnRec /\ ls \in Seq(LabelRec) /\ gs \in Seq(GotoRec)
      /\ Len(ls) \in Nat /\ Len(gs) \in Nat
      /\ Shows(vs, op, b, f, Len(ls), Len(fs)) /\ Nested(vs, fs, n, Len(gs))
      /\ Pending(vs, fs, gs, n) /\ Noted(vs, ls, sn, n)
      /\ \A i \in 1..Len(vs) : vs[i].bid \in 0..n
  BY JumpsParts
<1>2. /\ vs[L].kind = op[L].kind /\ vs[L].lev = D /\ D \in Nat /\ D >= 1
      /\ \A i \in 1..L :
              /\ vs[i].lev \in 1..D /\ vs[i].top <= Len(ls) /\ vs[i].gotos <= Len(gs)
              /\ vs[i].fgotos <= vs[i].gotos
              /\ vs[i].flabels <= vs[i].low
              /\ vs[i].lev = D => vs[i].fgotos = f.gotos /\ vs[i].flabels = f.labels
              /\ vs[i].lev = D /\ i # L => vs[i].kind # "until"
  <2>1. TopView(vs, fs, op, ls, gs, b, f, Len(vs))
    BY TopFacts
  <2> QED BY <2>1, <1>1 DEF TopView
<1>3. \A i \in 1..L :
        /\ vs[i].bid \in Nat /\ vs[i].low \in Nat /\ vs[i].top \in Nat /\ vs[i].lev \in Nat
        /\ vs[i].gotos \in Nat /\ vs[i].fgotos \in Nat /\ vs[i].flabels \in Nat
  BY <1>1, ViewFields
<1>4. gs2 \in Seq(GotoRec) /\ Len(gs2) = Len(gs) + 1 /\ gs2[Len(gs) + 1] = g /\ \A j \in 1..Len(gs) : gs2[j] = gs[j]
  BY <1>1, AppendFacts
<1>5. /\ g.ids \in Seq(Nat) /\ Len(g.ids) = Len(ds) /\ \A k \in 1..Len(ds) : g.ids[k] = ds[k].id
      /\ Len(ds) \in Nat
  <2>1. DOMAIN ds = 1..Len(ds) /\ Len(ds) \in Nat
    OBVIOUS
  <2>2. g.ids = [k \in 1..Len(ds) |-> ds[k].id]
    BY <2>1 DEF IdsOf
  <2>3. g.ids \in Seq(Nat)
    BY DEF GotoRec
  <2> QED BY <2>1, <2>2, <2>3
<1> HIDE DEF gs2, L, D
<1>6. ASSUME NEW i \in 1..L PROVE vs[i].bid \in g.path <=> vs[i].lev = D
  <2>1. \A k \in 1..L : vs[k].bid = op[k].bid
    BY <1>1 DEF Shows, L
  <2>2. \A k \in 1..L : Innermost(op, k) <=> vs[k].lev = D
    <3> SUFFICES ASSUME NEW k \in 1..Len(op)
                 PROVE  Innermost(op, k) <=> vs[k].lev = Len(fs)
      BY DEF L, D
    <3> QED BY ONLY JumpsGood(vs, fs, op, ls, gs, b, f, n, sn), n \in Nat, k \in 1..Len(op), LevelRule
  <2>3. DOMAIN op = 1..L
    BY <1>1 DEF L
  <2>4. g.path = {op[k].bid : k \in {w \in 1..L : Innermost(op, w)}}
    BY <2>3 DEF Around, L
  <2>5. ASSUME vs[i].lev = D PROVE vs[i].bid \in g.path
    BY <2>1, <2>2, <2>4, <2>5
  <2>6. ASSUME vs[i].bid \in g.path PROVE vs[i].lev = D
    <3>1. PICK k \in {w \in 1..L : Innermost(op, w)} : vs[i].bid = op[k].bid
      BY <2>4, <2>6
    <3>2. k \in 1..L /\ vs[k].lev = D /\ vs[k].bid = vs[i].bid
      BY <2>1, <2>2, <3>1
    <3>3. i \in 1..Len(op) /\ k \in 1..Len(op)
      BY <3>2 DEF L
    <3>4. i = k
      BY <3>2, <3>3, BlocksApart
    <3> QED BY <3>2, <3>4
  <2> QED BY <2>5, <2>6
<1>7. g.path \subseteq 0..n
  <2>1. \A k \in 1..L : op[k].bid \in 0..n
    <3>1. \A k \in 1..L : vs[k].bid = op[k].bid
      BY <1>1 DEF Shows, L
    <3> QED BY <3>1, <1>1
  <2>2. DOMAIN op = 1..L
    BY <1>1 DEF L
  <2> QED BY <2>1, <2>2 DEF Around
<1>8. Nested(vs, fs, n, Len(gs2))
  <2>1. ASSUME NEW i \in 1..Len(vs) PROVE Bounded(vs[i], Len(fs), Len(fs[vs[i].lev].decls), n, Len(gs2))
    <3>1. Bounded(vs[i], Len(fs), Len(fs[vs[i].lev].decls), n, Len(gs))
      BY <1>1 DEF Nested
    <3>2. vs[i].gotos <= Len(gs2)
      BY <1>1, <1>2, <1>3, <1>4
    <3> QED BY <3>1, <3>2 DEF Bounded
  <2> QED BY <2>1, <1>1 DEF Nested
<1>9. ASSUME NEW i \in 1..L PROVE Within(vs, i, Len(gs) + 1) <=> vs[i].lev = D
  <2>1. Len(gs) + 1 > vs[i].gotos
    BY <1>1, <1>2, <1>3
  <2>2. \A k \in 1..L : ~(Len(gs) + 1 <= vs[k].fgotos)
    <3> SUFFICES ASSUME NEW k \in 1..L PROVE ~(Len(gs) + 1 <= vs[k].fgotos)
      OBVIOUS
    <3>1. vs[k].fgotos <= vs[k].gotos /\ vs[k].gotos <= Len(gs)
      BY <1>2
    <3> QED BY <3>1, <1>1, <1>3
  <2>3. Within(vs, i, Len(gs) + 1) <=> \A k \in (i + 1)..L : ~(vs[i].lev < vs[k].lev)
    <3>1. \A k \in (i + 1)..L : k \in 1..L
      BY <1>1
    <3> QED BY <2>1, <2>2, <3>1, <1>1 DEF Within
  <2>4. ASSUME vs[i].lev = D PROVE \A k \in (i + 1)..L : ~(vs[i].lev < vs[k].lev)
    <3> SUFFICES ASSUME NEW k \in (i + 1)..L PROVE ~(vs[i].lev < vs[k].lev)
      OBVIOUS
    <3>1. k \in 1..L
      BY <1>1
    <3>2. vs[k].lev \in 1..D
      BY <3>1, <1>2
    <3> QED BY <3>2, <2>4, <1>2
  <2>5. ASSUME vs[i].lev # D PROVE \E k \in (i + 1)..L : vs[i].lev < vs[k].lev
    <3>1. vs[i].lev < vs[L].lev /\ i # L
      BY <2>5, <1>1, <1>2
    <3>2. L \in (i + 1)..L
      BY <3>1, <1>1
    <3> QED BY <3>1, <3>2
  <2> QED BY <2>3, <2>4, <2>5
<1>10. Agrees(g, ds)
  BY <1>5 DEF Agrees
<1>11. Pending(vs, fs, gs2, n)
  <2> SUFFICES ASSUME NEW j \in 1..Len(gs2)
               PROVE  /\ gs2[j].path \subseteq 0..n
                      /\ \A q \in 1..Len(gs2[j].ids) : gs2[j].ids[q] < n
                      /\ \A i \in 1..L :
                           /\ vs[i].kind # "until" => (vs[i].bid \in gs2[j].path <=> Within(vs, i, j))
                           /\ Within(vs, i, j) => Agrees(gs2[j], fs[vs[i].lev].decls)
    BY <1>1, <1>4 DEF Pending
  <2>1. CASE j = Len(gs) + 1
    <3>1. gs2[j] = g
      BY <2>1, <1>4
    <3>2. \A q \in 1..Len(g.ids) : g.ids[q] < n
      BY <1>5
    <3>3. \A i \in 1..L : Within(vs, i, j) => Agrees(g, fs[vs[i].lev].decls)
      BY <2>1, <1>9, <1>10 DEF D
    <3>4. \A i \in 1..L : vs[i].bid \in g.path <=> Within(vs, i, j)
      BY <2>1, <1>6, <1>9
    <3> QED BY <3>1, <3>2, <3>3, <3>4, <1>7
  <2>2. CASE j # Len(gs) + 1
    <3>1. j \in 1..Len(gs) /\ gs2[j] = gs[j]
      BY <2>2, <1>1, <1>4
    <3> QED BY <3>1, <1>1 DEF Pending
  <2> QED BY <2>1, <2>2
<1>12. JumpsGood(vs, fs, op, ls, gs2, b, f, n, sn)
  BY <1>1, <1>8, <1>11 DEF JumpsGood
<1>13. ASSUME NEW s \in sn, s[1] = g.name, s[2] \in g.path
       PROVE  \E q \in (f.labels + 1)..Len(ls) : ls[q].name = g.name
  <2>1. PICK i \in 1..L : s[2] = vs[i].bid
    <3>1. \A k \in 1..L : vs[k].bid = op[k].bid
      BY <1>1 DEF Shows, L
    <3>2. DOMAIN op = 1..L
      BY <1>1 DEF L
    <3> QED BY <3>1, <3>2, <1>13 DEF Around
  <2>2. vs[i].lev = D
    BY <2>1, <1>6, <1>13
  <2>3. vs[i].kind # "until"
    <3>1. vs[L].kind # "until"
      BY <1>2 DEF L
    <3> QED BY <3>1, <2>2, <1>2
  <2>4. PICK q \in (vs[i].low + 1)..vs[i].top : ls[q].name = s[1]
    BY <2>1, <2>3, <1>1 DEF Noted
  <2>5. vs[i].top <= Len(ls) /\ vs[i].flabels <= vs[i].low /\ vs[i].flabels = f.labels
    BY <2>2, <1>2
  <2>6. q \in (f.labels + 1)..Len(ls)
    <3>1. vs[i].low \in Nat /\ vs[i].top \in Nat /\ vs[i].flabels \in Nat /\ Len(ls) \in Nat
      BY <1>1, <1>3
    <3>2. f.labels \in Nat /\ f.labels <= vs[i].low
      BY <2>5, <3>1
    <3>3. q >= vs[i].low + 1 /\ q <= vs[i].top /\ q \in Int
      BY <3>1
    <3>4. vs[i].top <= Len(ls)
      BY <2>5
    <3> QED BY ONLY <3>1, <3>2, <3>3, <3>4
  <2> QED BY <2>4, <2>6, <1>13
<1> QED BY <1>12, <1>13 DEF gs2, Answered
-----------------------------------------------------------------------------
(* The gotos a label of the block on top may be for are those made in it,   *)
(* and counts of declarations decide as the declarations would.             *)
LEMMA LabelSees ==
  ASSUME NEW vs, NEW fs, NEW op, NEW ls, NEW gs, NEW b, NEW f, NEW n \in Nat, NEW sn,
         JumpsGood(vs, fs, op, ls, gs, b, f, n, sn), op[Len(op)].kind # "until",
         NEW j \in 1..Len(gs)
  PROVE  op[Len(op)].bid \in gs[j].path <=> j > b.gotos
<1> DEFINE L == Len(op)
<1>1. Pending(vs, fs, gs, n) /\ Len(vs) = L /\ L \in 1..L
  <2>1. Pending(vs, fs, gs, n) /\ Len(vs) = Len(op) /\ Len(op) \in Nat /\ Len(op) >= 1
    BY JumpsParts
  <2> QED BY <2>1
<1>2. vs[L].kind = op[L].kind /\ vs[L].bid = op[L].bid /\ vs[L].gotos = b.gotos /\ L \in Nat
  <2>1. TopView(vs, fs, op, ls, gs, b, f, Len(vs))
    BY TopFacts
  <2> QED BY <2>1, <1>1 DEF TopView
<1> HIDE DEF L
<1>3. vs[L].bid \in gs[j].path <=> Within(vs, L, j)
  <2>1. vs[L].kind # "until"
    BY <1>2 DEF L
  <2> QED BY <2>1, <1>1 DEF Pending
<1>4. Within(vs, L, j) <=> j > vs[L].gotos
  <2>1. \A k \in (L + 1)..L : FALSE
    BY <1>2
  <2> QED BY <2>1, <1>1 DEF Within
<1> QED BY <1>2, <1>3, <1>4 DEF L

LEMMA LabelAgrees ==
  ASSUME NEW vs, NEW fs, NEW op, NEW ls, NEW gs, NEW b, NEW f, NEW n \in Nat, NEW sn,
         JumpsGood(vs, fs, op, ls, gs, b, f, n, sn), NEW j \in 1..Len(gs), j > b.gotos
  PROVE  Agrees(gs[j], fs[Len(fs)].decls)
<1> DEFINE L == Len(op)
<1>1. Pending(vs, fs, gs, n) /\ Len(vs) = L /\ L \in 1..L
  <2>1. Pending(vs, fs, gs, n) /\ Len(vs) = Len(op) /\ Len(op) \in Nat /\ Len(op) >= 1
    BY JumpsParts
  <2> QED BY <2>1
<1>2. vs[L].lev = Len(fs) /\ vs[L].gotos = b.gotos /\ L \in Nat
  <2>1. TopView(vs, fs, op, ls, gs, b, f, Len(vs))
    BY TopFacts
  <2> QED BY <2>1, <1>1 DEF TopView
<1> HIDE DEF L
<1>3. Within(vs, L, j)
  <2>1. \A k \in (L + 1)..L : FALSE
    BY <1>2
  <2> QED BY <2>1, <1>1, <1>2 DEF Within
<1> QED BY <1>1, <1>2, <1>3 DEF Pending

(* The identities of the first N declarations. *)
Upto(to, ds, N) == /\ ds \in Seq(DeclRec) /\ N \in 0..Len(ds)
                   /\ Len(to) = N /\ DOMAIN to = 1..N /\ \A k \in 1..N : to[k] = ds[k].id
Reaches(to, from) == Len(to) <= Len(from) /\ \A i \in DOMAIN to : to[i] = from[i]

LEMMA CountsDecide ==
  ASSUME NEW g \in GotoRec, NEW ds, Agrees(g, ds), NEW N, NEW to, Upto(to, ds, N)
  PROVE  ~(g.nact < N) <=> Reaches(to, g.ids)
<1>0. ds \in Seq(DeclRec) /\ N \in 0..Len(ds) /\ Len(to) = N /\ DOMAIN to = 1..N /\ \A k \in 1..N : to[k] = ds[k].id
  BY DEF Upto
<1> USE <1>0 DEF Reaches
<1>1. g.nact \in Nat /\ Len(g.ids) \in Nat /\ Len(ds) \in Nat /\ N \in Nat /\ N <= Len(ds)
      /\ \A q \in 1..Len(g.ids) : g.ids[q] \in Nat
  BY DEF GotoRec
<1>2. /\ g.nact <= Len(g.ids) /\ g.nact <= Len(ds)
      /\ \A k \in 1..g.nact : g.ids[k] = ds[k].id
      /\ \A k \in (g.nact + 1)..Len(ds) : \A q \in 1..Len(g.ids) : g.ids[q] < ds[k].id
  BY DEF Agrees
<1>3. CASE g.nact < N
  <2> DEFINE k == g.nact + 1
  <2>1. k \in 1..N /\ k \in (g.nact + 1)..Len(ds)
    BY <1>1, <1>3
  <2>2. to[k] = ds[k].id
    BY <2>1
  <2>3. ASSUME Len(to) <= Len(g.ids), to[k] = g.ids[k] PROVE FALSE
    <3>1. k \in 1..Len(g.ids)
      BY <2>1, <2>3, <1>1
    <3>2. g.ids[k] < ds[k].id
      BY <2>1, <3>1, <1>2
    <3>3. g.ids[k] = ds[k].id /\ g.ids[k] \in Nat
      BY <2>2, <2>3, <3>1, <1>1
    <3> QED BY <3>2, <3>3
  <2> QED BY <2>1, <2>3, <1>3
<1>4. CASE ~(g.nact < N)
  <2>1. N <= g.nact
    BY <1>1, <1>4
  <2>2. Len(to) <= Len(g.ids)
    BY <2>1, <1>1, <1>2
  <2>3. ASSUME NEW i \in DOMAIN to PROVE to[i] = g.ids[i]
    <3>1. i \in 1..N /\ i \in 1..g.nact
      BY <2>1, <1>1
    <3> QED BY <3>1, <1>2
  <2> QED BY <2>2, <2>3, <1>4
<1> QED BY <1>3, <1>4

(* The block with one label more. *)
Labelled(v) ==
  [kind |-> v.kind, bid |-> v.bid, mark |-> v.mark, low |-> v.low, top |-> v.top + 1,
   lev |-> v.lev, gotos |-> v.gotos, nact |-> v.nact, fgotos |-> v.fgotos, flabels |-> v.flabels]

(* Gotos of which some have been matched. *)
Matched(gs, gs2) ==
  /\ gs2 \in Seq(GotoRec) /\ Len(gs2) = Len(gs)
  /\ \A j \in 1..Len(gs) : gs2[j].path = gs[j].path /\ gs2[j].ids = gs[j].ids /\ gs2[j].nact = gs[j].nact
(* Label lb of the block on top, noted as ns. *)
LabelIn(lb, ns, op) == op[Len(op)].kind # "until" /\ lb \in LabelRec /\ ns = <<lb.name, op[Len(op)].bid>>

(* A label is made. *)
LEMMA JLabelMade ==
  ASSUME NEW vs, NEW fs, NEW op, NEW ls, NEW gs, NEW b, NEW f, NEW n \in Nat, NEW sn,
         JumpsGood(vs, fs, op, ls, gs, b, f, n, sn),
         NEW gs2, Matched(gs, gs2), NEW lb, NEW ns, LabelIn(lb, ns, op), NEW sn2, sn2 = sn \cup {ns}
  PROVE  \E ws : JumpsGood(ws, fs, op, Append(ls, lb), gs2, b, f, n, sn2)
<1>0. /\ op[Len(op)].kind # "until" /\ lb \in LabelRec /\ ns = <<lb.name, op[Len(op)].bid>>
      /\ gs2 \in Seq(GotoRec) /\ Len(gs2) = Len(gs)
      /\ \A j \in 1..Len(gs) : gs2[j].path = gs[j].path /\ gs2[j].ids = gs[j].ids /\ gs2[j].nact = gs[j].nact
  BY DEF Matched, LabelIn
<1> USE <1>0
<1> DEFINE L == Len(op)
           D == Len(fs)
           e == Labelled(vs[L])
           vs2 == [vs EXCEPT ![L] = e]
           ls2 == Append(ls, lb)
           nl == Len(ls)
<1>1. /\ vs \in Seq(ViewRec) /\ op \in Seq(BlockRec) /\ Len(vs) = L /\ L \in Nat /\ L >= 1
      /\ b \in BlkRec /\ f \in FnRec /\ ls \in Seq(LabelRec) /\ gs \in Seq(GotoRec)
      /\ Len(ls) \in Nat /\ Len(gs) \in Nat
      /\ Shows(vs, op, b, f, Len(ls), Len(fs)) /\ Nested(vs, fs, n, Len(gs))
      /\ Pending(vs, fs, gs, n) /\ Noted(vs, ls, sn, n)
      /\ \A i \in 1..Len(vs) : vs[i].bid \in 0..n
  BY ONLY JumpsGood(vs, fs, op, ls, gs, b, f, n, sn), n \in Nat, JumpsParts
<1>2. /\ vs[L].kind = op[L].kind /\ vs[L].bid = op[L].bid /\ vs[L].top = nl /\ L \in 1..L
      /\ vs[L].low <= vs[L].top
      /\ \A i \in 1..L : vs[i].top <= nl
  <2>1. TopView(vs, fs, op, ls, gs, b, f, Len(vs))
    BY ONLY JumpsGood(vs, fs, op, ls, gs, b, f, n, sn), n \in Nat, TopFacts
  <2> QED BY <2>1, <1>1 DEF TopView
<1>3. \A i \in 1..L :
        /\ vs[i].bid \in Nat /\ vs[i].mark \in Nat /\ vs[i].low \in Nat
        /\ vs[i].top \in Nat /\ vs[i].lev \in Nat /\ vs[i].gotos \in Nat /\ vs[i].nact \in Nat
        /\ vs[i].fgotos \in Nat /\ vs[i].flabels \in Nat /\ vs[i].kind \in Kinds
  BY <1>1, ViewFields
<1>4. ls2 \in Seq(LabelRec) /\ Len(ls2) = nl + 1 /\ ls2[nl + 1] = lb /\ \A j \in 1..nl : ls2[j] = ls[j]
  BY <1>1, AppendFacts
<1>5. /\ e.kind = vs[L].kind /\ e.bid = vs[L].bid /\ e.mark = vs[L].mark
      /\ e.low = vs[L].low /\ e.top = vs[L].top + 1 /\ e.lev = vs[L].lev
      /\ e.gotos = vs[L].gotos /\ e.nact = vs[L].nact
      /\ e.fgotos = vs[L].fgotos /\ e.flabels = vs[L].flabels
  BY DEF Labelled
<1>6. e \in ViewRec
  <2> DEFINE v == vs[L]
  <2>1. /\ v.bid \in Nat /\ v.mark \in Nat /\ v.low \in Nat /\ v.top \in Nat /\ v.lev \in Nat
        /\ v.gotos \in Nat /\ v.nact \in Nat /\ v.fgotos \in Nat /\ v.flabels \in Nat /\ v.kind \in Kinds
    BY <1>2, <1>3
  <2> HIDE DEF v
  <2>2. Labelled(v) \in ViewRec
    BY ONLY <2>1 DEF Labelled, ViewRec
  <2> QED BY <2>2 DEF v
<1>7. /\ vs2 \in Seq(ViewRec) /\ Len(vs2) = L /\ vs2[L] = e /\ \A i \in 1..L : i # L => vs2[i] = vs[i]
  <2> HIDE DEF e
  <2>1. vs \in Seq(ViewRec) /\ Len(vs) = L /\ L \in 1..Len(vs) /\ e \in ViewRec
    BY <1>1, <1>2, <1>6
  <2> QED BY <2>1, ChangeFacts
<1>8. \A i \in 1..L :
        /\ vs2[i].kind = vs[i].kind /\ vs2[i].bid = vs[i].bid /\ vs2[i].mark = vs[i].mark
        /\ vs2[i].low = vs[i].low /\ vs2[i].lev = vs[i].lev
        /\ vs2[i].gotos = vs[i].gotos /\ vs2[i].nact = vs[i].nact
        /\ vs2[i].fgotos = vs[i].fgotos /\ vs2[i].flabels = vs[i].flabels
        /\ (i # L => vs2[i].top = vs[i].top)
  BY <1>5, <1>7
<1>9. vs2[L].top = nl + 1
  BY <1>2, <1>5, <1>7
<1> HIDE DEF e, vs2, ls2, L, D, nl
<1>10. Shows(vs2, op, b, f, Len(ls2), Len(fs))
  <2>1. \A i \in 1..L : vs2[i].kind = op[i].kind /\ vs2[i].bid = op[i].bid
                        /\ vs2[i].mark = op[i].mark /\ vs2[i].low = op[i].labels
    <3>1. \A i \in 1..L : vs[i].kind = op[i].kind /\ vs[i].bid = op[i].bid
                        /\ vs[i].mark = op[i].mark /\ vs[i].low = op[i].labels
      BY <1>1 DEF Shows, L
    <3> QED BY <3>1, <1>8
  <2>2. ASSUME NEW i \in 1..(L - 1) PROVE Shown(vs2[i], op[i + 1].blk, op[i + 1].fn, op[i + 1].labels)
    <3>1. i \in 1..L /\ i # L
      BY <1>1
    <3>2. Shown(vs[i], op[i + 1].blk, op[i + 1].fn, op[i + 1].labels)
      BY <1>1 DEF Shows, L
    <3> QED BY <3>1, <3>2, <1>8 DEF Shown
  <2>3. Shown(vs2[L], b, f, Len(ls2)) /\ vs2[L].lev = Len(fs)
    <3>1. Shown(vs[L], b, f, Len(ls)) /\ vs[L].lev = Len(fs)
      BY <1>1 DEF Shows, L
    <3> QED BY <3>1, <1>2, <1>4, <1>8, <1>9 DEF Shown
  <2> QED BY <2>1, <2>2, <2>3, <1>1, <1>7 DEF Shows, L
<1>11. Nested(vs2, fs, n, Len(gs2))
  <2>1. vs2[1].lev = 1 /\ vs2[1].kind = "chunk"
    <3>1. 1 \in 1..L
      BY <1>1
    <3> QED BY <3>1, <1>1, <1>8 DEF Nested
  <2>2. ASSUME NEW i \in 2..L
        PROVE  /\ vs2[i].kind # "chunk"
               /\ vs2[i].lev = vs2[i - 1].lev + IF vs2[i].kind = "function" THEN 1 ELSE 0
               /\ vs2[i].kind = "until" =>
                     vs2[i].top = vs2[i].low /\ vs2[i].gotos = vs2[i - 1].gotos /\ vs2[i].nact = vs2[i - 1].nact
    <3>1. i \in 1..L /\ i - 1 \in 1..L
      BY <1>1
    <3>2. /\ vs[i].kind # "chunk"
          /\ vs[i].lev = vs[i - 1].lev + IF vs[i].kind = "function" THEN 1 ELSE 0
          /\ vs[i].kind = "until" =>
                vs[i].top = vs[i].low /\ vs[i].gotos = vs[i - 1].gotos /\ vs[i].nact = vs[i - 1].nact
      BY <1>1 DEF Nested
    <3>3. vs[i].kind = "until" => i # L
      BY <1>2 DEF L
    <3>4. /\ vs2[i].kind = vs[i].kind /\ vs2[i].lev = vs[i].lev /\ vs2[i - 1].lev = vs[i - 1].lev
          /\ vs2[i].low = vs[i].low /\ vs2[i].gotos = vs[i].gotos /\ vs2[i].nact = vs[i].nact
          /\ vs2[i - 1].gotos = vs[i - 1].gotos /\ vs2[i - 1].nact = vs[i - 1].nact
          /\ (i # L => vs2[i].top = vs[i].top)
      BY <3>1, <1>8
    <3> QED BY <3>2, <3>3, <3>4
  <2>3. ASSUME NEW i \in 1..L, NEW j \in 1..L, i < j PROVE Inside(vs2[i], vs2[j])
    <3>1. Inside(vs[i], vs[j])
      BY <2>3, <1>1 DEF Nested
    <3>2. i # L
      BY <2>3, <1>1
    <3> QED BY <3>1, <3>2, <1>8 DEF Inside
  <2>4. ASSUME NEW i \in 1..L PROVE Bounded(vs2[i], Len(fs), Len(fs[vs2[i].lev].decls), n, Len(gs2))
    <3> DEFINE nd == Len(fs[vs[i].lev].decls)
    <3>1. Bounded(vs[i], Len(fs), nd, n, Len(gs))
      BY <1>1 DEF Nested
    <3>2. vs2[i].low <= vs2[i].top
      <4>1. CASE i = L
        <5>1. vs2[L].low = vs[L].low /\ vs[L].low <= nl /\ nl \in Nat /\ vs[L].low \in Nat
          BY <1>1, <1>2, <1>3, <1>8 DEF nl
        <5> QED BY <4>1, <5>1, <1>9
      <4>2. CASE i # L
        BY <4>2, <3>1, <1>8 DEF Bounded
      <4> QED BY <4>1, <4>2
    <3> HIDE DEF nd
    <3>3. Bounded(vs2[i], Len(fs), nd, n, Len(gs2))
      BY <3>1, <3>2, <1>8 DEF Bounded
    <3> QED BY <3>3, <1>8 DEF nd
  <2> QED BY <2>1, <2>2, <2>3, <2>4, <1>7 DEF Nested
<1>12. \A i \in 1..L, j \in 1..Len(gs) : Within(vs2, i, j) <=> Within(vs, i, j)
  <2> SUFFICES ASSUME NEW i \in 1..L, NEW j \in 1..Len(gs) PROVE Within(vs2, i, j) <=> Within(vs, i, j)
    OBVIOUS
  <2>1. \A k \in (i + 1)..L : k \in 1..L
    BY <1>1
  <2> QED BY <2>1, <1>1, <1>7, <1>8 DEF Within
<1>13. Pending(vs2, fs, gs2, n)
  <2> SUFFICES ASSUME NEW j \in 1..Len(gs)
               PROVE  /\ gs2[j].path \subseteq 0..n
                      /\ \A q \in 1..Len(gs2[j].ids) : gs2[j].ids[q] < n
                      /\ \A i \in 1..L :
                           /\ vs2[i].kind # "until" => (vs2[i].bid \in gs2[j].path <=> Within(vs2, i, j))
                           /\ Within(vs2, i, j) => Agrees(gs2[j], fs[vs2[i].lev].decls)
    BY <1>7 DEF Pending
  <2>1. /\ gs[j].path \subseteq 0..n
        /\ \A q \in 1..Len(gs[j].ids) : gs[j].ids[q] < n
        /\ \A i \in 1..L :
             /\ vs[i].kind # "until" => (vs[i].bid \in gs[j].path <=> Within(vs, i, j))
             /\ Within(vs, i, j) => Agrees(gs[j], fs[vs[i].lev].decls)
    BY <1>1 DEF Pending
  <2>2. gs2[j].path = gs[j].path /\ gs2[j].ids = gs[j].ids /\ gs2[j].nact = gs[j].nact
    OBVIOUS
  <2>3. \A i \in 1..L : Agrees(gs2[j], fs[vs[i].lev].decls) <=> Agrees(gs[j], fs[vs[i].lev].decls)
    BY <2>2 DEF Agrees
  <2> QED BY <2>1, <2>2, <2>3, <1>8, <1>12
<1>14. Noted(vs2, ls2, sn \cup {ns}, n)
  <2>1. ASSUME NEW s \in sn \cup {ns}
        PROVE  /\ s[2] \in 0..n
               /\ \A i \in 1..L : s[2] = vs2[i].bid /\ vs2[i].kind # "until" =>
                     \E q \in (vs2[i].low + 1)..vs2[i].top : ls2[q].name = s[1]
    <3>1. CASE s = ns
      <4>1. s[1] = lb.name /\ s[2] = vs[L].bid
        BY <3>1, <1>2 DEF L
      <4>2. s[2] \in 0..n
        BY <4>1, <1>1, <1>2
      <4>3. ASSUME NEW i \in 1..L, s[2] = vs2[i].bid
            PROVE  \E q \in (vs2[i].low + 1)..vs2[i].top : ls2[q].name = s[1]
        <5>1. vs[i].bid = vs[L].bid /\ i \in 1..Len(op) /\ L \in 1..Len(op)
          BY <4>1, <4>3, <1>2, <1>8 DEF L
        <5>2. i = L
          BY ONLY <5>1, BlocksApart, JumpsGood(vs, fs, op, ls, gs, b, f, n, sn), n \in Nat
        <5>3. vs2[L].low = vs[L].low /\ vs[L].low <= nl /\ nl \in Nat /\ vs[L].low \in Nat
          BY <1>1, <1>2, <1>3, <1>8 DEF nl
        <5>4. nl + 1 \in (vs2[L].low + 1)..vs2[L].top
          BY <5>3, <1>9
        <5> QED BY <4>1, <5>2, <5>4, <1>4
      <4> QED BY <4>2, <4>3
    <3>2. CASE s \in sn
      <4>1. /\ s[2] \in 0..n
            /\ \A i \in 1..L : s[2] = vs[i].bid /\ vs[i].kind # "until" =>
                  \E q \in (vs[i].low + 1)..vs[i].top : ls[q].name = s[1]
        BY <3>2, <1>1 DEF Noted
      <4>2. ASSUME NEW i \in 1..L, s[2] = vs2[i].bid, vs2[i].kind # "until"
            PROVE  \E q \in (vs2[i].low + 1)..vs2[i].top : ls2[q].name = s[1]
        <5>1. PICK q \in (vs[i].low + 1)..vs[i].top : ls[q].name = s[1]
          BY <4>1, <4>2, <1>8
        <5>2. vs[i].low \in Nat /\ vs[i].top \in Nat /\ vs[i].top <= nl /\ nl \in Nat
          BY <1>1, <1>2, <1>3 DEF nl
        <5>3. q \in 1..nl
          BY <5>2
        <5>4. vs2[i].low = vs[i].low
          BY <1>8
        <5>5. q \in (vs2[i].low + 1)..vs2[i].top
          <6>1. CASE i = L
            BY <6>1, <5>2, <5>3, <5>4, <1>9
          <6>2. CASE i # L
            BY <6>2, <5>4, <1>8
          <6> QED BY <6>1, <6>2
        <5> QED BY <5>1, <5>3, <5>5, <1>4
      <4> QED BY <4>1, <4>2
    <3> QED BY <3>1, <3>2
  <2> QED BY <2>1, <1>4, <1>7 DEF Noted
<1>15. JumpsGood(vs2, fs, op, ls2, gs2, b, f, n, sn \cup {ns})
  BY <1>10, <1>11, <1>13, <1>14 DEF JumpsGood
<1> QED BY <1>15, <1>1 DEF ls2
-----------------------------------------------------------------------------
(* The state of a parser that has read nothing.                             *)
FirstView == [kind |-> "chunk", bid |-> 1, mark |-> 0, low |-> 0, top |-> 0, lev |-> 1,
              gotos |-> 0, nact |-> 0, fgotos |-> 0, flabels |-> 0]

LEMMA ChunkFields ==
  /\ Chunk.kind = "chunk" /\ Chunk.mark = 0 /\ Chunk.labels = 0 /\ Chunk.bid = 1
  /\ Chunk.blk.gotos = 0 /\ Chunk.blk.nact = 0 /\ Chunk.fn.labels = 0 /\ Chunk.fn.gotos = 0
  /\ Chunk.blk \in BlkRec /\ Chunk.fn \in FnRec /\ Chunk \in BlockRec
<1>1. /\ Chunk.kind = "chunk" /\ Chunk.mark = 0 /\ Chunk.labels = 0 /\ Chunk.bid = 1
      /\ Chunk.blk = [gotos |-> 0, nact |-> 0] /\ Chunk.fn = [labels |-> 0, gotos |-> 0]
  BY DEF Chunk
<1>2. Chunk.blk \in BlkRec /\ Chunk.fn \in FnRec
  BY <1>1 DEF BlkRec, FnRec
<1>3. Chunk \in BlockRec
  <2> DEFINE b == Chunk.blk
             f == Chunk.fn
  <2>1. Chunk = [kind |-> "chunk", mark |-> 0, labels |-> 0, blk |-> b, fn |-> f, bid |-> 1]
    BY DEF Chunk
  <2>2. b \in BlkRec /\ f \in FnRec
    BY <1>2
  <2>3. "chunk" \in Kinds
    BY DEF Kinds
  <2> HIDE DEF b, f
  <2> QED BY <2>1, <2>2, <2>3 DEF BlockRec
<1> QED BY <1>1, <1>2, <1>3

LEMMA JumpsFirst ==
  ASSUME NEW f, Len(f.decls) = 0
  PROVE  JumpsGood(<<FirstView>>, <<f>>, <<Chunk>>, <<>>, <<>>, Chunk.blk, Chunk.fn, 2, {})
<1> DEFINE v == FirstView
           vs == <<v>>
           op == <<Chunk>>
           fs == <<f>>
           b == Chunk.blk
           fn0 == Chunk.fn
<1>1. /\ v \in ViewRec /\ v.kind = "chunk" /\ v.bid = 1 /\ v.mark = 0 /\ v.low = 0 /\ v.top = 0 /\ v.lev = 1
      /\ v.gotos = 0 /\ v.nact = 0 /\ v.fgotos = 0 /\ v.flabels = 0
  BY DEF FirstView, ViewRec, Kinds
<1> HIDE DEF v
<1>2. vs \in Seq(ViewRec) /\ Len(vs) = 1 /\ vs[1] = v /\ 1..1 = {1}
  BY <1>1
<1>3. op \in Seq(BlockRec) /\ Len(op) = 1 /\ op[1] = Chunk
  BY ChunkFields
<1>4. Len(fs) = 1 /\ fs[1] = f
  OBVIOUS
<1>5. Len(<<>>) = 0
  OBVIOUS
<1>6. b \in BlkRec /\ fn0 \in FnRec /\ b.gotos = 0 /\ b.nact = 0 /\ fn0.labels = 0 /\ fn0.gotos = 0
  BY ChunkFields
<1> HIDE DEF vs, op, fs, b, fn0
<1>7. Shows(vs, op, b, fn0, 0, Len(fs))
  <2>1. Shown(vs[1], b, fn0, 0)
    BY <1>1, <1>2, <1>6 DEF Shown
  <2>2. vs[1].kind = op[1].kind /\ vs[1].bid = op[1].bid /\ vs[1].mark = op[1].mark /\ vs[1].low = op[1].labels
    BY <1>1, <1>2, <1>3, ChunkFields
  <2> QED BY <2>1, <2>2, <1>1, <1>2, <1>3, <1>4, <1>6 DEF Shows
<1>8. Nested(vs, fs, 2, 0)
  <2>1. Bounded(v, 1, 0, 2, 0)
    BY <1>1 DEF Bounded
  <2>2. \A i \in 1..Len(vs) : Bounded(vs[i], Len(fs), Len(fs[vs[i].lev].decls), 2, 0)
    BY <2>1, <1>1, <1>2, <1>4
  <2>3. \A i, j \in 1..Len(vs) : ~(i < j)
    BY <1>2
  <2>4. \A i \in 2..Len(vs) : FALSE
    BY <1>2
  <2> QED BY <2>2, <2>3, <2>4, <1>1, <1>2 DEF Nested
<1>9. Pending(vs, fs, <<>>, 2)
  BY DEF Pending
<1>10. Noted(vs, <<>>, {}, 2)
  BY DEF Noted
<1>11. JumpsGood(vs, fs, op, <<>>, <<>>, b, fn0, 2, {})
  BY <1>5, <1>7, <1>8, <1>9, <1>10 DEF JumpsGood
<1> QED BY <1>11 DEF vs, v, fs, op, b, fn0

LEMMA EmptyFields ==
  /\ EmptyFrame \in FrameRec /\ EmptyFrame.decls = <<>> /\ EmptyFrame.upvals = <<>>
  /\ EmptyFrame.captured = {} /\ EmptyFrame.owners = {} /\ EmptyFrame.next = 0
  BY DEF EmptyFrame, FrameRec

LEMMA EmptyGood ==
  ASSUME NEW f \in FrameRec, f.decls = <<>>, f.upvals = <<>>, f.captured = {}, f.owners = {}, NEW n \in Nat
  PROVE  GoodFrame(f, n) /\ \A id : ~Has(f, id)
<1>1. MaxLocals \in Nat /\ MaxUpvals \in Nat /\ Len(f.decls) = 0 /\ Len(f.upvals) = 0
  BY ScopesAssumption
<1> QED BY <1>1 DEF GoodFrame, GoodDecls, GoodOwners, Has

LEMMA NamesFirst ==
  NamesGood(<<EmptyFrame>>, <<>>, 2, {}, {}) /\ FewGlobals({})
<1> DEFINE e == EmptyFrame
           fs == <<e>>
<1>1. e \in FrameRec /\ e.decls = <<>> /\ e.upvals = <<>> /\ e.captured = {} /\ e.owners = {}
  BY EmptyFields
<1>2. GoodFrame(e, 2) /\ \A id : ~Has(e, id)
  BY <1>1, EmptyGood
<1> HIDE DEF e
<1>3. fs \in Seq(FrameRec) /\ Len(fs) = 1 /\ \A l \in 1..1 : fs[l] = e
  BY <1>1
<1>4. MaxDepth \in Nat /\ MaxDepth >= 1 /\ MaxGlobals \in Nat
  BY ScopesAssumption
<1>5. Len(<<>>) = 0 /\ <<>> \in Seq(FuncRec)
  OBVIOUS
<1> HIDE DEF fs
<1>6. Apart(fs, <<>>)
  BY <1>2, <1>3 DEF Apart
<1>7. Linked(fs)
  BY <1>1, <1>3 DEF Linked
<1>8. AllExact(fs, <<>>, {})
  <2>1. {w \in e.owners : w[2] \in {}} = {}
    OBVIOUS
  <2>2. Exact(e, {})
    BY <2>1, <1>1 DEF Exact
  <2> QED BY <2>2, <1>3 DEF AllExact
<1>9. Spared(fs, {})
  BY DEF Spared
<1>10. NamesGood(fs, <<>>, 2, {}, {})
  <2>1. Len(fs) \in 1..MaxDepth
    BY <1>3, <1>4
  <2>2. \A f \in 1..Len(fs) : GoodFrame(fs[f], 2)
    BY <1>2, <1>3
  <2> QED BY <2>1, <2>2, <1>3, <1>5, <1>6, <1>7, <1>8, <1>9 DEF NamesGood
<1>11. FewGlobals({})
  BY <1>4, FS_EmptySet DEF FewGlobals
<1> QED BY <1>10, <1>11 DEF fs, e
-----------------------------------------------------------------------------
(* Identities pass. *)
LEMMA NamesLater ==
  ASSUME NEW fs, NEW fns, NEW n, NEW rch, NEW asg, NamesGood(fs, fns, n, rch, asg),
         NEW m \in Nat, n <= m
  PROVE  NamesGood(fs, fns, m, rch, asg)
<1>1. /\ fs \in Seq(FrameRec) /\ Len(fs) \in Nat /\ Len(fs) >= 1 /\ n \in Nat
      /\ \A l \in 1..Len(fs) : fs[l] \in FrameRec /\ GoodFrame(fs[l], n)
  BY NamesParts
<1>2. Len(fs) \in 1..Len(fs)
  BY <1>1
<1>3. GoodFrame(fs[Len(fs)], m)
  BY <1>1, <1>2, GoodLater
<1>4. Extends(fs[Len(fs)], fs[Len(fs)], n)
  <2> DEFINE f == fs[Len(fs)]
  <2>1. f \in FrameRec
    BY <1>1, <1>2
  <2> HIDE DEF f
  <2>2. Len(f.decls) \in Nat
    BY <2>1, FrameFields
  <2>3. Extends(f, f, n)
    BY <2>2 DEF Extends
  <2> QED BY <2>3 DEF f
<1> QED BY <1>1, <1>3, <1>4, TopExtended

(* A variable that is no <const> is assigned. *)
LEMMA NamesAssigned ==
  ASSUME NEW fs, NEW fns, NEW n, NEW rch, NEW asg, NamesGood(fs, fns, n, rch, asg),
         NEW id \in 2..(n - 1), NoConst(fs, id)
  PROVE  NamesGood(fs, fns, n, rch, asg \cup {id})
<1>1. NamesGood(fs, fns, n, rch, asg) /\ Spared(fs, asg) /\ asg \subseteq 2..(n - 1)
  BY NamesParts
<1>2. Spared(fs, asg \cup {id})
  BY <1>1 DEF Spared, NoConst
<1>3. asg \cup {id} \subseteq 2..(n - 1)
  BY <1>1
<1> QED BY <1>1, <1>2, <1>3 DEF NamesGood

(* The frame on top declares more. *)
LEMMA TopChanged ==
  ASSUME NEW fs, NEW fns, NEW n, NEW rch, NEW asg, NamesGood(fs, fns, n, rch, asg),
         NEW fs0, Len(fs0) = Len(fs), \A l \in 1..Len(fs) : fs[l].decls = fs0[l].decls,
         NEW g, NEW m \in Nat, n <= m, GoodFrame(g, m), Extends(fs[Len(fs)], g, n),
         NEW fs2, fs2 = [fs EXCEPT ![Len(fs)] = g]
  PROVE  NamesGood(fs2, fns, m, rch, asg) /\ Grown(fs0, fs2, n)
<1> DEFINE D == Len(fs)
<1>1. /\ fs \in Seq(FrameRec) /\ D \in Nat /\ D >= 1 /\ D \in 1..D
      /\ \A l \in 1..D : fs[l] \in FrameRec
  BY NamesParts
<1>2. g \in FrameRec
  BY DEF GoodFrame
<1>3. /\ fs2 \in Seq(FrameRec) /\ Len(fs2) = D /\ fs2[D] = g
      /\ \A l \in 1..D : l # D => fs2[l] = fs[l]
  BY <1>1, <1>2, ChangeFacts
<1>4. \A l \in 1..(D - 1) : fs2[l] = fs[l]
  BY <1>1, <1>3
<1>5. NamesGood(fs2, fns, m, rch, asg)
  <2>1. GoodFrame(fs2[Len(fs)], m) /\ Extends(fs[Len(fs)], fs2[Len(fs)], n) /\ Len(fs2) = Len(fs)
    BY <1>3
  <2>2. \A l \in 1..(Len(fs) - 1) : fs2[l] = fs[l]
    BY <1>4
  <2> QED BY <1>3, <2>1, <2>2, TopExtended
<1>6. Grown(fs0, fs2, n)
  <2> HIDE DEF D
  <2>0. Len(fs0) = D
    BY DEF D
  <2>1. \A l \in 1..D : Len(fs0[l].decls) \in Nat /\ Len(fs2[l].decls) \in Nat
    <3>1. \A l \in 1..D : fs2[l] \in FrameRec
      BY <1>3
    <3>2. \A l \in 1..D : Len(fs[l].decls) \in Nat /\ Len(fs2[l].decls) \in Nat
      BY <1>1, <3>1, FrameFields
    <3> QED BY <3>2 DEF D
  <2>2. /\ Len(g.decls) >= Len(fs[D].decls) /\ \A i \in 1..Len(fs[D].decls) : g.decls[i] = fs[D].decls[i]
        /\ \A i \in (Len(fs[D].decls) + 1)..Len(g.decls) : g.decls[i].id >= n
    BY DEF Extends, D
  <2>3. \A i \in 1..Len(g.decls) : g.decls[i].id \in Nat
    BY <1>2, FrameFields
  <2>4. ASSUME NEW l \in 1..D
        PROVE  /\ Len(fs2[l].decls) >= Len(fs0[l].decls)
               /\ \A k \in 1..Len(fs0[l].decls) : fs2[l].decls[k] = fs0[l].decls[k]
               /\ \A k \in (Len(fs0[l].decls) + 1)..Len(fs2[l].decls) :
                    fs2[l].decls[k].id \in Nat /\ fs2[l].decls[k].id >= n
    <3>1. fs0[l].decls = fs[l].decls /\ Len(fs[l].decls) \in Nat
      BY <2>1 DEF D
    <3>2. CASE l = D
      <4>1. fs2[l] = g
        BY <3>2, <1>3
      <4>2. \A k \in (Len(fs[D].decls) + 1)..Len(g.decls) : k \in 1..Len(g.decls)
        BY <3>1, <3>2
      <4> QED BY <4>1, <4>2, <3>1, <3>2, <2>2, <2>3
    <3>3. CASE l # D
      <4>1. fs2[l] = fs[l]
        BY <3>3, <1>3
      <4> QED BY <4>1, <3>1
    <3> QED BY <3>2, <3>3
  <2> QED BY <2>0, <2>1, <2>4, <1>1, <1>3 DEF Grown
<1> QED BY <1>5, <1>6
-----------------------------------------------------------------------------
(* An identity that nothing has yet. *)
Unused(fs, fns, rch, asg, new) ==
  /\ \A l \in 1..Len(fs) : ~Has(fs[l], new)
  /\ \A i \in 1..Len(fns) : \A o \in fns[i].owners : o[2] # new
  /\ new \notin rch /\ new \notin asg

LEMMA NextUnused ==
  ASSUME NEW fs, NEW fns, NEW n, NEW rch, NEW asg, NamesGood(fs, fns, n, rch, asg),
         NEW m \in Nat, n <= m
  PROVE  Unused(fs, fns, rch, asg, m)
<1>1. /\ n \in Nat /\ \A l \in 1..Len(fs) : GoodFrame(fs[l], n)
      /\ \A i \in 1..Len(fns) : \A o \in fns[i].owners : o[2] \in 2..(n - 1)
      /\ rch \subseteq 2..(n - 1) /\ asg \subseteq 2..(n - 1)
  BY NamesParts
<1>2. m \notin 2..(n - 1)
  BY <1>1
<1>3. \A l \in 1..Len(fs) : ~Has(fs[l], m)
  BY <1>1, <1>2, HasOld
<1> QED BY <1>1, <1>2, <1>3 DEF Unused

(* The frame of a function has its first parameter and nothing else. *)
Fresh(h, id) ==
  /\ h \in FrameRec /\ h.upvals = <<>> /\ h.captured = {} /\ Len(h.decls) = 1 /\ h.decls[1].id = id
  /\ \A i : Has(h, i) => i = id
  /\ \A n \in Nat : id < n => GoodFrame(h, n)

LEMMA FunctionFrame ==
  ASSUME NEW va \in BOOLEAN, NEW name \in Names, NEW attrib \in Attribs, NEW id \in Nat, id >= 2,
         NEW h, h = DeclareLocal([EmptyFrame EXCEPT !.vararg = va], name, attrib, id)
  PROVE  Fresh(h, id)
<1> DEFINE f == [EmptyFrame EXCEPT !.vararg = va]
           d == [name |-> name, kind |-> "local", slot |-> f.next, attrib |-> attrib, id |-> id]
<1>1. /\ f \in FrameRec /\ f.decls = <<>> /\ f.upvals = <<>> /\ f.captured = {} /\ f.owners = {} /\ f.next = 0
  BY EmptyFields DEF EmptyFrame, FrameRec
<1> HIDE DEF f
<1>2. h = DeclareLocal(f, name, attrib, id)
  BY DEF f
<1>3. /\ h \in FrameRec /\ h.decls = Append(f.decls, d)
      /\ h.next = f.next + 1 /\ h.owners = f.owners \cup {<<f.next, id>>}
      /\ h.upvals = f.upvals /\ h.captured = f.captured
  <2> DEFINE g == DeclareLocal(f, name, attrib, id)
  <2>1. /\ g \in FrameRec /\ g.decls = Append(f.decls, d)
        /\ g.next = f.next + 1 /\ g.owners = f.owners \cup {<<f.next, id>>}
        /\ g.upvals = f.upvals /\ g.captured = f.captured
    BY <1>1, LocalDeclared
  <2> HIDE DEF g, d
  <2>2. h = g
    BY <1>2 DEF g
  <2> QED BY <2>1, <2>2
<1>4. d.id = id /\ d.kind = "local" /\ d.slot = 0
  BY <1>1
<1> HIDE DEF d
<1>5. Len(h.decls) = 1 /\ h.decls[1] = d /\ h.next = 1 /\ h.owners = {<<0, id>>} /\ Len(h.upvals) = 0
      /\ h.upvals = <<>> /\ h.captured = {}
  <2>1. h.decls = Append(<<>>, d) /\ h.next = 0 + 1 /\ h.owners = {} \cup {<<0, id>>}
        /\ h.upvals = <<>> /\ h.captured = {}
    BY <1>1, <1>3
  <2>2. Len(Append(<<>>, d)) = 1 /\ Append(<<>>, d)[1] = d
    OBVIOUS
  <2>3. Len(h.decls) = 1 /\ h.decls[1] = d
    BY <2>1, <2>2
  <2>4. h.next = 1 /\ h.owners = {<<0, id>>}
    BY <2>1
  <2>5. Len(h.upvals) = 0
    BY <2>1
  <2> QED BY <2>1, <2>3, <2>4, <2>5
<1>6. \A i : Has(h, i) => i = id
  BY <1>4, <1>5 DEF Has
<1>7. ASSUME NEW n \in Nat, id < n PROVE GoodFrame(h, n)
  <2>1. MaxLocals \in Nat /\ MaxLocals >= 1 /\ MaxUpvals \in Nat
    BY ScopesAssumption
  <2>2. GoodDecls(h, n)
    <3>1. \A i \in 1..Len(h.decls) : h.decls[i] = d
      BY <1>5
    <3>2. d.id \in 2..(n - 1) /\ d.slot \in 0..(h.next - 1) /\ <<d.slot, d.id>> \in h.owners
      BY <1>4, <1>5, <1>7
    <3>3. \A i, j \in 1..Len(h.decls) : ~(i < j)
      <4>1. Len(h.decls) = 1
        BY <1>5
      <4> QED BY ONLY <4>1
    <3> QED BY <2>1, <3>1, <3>2, <3>3, <1>4, <1>5 DEF GoodDecls
  <2>3. GoodOwners(h, n)
    BY <1>5, <1>7 DEF GoodOwners
  <2> QED BY <2>1, <2>2, <2>3, <1>3, <1>5 DEF GoodFrame
<1> QED BY <1>3, <1>4, <1>5, <1>6, <1>7 DEF Fresh

LEMMA FunctionEntered ==
  ASSUME NEW fs, NEW fns, NEW m, NEW rch, NEW asg, NamesGood(fs, fns, m, rch, asg),
         Len(fs) < MaxDepth, NEW id \in Nat, id < m, Unused(fs, fns, rch, asg, id),
         NEW h, Fresh(h, id)
  PROVE  NamesGood(Append(fs, h), fns, m, rch, asg)
<1>1. m \in Nat
  BY NamesParts
<1>2. GoodFrame(h, m) /\ h.upvals = <<>> /\ h.captured = {} /\ \A i : Has(h, i) => i = id
  BY <1>1 DEF Fresh
<1>3. /\ \A l \in 1..Len(fs) : ~Has(fs[l], id)
      /\ \A i \in 1..Len(fns) : \A o \in fns[i].owners : o[2] # id
      /\ id \notin rch /\ id \notin asg
  BY DEF Unused
<1> QED BY <1>2, <1>3, NamesPushed

(* A frame that declares something else leaves an identity unused. *)
LEMMA StillUnused ==
  ASSUME NEW fs \in Seq(FrameRec), NEW fns, NEW rch, NEW asg, NEW id \in Nat, Unused(fs, fns, rch, asg, id),
         Len(fs) >= 1, NEW g, NEW m, OneMore(fs[Len(fs)], g, m), m # id,
         NEW fs2, fs2 = [fs EXCEPT ![Len(fs)] = g]
  PROVE  Unused(fs2, fns, rch, asg, id)
<1> DEFINE D == Len(fs)
           f == fs[D]
<1>1. D \in 1..D /\ D \in Nat
  OBVIOUS
<1>2. g \in FrameRec /\ f \in FrameRec
  BY DEF OneMore
<1>3. Len(fs2) = D /\ fs2[D] = g /\ \A l \in 1..D : l # D => fs2[l] = fs[l]
  BY <1>1, <1>2, ChangeFacts
<1>4. ~Has(g, id)
  <2>1. PICK d \in DeclRec :
          /\ g.decls = Append(f.decls, d) /\ d.id = m
          /\ \/ g.owners = f.owners \cup {<<f.next, m>>}
             \/ g.owners = f.owners
    BY DEF OneMore
  <2>2. ~Has(f, id)
    BY <1>1 DEF Unused
  <2>3. f.decls \in Seq(DeclRec) /\ Len(f.decls) \in Nat
    BY <1>2, FrameFields
  <2> HIDE DEF f
  <2>4. /\ Len(g.decls) = Len(f.decls) + 1 /\ g.decls[Len(f.decls) + 1] = d
        /\ \A j \in 1..Len(f.decls) : g.decls[j] = f.decls[j]
    BY <2>1, <2>3, AppendFacts
  <2>5. \A j \in 1..Len(g.decls) : j \in 1..Len(f.decls) \/ j = Len(f.decls) + 1
    BY <2>3, <2>4
  <2>6. \A j \in 1..Len(g.decls) : g.decls[j].id # id
    BY <2>1, <2>2, <2>4, <2>5 DEF Has
  <2>7. \A o \in g.owners : o[2] # id
    BY <2>1, <2>2 DEF Has
  <2> QED BY <2>6, <2>7 DEF Has
<1>5. \A l \in 1..Len(fs2) : ~Has(fs2[l], id)
  BY <1>3, <1>4 DEF Unused
<1> QED BY <1>5 DEF Unused
-----------------------------------------------------------------------------
(* Parsing begins, and begins anew after an error. *)
LEMMA FirstGood ==
  /\ NamesGood(<<EmptyFrame>>, <<>>, 2, {}, {}) /\ FewGlobals({})
  /\ \E vs : JumpsGood(vs, <<EmptyFrame>>, <<Chunk>>, <<>>, <<>>, Chunk.blk, Chunk.fn, 2, {})
<1>1. Len(EmptyFrame.decls) = 0
  BY EmptyFields
<1> QED BY <1>1, JumpsFirst, NamesFirst

LEMMA InitInv == Init => IInv
<1> SUFFICES ASSUME Init PROVE IInv
  OBVIOUS
<1>1. NamesInv
  BY FirstGood DEF Init, NamesInv
<1>2. JumpsInv
  BY FirstGood DEF Init, JumpsInv
<1>3. JumpsLegal
  BY DEF Init, JumpsLegal, JumpsEnterNoScope, JumpsSeeTheirLabel
<1> QED BY <1>1, <1>2, <1>3 DEF IInv

LEMMA Discarded ==
  ASSUME Discard
  PROVE  NamesInv' /\ JumpsInv' /\ gotos' = <<>>
<1>1. /\ frames' = <<EmptyFrame>> /\ open' = <<Chunk>> /\ labels' = <<>> /\ gotos' = <<>>
      /\ blk' = Chunk.blk /\ fn' = Chunk.fn
      /\ globals' = {} /\ funcs' = <<>> /\ tail' = "free"
      /\ nextId' = 2 /\ reached' = {} /\ assigned' = {} /\ seen' = {}
  BY DEF Discard
<1>2. NamesInv'
  BY <1>1, FirstGood DEF NamesInv
<1>3. JumpsInv'
  BY <1>1, FirstGood DEF JumpsInv
<1> QED BY <1>1, <1>2, <1>3

LEMMA Raised ==
  ASSUME NEW e, Raise(e)
  PROVE  IInv'
<1>1. NamesInv' /\ JumpsInv' /\ gotos' = <<>>
  BY Discarded DEF Raise
<1>2. jumps' = {}
  BY DEF Raise
<1>3. JumpsLegal'
  BY <1>1, <1>2 DEF JumpsLegal, JumpsEnterNoScope, JumpsSeeTheirLabel
<1> QED BY <1>1, <1>3 DEF IInv
-----------------------------------------------------------------------------
(* Frames with the same scopes. *)
LEMMA SameGrown ==
  ASSUME NEW fs \in Seq(FrameRec), Len(fs) >= 1, NEW fs2, Len(fs2) = Len(fs),
         \A f \in 1..Len(fs) : SameScope(fs[f], fs2[f]), NEW n
  PROVE  Grown(fs, fs2, n)
<1>1. \A l \in 1..Len(fs) : Len(fs[l].decls) \in Nat
  BY FrameFields
<1>2. \A l \in 1..Len(fs) : fs2[l].decls = fs[l].decls
  BY DEF SameScope
<1>3. \A l \in 1..Len(fs) : \A k \in (Len(fs[l].decls) + 1)..Len(fs2[l].decls) : FALSE
  BY <1>1, <1>2
<1>4. Len(fs) \in Nat
  OBVIOUS
<1>5. \A l \in 1..Len(fs) : Len(fs2[l].decls) >= Len(fs[l].decls)
  BY <1>1, <1>2
<1> QED BY <1>1, <1>2, <1>3, <1>4, <1>5 DEF Grown

(* What leaves blocks, labels and gotos alone, and at most declares. *)
LEMMA JumpsSame ==
  ASSUME JumpsInv, JumpsLegal, UNCHANGED open, UNCHANGED jumpVars,
         nextId \in Nat, nextId' \in Nat, nextId <= nextId', Grown(frames, frames', nextId),
         tail' \in {"free", "ends", "more"}
  PROVE  JumpsInv' /\ JumpsLegal'
<1>1. /\ open' = open /\ labels' = labels /\ gotos' = gotos /\ blk' = blk /\ fn' = fn
      /\ jumps' = jumps /\ seen' = seen
  BY DEF jumpVars
<1>2. PICK vs : JumpsGood(vs, frames, open, labels, gotos, blk, fn, nextId, seen)
  BY DEF JumpsInv
<1>3. JumpsGood(vs, frames', open, labels, gotos, blk, fn, nextId', seen)
  BY <1>2, JKept
<1>4. JumpsInv'
  BY <1>1, <1>3 DEF JumpsInv
<1>5. JumpsLegal'
  BY <1>1 DEF JumpsLegal, JumpsEnterNoScope, JumpsSeeTheirLabel
<1> QED BY <1>4, <1>5

(* A name that is found leaves all scopes as they are. *)
LEMMA ResolvedScopes ==
  ASSUME NamesInv, NEW name, NEW r, r = ResolveName(name), r.kind # "error"
  PROVE  Grown(frames, r.frames, nextId) /\ nextId \in Nat
<1>1. Len(r.frames) = Depth /\ \A f \in 1..Depth : SameScope(frames[f], r.frames[f])
  BY Resolved
<1>2. frames \in Seq(FrameRec) /\ Len(frames) >= 1 /\ nextId \in Nat
  BY NamesParts DEF NamesInv
<1> QED BY <1>1, <1>2, SameGrown DEF Depth

LEMMA UseKeeps ==
  ASSUME IInv, NEW name \in Names, Use(name)
  PROVE  IInv'
<1> DEFINE r == ResolveName(name)
<1>1. \/ \E e : Raise(e)
      \/ /\ r.kind # "error"
         /\ frames' = r.frames /\ globals' = r.globals /\ Reach(r)
         /\ tail' = "free"
         /\ UNCHANGED <<open, funcs, err, nextId, assigned>> /\ UNCHANGED jumpVars
  BY DEF Use
<1> HIDE DEF r
<1>2. CASE \E e : Raise(e)
  BY <1>2, Raised
<1>3. CASE /\ r.kind # "error"
           /\ frames' = r.frames /\ globals' = r.globals /\ Reach(r)
           /\ tail' = "free"
           /\ UNCHANGED <<open, funcs, err, nextId, assigned>> /\ UNCHANGED jumpVars
  <2>1. NamesInv /\ JumpsInv /\ JumpsLegal /\ r = ResolveName(name)
    BY DEF IInv, r
  <2>2. NamesGood(r.frames, funcs, nextId, ReachedBy(r), assigned) /\ FewGlobals(r.globals)
    BY <2>1, <1>3, Resolved
  <2>3. reached' = ReachedBy(r)
    BY <1>3 DEF Reach, ReachedBy
  <2>4. NamesInv'
    BY <2>2, <2>3, <1>3 DEF NamesInv
  <2>5. Grown(frames, r.frames, nextId) /\ nextId \in Nat
    BY <2>1, <1>3, ResolvedScopes
  <2>6. JumpsInv' /\ JumpsLegal'
    <3>1. Grown(frames, frames', nextId) /\ nextId' = nextId /\ nextId' \in Nat /\ nextId <= nextId'
          /\ tail' \in {"free", "ends", "more"} /\ UNCHANGED open
      BY <2>5, <1>3
    <3> QED BY <3>1, <2>1, <2>5, <1>3, JumpsSame
  <2> QED BY <2>4, <2>6 DEF IInv
<1> QED BY <1>1, <1>2, <1>3

(* The target of an assignment. *)
LEMMA AssignedGood ==
  ASSUME NamesInv, NEW name, NEW r, r = ResolveName(name), r.kind # "error", Assignable(r)
  PROVE  NamesGood(r.frames, funcs, nextId, ReachedBy(r), assigned \cup ({r.id} \ {0}))
<1>1. /\ NamesGood(r.frames, funcs, nextId, ReachedBy(r), assigned)
      /\ Len(r.frames) = Depth /\ \A f \in 1..Depth : SameScope(frames[f], r.frames[f])
      /\ r.id = 0 \/ r.id \in 2..(nextId - 1)
      /\ r.id # 0 => NoConst(frames, r.id)
  BY Resolved
<1>2. CASE r.id = 0
  <2>1. assigned \cup ({r.id} \ {0}) = assigned
    BY <1>2
  <2> QED BY <1>1, <2>1
<1>3. CASE r.id # 0
  <2>1. assigned \cup ({r.id} \ {0}) = assigned \cup {r.id}
    BY <1>3
  <2>2. NoConst(r.frames, r.id)
    BY <1>1, <1>3 DEF NoConst, SameScope, Depth
  <2>3. r.id \in 2..(nextId - 1)
    BY <1>1, <1>3
  <2>4. NamesGood(r.frames, funcs, nextId, ReachedBy(r), assigned \cup {r.id})
    BY <1>1, <2>2, <2>3, NamesAssigned
  <2> QED BY <2>1, <2>4
<1> QED BY <1>2, <1>3

LEMMA AssignKeeps ==
  ASSUME IInv, NEW name \in Names, Assign(name)
  PROVE  IInv'
<1> DEFINE r == ResolveName(name)
<1>1. \/ \E e : Raise(e)
      \/ /\ r.kind # "error" /\ Assignable(r)
         /\ frames' = r.frames /\ globals' = r.globals /\ Reach(r)
         /\ assigned' = assigned \cup ({r.id} \ {0})
         /\ tail' = "free"
         /\ UNCHANGED <<open, funcs, err, nextId>> /\ UNCHANGED jumpVars
  BY DEF Assign
<1> HIDE DEF r
<1>2. CASE \E e : Raise(e)
  BY <1>2, Raised
<1>3. CASE /\ r.kind # "error" /\ Assignable(r)
           /\ frames' = r.frames /\ globals' = r.globals /\ Reach(r)
           /\ assigned' = assigned \cup ({r.id} \ {0})
           /\ tail' = "free"
           /\ UNCHANGED <<open, funcs, err, nextId>> /\ UNCHANGED jumpVars
  <2>1. NamesInv /\ JumpsInv /\ JumpsLegal /\ r = ResolveName(name)
    BY DEF IInv, r
  <2>2. NamesGood(r.frames, funcs, nextId, ReachedBy(r), assigned \cup ({r.id} \ {0}))
    BY <2>1, <1>3, AssignedGood
  <2>3. FewGlobals(r.globals)
    BY <2>1, <1>3, Resolved
  <2>4. reached' = ReachedBy(r)
    BY <1>3 DEF Reach, ReachedBy
  <2>5. NamesInv'
    BY <2>2, <2>3, <2>4, <1>3 DEF NamesInv
  <2>6. Grown(frames, r.frames, nextId) /\ nextId \in Nat
    BY <2>1, <1>3, ResolvedScopes
  <2>7. JumpsInv' /\ JumpsLegal'
    <3>1. Grown(frames, frames', nextId) /\ nextId' = nextId /\ nextId' \in Nat /\ nextId <= nextId'
          /\ tail' \in {"free", "ends", "more"} /\ UNCHANGED open
      BY <2>6, <1>3
    <3> QED BY <3>1, <2>1, <2>6, <1>3, JumpsSame
  <2> QED BY <2>5, <2>7 DEF IInv
<1> QED BY <1>1, <1>2, <1>3
-----------------------------------------------------------------------------
LEMMA LocalKeeps ==
  ASSUME IInv, NEW nms \in Seq(Names), NEW ats \in Seq(Attribs), Len(nms) = Len(ats),
         NEW rhs \in Names, Local(nms, ats, rhs)
  PROVE  IInv'
<1> DEFINE r == ResolveName(rhs)
           Step(d, k) == IF k = 0 THEN r.frames[Depth]
                         ELSE DeclareLocal(d[k - 1], nms[k], ats[k], nextId + k - 1)
           decl == CHOOSE d : d = [k \in 0..Len(nms) |-> Step(d, k)]
<1>1. \/ \E e : Raise(e)
      \/ /\ r.kind # "error"
         /\ Active + Len(nms) <= MaxLocals
         /\ frames' = [r.frames EXCEPT ![Depth] = decl[Len(nms)]]
         /\ globals' = r.globals /\ Reach(r)
         /\ nextId' = nextId + Len(nms) /\ tail' = "free"
         /\ UNCHANGED <<open, funcs, err, assigned>> /\ UNCHANGED jumpVars
  BY Zenon DEF Local
<1>2. CASE \E e : Raise(e)
  BY <1>2, Raised
<1>3. CASE /\ r.kind # "error"
           /\ Active + Len(nms) <= MaxLocals
           /\ frames' = [r.frames EXCEPT ![Depth] = decl[Len(nms)]]
           /\ globals' = r.globals /\ Reach(r)
           /\ nextId' = nextId + Len(nms) /\ tail' = "free"
           /\ UNCHANGED <<open, funcs, err, assigned>> /\ UNCHANGED jumpVars
  <2> DEFINE f == r.frames[Depth]
             k0 == Len(nms)
  <2>1. NamesInv /\ JumpsInv /\ JumpsLegal
    BY DEF IInv
  <2>2. Listed(decl, f, nms, ats, nextId, k0)
    <3>1. PICK d : Listed(d, f, nms, ats, nextId, k0)
      <4>1. k0 \in Nat
        OBVIOUS
      <4> QED BY <4>1, ListedExists
    <3>2. \A g : Listed(g, f, nms, ats, nextId, k0) <=> g = [k \in 0..Len(nms) |-> Step(g, k)]
      BY Zenon DEF Listed, ListStep
    <3> QED BY <3>1, <3>2, Zenon
  <2> HIDE DEF decl
  <2> HIDE DEF r
  <2>3. r = ResolveName(rhs) /\ r.kind # "error"
    BY <1>3 DEF r
  <2>4. /\ NamesGood(r.frames, funcs, nextId, ReachedBy(r), assigned) /\ FewGlobals(r.globals)
        /\ Len(r.frames) = Depth /\ \A l \in 1..Depth : SameScope(frames[l], r.frames[l])
    BY <2>1, <2>3, Resolved
  <2>5. /\ Depth \in Nat /\ Depth >= 1 /\ nextId \in Nat /\ nextId >= 2 /\ GoodFrame(f, nextId)
        /\ Depth \in 1..Depth /\ f \in FrameRec
    <3>1. /\ Len(r.frames) \in Nat /\ Len(r.frames) >= 1 /\ nextId \in Nat /\ nextId >= 2
          /\ \A l \in 1..Len(r.frames) : GoodFrame(r.frames[l], nextId) /\ r.frames[l] \in FrameRec
      BY <2>4, NamesParts
    <3> QED BY <3>1, <2>4
  <2>6. Len(f.decls) + k0 <= MaxLocals
    BY <2>4, <2>5, <1>3 DEF SameScope, Active, Cur
  <2> DEFINE g == decl[k0]
             m == nextId + k0
  <2>7. Longer(f, g, nextId, k0)
    BY <2>2, <2>5, <2>6, ListDeclared
  <2>8. k0 \in Nat /\ m \in Nat /\ nextId <= m
    BY <2>5
  <2>9. GoodFrame(g, m) /\ Extends(f, g, nextId)
    BY <2>7 DEF Longer
  <2>10. frames' = [r.frames EXCEPT ![Len(r.frames)] = g] /\ nextId' = m
    BY <1>3, <2>4
  <2>11. NamesGood(frames', funcs, m, ReachedBy(r), assigned) /\ Grown(frames, frames', nextId)
    <3> DEFINE fs == r.frames
               fs2 == frames'
    <3>1. Len(frames) = Len(fs) /\ \A l \in 1..Len(fs) : fs[l].decls = frames[l].decls
      BY <2>4 DEF SameScope, Depth
    <3>2. NamesGood(fs, funcs, nextId, ReachedBy(r), assigned) /\ Extends(fs[Len(fs)], g, nextId)
          /\ fs2 = [fs EXCEPT ![Len(fs)] = g]
      BY <2>4, <2>9, <2>10
    <3> HIDE DEF fs, fs2, g, m, f, k0
    <3>3. NamesGood(fs2, funcs, m, ReachedBy(r), assigned) /\ Grown(frames, fs2, nextId)
      BY <3>1, <3>2, <2>8, <2>9, TopChanged
    <3> QED BY <3>3 DEF fs2
  <2>12. reached' = ReachedBy(r)
    BY <1>3 DEF Reach, ReachedBy
  <2>13. NamesInv'
    BY <2>4, <2>10, <2>11, <2>12, <1>3 DEF NamesInv
  <2>14. JumpsInv' /\ JumpsLegal'
    <3>1. Grown(frames, frames', nextId) /\ nextId \in Nat /\ nextId' \in Nat /\ nextId <= nextId'
          /\ tail' \in {"free", "ends", "more"} /\ UNCHANGED open
      BY <2>5, <2>8, <2>10, <2>11, <1>3
    <3> QED BY <3>1, <2>1, <1>3, JumpsSame
  <2> QED BY <2>13, <2>14 DEF IInv
<1> QED BY <1>1, <1>2, <1>3

(* One declaration more in the current function. *)
LEMMA CurDeclares ==
  ASSUME NamesInv, NEW g, NEW n \in Nat, nextId <= n, OneMore(Cur, g, n), Active < MaxLocals,
         NEW fs2, fs2 = [frames EXCEPT ![Depth] = g]
  PROVE  NamesGood(fs2, funcs, n + 1, reached, assigned) /\ Grown(frames, fs2, nextId)
<1> DEFINE D == Len(frames)
           f == frames[D]
           m == n + 1
<1>1. /\ NamesGood(frames, funcs, nextId, reached, assigned)
      /\ D \in Nat /\ D >= 1 /\ nextId \in Nat /\ nextId >= 2
      /\ \A l \in 1..D : GoodFrame(frames[l], nextId)
  BY NamesParts DEF NamesInv
<1>2. NamesGood(frames, funcs, n, reached, assigned)
  BY <1>1, NamesLater
<1>3. GoodFrame(f, n)
  <2>1. \A l \in 1..D : GoodFrame(frames[l], n)
    BY <1>2, NamesParts
  <2> QED BY <2>1, <1>1
<1>4. OneMore(f, g, n) /\ Len(f.decls) < MaxLocals /\ MaxLocals \in Nat /\ n >= 2
  BY ScopesAssumption, <1>1 DEF Cur, Depth, Active
<1>5. GoodFrame(g, m) /\ Extends(f, g, n)
  <2> HIDE DEF f
  <2> QED BY <1>3, <1>4, OneMoreGood
<1>6. Extends(f, g, nextId)
  <2>1. f \in FrameRec /\ g \in FrameRec
    BY <1>4 DEF OneMore
  <2>2. /\ \A i \in 1..Len(g.decls) : g.decls[i].id \in Nat
        /\ \A o \in g.owners : o[2] \in Nat
        /\ Len(f.decls) \in Nat /\ Len(g.decls) \in Nat
    <3> HIDE DEF f
    <3> QED BY <2>1, FrameFields
  <2>3. /\ g.upvals = f.upvals /\ g.captured = f.captured
        /\ Len(g.decls) >= Len(f.decls) /\ \A i \in 1..Len(f.decls) : g.decls[i] = f.decls[i]
        /\ \A i \in (Len(f.decls) + 1)..Len(g.decls) : g.decls[i].id >= n
        /\ f.owners \subseteq g.owners /\ \A o \in g.owners : o \in f.owners \/ o[2] >= n
    BY <1>5 DEF Extends
  <2> HIDE DEF f
  <2>4. \A i \in (Len(f.decls) + 1)..Len(g.decls) : g.decls[i].id >= nextId
    <3> SUFFICES ASSUME NEW i \in (Len(f.decls) + 1)..Len(g.decls) PROVE g.decls[i].id >= nextId
      OBVIOUS
    <3>1. i \in 1..Len(g.decls)
      BY <2>2
    <3>2. g.decls[i].id >= n /\ g.decls[i].id \in Nat
      BY <3>1, <2>2, <2>3
    <3> QED BY <3>2, <1>1
  <2>5. \A o \in g.owners : o \in f.owners \/ o[2] >= nextId
    <3> SUFFICES ASSUME NEW o \in g.owners PROVE o \in f.owners \/ o[2] >= nextId
      OBVIOUS
    <3>1. o[2] \in Nat /\ (o \in f.owners \/ o[2] >= n)
      BY <2>2, <2>3
    <3> QED BY <3>1, <1>1
  <2> QED BY <2>3, <2>4, <2>5 DEF Extends
<1>7. fs2 = [frames EXCEPT ![Len(frames)] = g] /\ m \in Nat /\ nextId <= m
  BY <1>1 DEF Depth
<1> HIDE DEF m
<1>8. NamesGood(fs2, funcs, m, reached, assigned) /\ Grown(frames, fs2, nextId)
  BY <1>1, <1>5, <1>6, <1>7, TopChanged
<1> QED BY <1>8 DEF m

LEMMA GlobalKeeps ==
  ASSUME IInv, NEW name \in Names, NEW kind \in {"global", "all"}, NEW attrib \in Attribs,
         Global(name, kind, attrib)
  PROVE  IInv'
<1> DEFINE full == kind = "global" /\ name \notin globals /\ Cardinality(globals) >= MaxGlobals
           g == DeclareGlobal(Cur, name, kind, attrib, nextId)
<1>1. \/ \E e : Raise(e)
      \/ /\ ~full /\ Active < MaxLocals
         /\ frames' = [frames EXCEPT ![Depth] = g]
         /\ globals' = IF kind = "global" THEN globals \cup {name} ELSE globals
         /\ nextId' = nextId + 1 /\ tail' = "free"
         /\ UNCHANGED <<open, funcs, err, reached, assigned>> /\ UNCHANGED jumpVars
  BY DEF Global, Cur
<1>2. CASE \E e : Raise(e)
  BY <1>2, Raised
<1>3. CASE /\ ~full /\ Active < MaxLocals
           /\ frames' = [frames EXCEPT ![Depth] = g]
           /\ globals' = IF kind = "global" THEN globals \cup {name} ELSE globals
           /\ nextId' = nextId + 1 /\ tail' = "free"
           /\ UNCHANGED <<open, funcs, err, reached, assigned>> /\ UNCHANGED jumpVars
  <2>1. NamesInv /\ JumpsInv /\ JumpsLegal
    BY DEF IInv
  <2>2. nextId \in Nat /\ Cur \in FrameRec
    <3>1. /\ Len(frames) \in Nat /\ Len(frames) >= 1 /\ nextId \in Nat
          /\ \A l \in 1..Len(frames) : frames[l] \in FrameRec
      BY <2>1, NamesParts DEF NamesInv
    <3> QED BY <3>1 DEF Cur, Depth
  <2>3. OneMore(Cur, g, nextId)
    BY <2>2, DeclaredIsOneMore
  <2>4. NamesGood(frames', funcs, nextId + 1, reached, assigned) /\ Grown(frames, frames', nextId)
    <3> DEFINE fs2 == frames'
    <3>1. fs2 = [frames EXCEPT ![Depth] = g] /\ Active < MaxLocals /\ nextId <= nextId
      BY <1>3, <2>2
    <3> HIDE DEF fs2, g
    <3>2. NamesGood(fs2, funcs, nextId + 1, reached, assigned) /\ Grown(frames, fs2, nextId)
      BY <3>1, <2>1, <2>2, <2>3, CurDeclares
    <3> QED BY <3>2 DEF fs2
  <2>5. FewGlobals(globals')
    <3>1. FewGlobals(globals) /\ MaxGlobals \in Nat
      BY <2>1, ScopesAssumption DEF NamesInv
    <3>2. CASE kind = "global" /\ name \notin globals
      <4>1. Cardinality(globals \cup {name}) = Cardinality(globals) + 1 /\ IsFiniteSet(globals \cup {name})
            /\ Cardinality(globals) \in Nat
        BY <3>1, <3>2, FS_AddElement, FS_CardinalityType DEF FewGlobals
      <4>2. Cardinality(globals) < MaxGlobals
        BY <3>1, <3>2, <4>1, <1>3
      <4> QED BY <3>1, <3>2, <4>1, <4>2, <1>3 DEF FewGlobals
    <3>3. CASE ~(kind = "global" /\ name \notin globals)
      <4>1. globals' = globals
        BY <3>3, <1>3
      <4> QED BY <3>1, <4>1
    <3> QED BY <3>2, <3>3
  <2>6. NamesInv'
    BY <2>4, <2>5, <1>3 DEF NamesInv
  <2>7. JumpsInv' /\ JumpsLegal'
    <3>1. nextId \in Nat /\ nextId' \in Nat /\ nextId <= nextId'
          /\ tail' \in {"free", "ends", "more"} /\ UNCHANGED open
      BY <2>2, <1>3
    <3> QED BY <3>1, <2>1, <2>4, <1>3, JumpsSame
  <2> QED BY <2>6, <2>7 DEF IInv
<1> QED BY <1>1, <1>2, <1>3
-----------------------------------------------------------------------------
(* A block as it is seen when it is entered. *)
EntryView(kind, m, mark, nl, lev, ng, act, fg, fl) ==
  [kind |-> kind, bid |-> m, mark |-> mark, low |-> nl, top |-> nl, lev |-> lev,
   gotos |-> ng, nact |-> act, fgotos |-> fg, flabels |-> fl]

(* The records that Enter makes. *)
LEMMA EnterFields ==
  ASSUME NEW kind \in Kinds, NEW mark \in Nat, NEW act \in Nat, Enter(kind, mark, act),
         labels \in Seq(LabelRec), gotos \in Seq(GotoRec), blk \in BlkRec, fn \in FnRec, nextId' \in Nat
  PROVE  /\ blk' \in BlkRec /\ blk'.gotos = Len(gotos) /\ blk'.nact = act /\ tail' = "free"
         /\ \E r \in BlockRec :
              /\ open' = Append(open, r)
              /\ r.kind = kind /\ r.mark = mark /\ r.labels = Len(labels) /\ r.blk = blk
              /\ r.fn = fn /\ r.bid = nextId'
<1>1. Len(labels) \in Nat /\ Len(gotos) \in Nat
  OBVIOUS
<1>2. blk' = [gotos |-> Len(gotos), nact |-> act] /\ tail' = "free"
  BY DEF Enter
<1>3. blk' \in BlkRec /\ blk'.gotos = Len(gotos) /\ blk'.nact = act
  BY <1>1, <1>2 DEF BlkRec
<1> DEFINE nl == Len(labels)
           m == nextId'
           r == [kind |-> kind, mark |-> mark, labels |-> nl, blk |-> blk, fn |-> fn, bid |-> m]
<1>4. open' = Append(open, r)
  BY DEF Enter
<1>5. nl \in Nat /\ m \in Nat
  BY <1>1
<1> HIDE DEF nl, m
<1>6. r \in BlockRec
  BY <1>5 DEF BlockRec
<1>7. r.kind = kind /\ r.mark = mark /\ r.labels = nl /\ r.blk = blk /\ r.fn = fn /\ r.bid = m
  OBVIOUS
<1> HIDE DEF r
<1> QED BY <1>2, <1>3, <1>4, <1>6, <1>7 DEF nl, m

(* A block is entered, in frames fs that may have a declaration more. *)
LEMMA BlockEntered ==
  ASSUME NEW vs, NEW fs, JumpsGood(vs, fs, open, labels, gotos, blk, fn, nextId, seen),
         nextId \in Nat, nextId' = nextId + 1,
         NEW kind \in {"do", "repeat"}, NEW mark \in Nat, NEW act \in Nat, Enter(kind, mark, act),
         Block.kind # "until", blk.nact <= mark, mark <= act,
         Len(fs[Len(fs)].decls) \in Nat, act <= Len(fs[Len(fs)].decls)
  PROVE  /\ \E ws : JumpsGood(ws, fs, open', labels, gotos, blk', fn, nextId', seen)
         /\ tail' = "free"
<1> DEFINE D == Len(fs)
           nl == Len(labels)
           ng == Len(gotos)
           m == nextId'
           fg == fn.gotos
           fl == fn.labels
           e == EntryView(kind, m, mark, nl, D, ng, act, fg, fl)
<1>1. /\ blk \in BlkRec /\ fn \in FnRec /\ labels \in Seq(LabelRec) /\ gotos \in Seq(GotoRec)
      /\ nl \in Nat /\ ng \in Nat /\ m \in Nat /\ nextId < m
  <2>1. JumpsGood(vs, fs, open, labels, gotos, blk, fn, nextId, seen) /\ nextId \in Nat
    OBVIOUS
  <2>2. /\ blk \in BlkRec /\ fn \in FnRec /\ labels \in Seq(LabelRec) /\ gotos \in Seq(GotoRec)
        /\ Len(labels) \in Nat /\ Len(gotos) \in Nat
    BY ONLY <2>1, JumpsParts
  <2> QED BY <2>2
<1>2. D \in Nat /\ fg \in Nat /\ fl \in Nat
  <2>1. TopView(vs, fs, open, labels, gotos, blk, fn, Len(vs))
    BY TopFacts
  <2> QED BY <2>1, <1>1 DEF TopView, FnRec
<1>3. kind \in Kinds
  BY DEF Kinds
<1>4. /\ blk' \in BlkRec /\ blk'.gotos = ng /\ blk'.nact = act /\ tail' = "free"
  BY <1>1, <1>3, EnterFields
<1>5. PICK r \in BlockRec :
        /\ open' = Append(open, r)
        /\ r.kind = kind /\ r.mark = mark /\ r.labels = nl /\ r.blk = blk
        /\ r.fn = fn /\ r.bid = m
  BY <1>1, <1>3, EnterFields
<1> HIDE DEF D, nl, ng, m, fg, fl
<1>6. /\ e \in ViewRec /\ e.kind = kind /\ e.bid = m /\ e.mark = mark /\ e.low = nl /\ e.top = nl
      /\ e.lev = D /\ e.gotos = ng /\ e.nact = act /\ e.fgotos = fg /\ e.flabels = fl
  BY ONLY <1>1, <1>2, <1>3, mark \in Nat, act \in Nat DEF EntryView, ViewRec, e
<1> HIDE DEF e
<1>7. Opens(e, fs, fs, Len(labels), Len(gotos), blk, fn, nextId, m)
  <2>1. Len(fs) = e.lev /\ e.fgotos = fn.gotos /\ e.flabels = fn.labels
        /\ e.low = Len(labels) /\ e.top = Len(labels) /\ e.gotos = Len(gotos)
    BY <1>6 DEF D, nl, ng, fg, fl
  <2>2. e.bid = m /\ nextId < m /\ e.mark <= e.nact /\ Len(fs[e.lev].decls) \in Nat /\ e.nact <= Len(fs[e.lev].decls)
        /\ blk.nact <= e.mark /\ e.kind \in {"do", "repeat"}
    BY <2>1, <1>1, <1>6
  <2> QED BY <2>1, <2>2, <1>6 DEF Opens
<1>8. Shown(e, blk', fn, Len(labels))
  BY <1>4, <1>6 DEF Shown, nl, fg, fl
<1>9. JumpsGood(Append(vs, e), fs, Append(open, r), labels, gotos, blk', fn, m, seen)
  <2>1. r.kind = e.kind /\ r.mark = e.mark /\ r.labels = Len(labels) /\ r.blk = blk /\ r.fn = fn /\ r.bid = m
    BY <1>5, <1>6 DEF nl
  <2>2. open[Len(open)].kind # "until"
    BY DEF Block
  <2>3. JumpsGood(vs, fs, open, labels, gotos, blk, fn, nextId, seen) /\ nextId \in Nat /\ m \in Nat
    BY <1>1
  <2> QED BY ONLY <2>1, <2>2, <2>3, <1>1, <1>4, <1>5, <1>7, <1>8, JPushed
<1> QED BY <1>4, <1>5, <1>9 DEF m

(* What only enters a block changes no jump. *)
LEMMA LegalSame ==
  ASSUME JumpsLegal, UNCHANGED <<gotos, jumps, seen>>
  PROVE  JumpsLegal'
  BY DEF JumpsLegal, JumpsEnterNoScope, JumpsSeeTheirLabel

(* The counts of the block on top and of the current function. *)
LEMMA Counts ==
  ASSUME IInv
  PROVE  /\ Active \in Nat /\ Active <= MaxLocals /\ MaxLocals \in Nat /\ nextId \in Nat
         /\ Depth \in Nat /\ Depth >= 1 /\ Cur \in FrameRec
         /\ blk.nact \in Nat /\ blk.nact <= Active /\ blk.gotos \in Nat /\ blk.gotos <= Len(gotos)
<1>1. /\ Len(frames) \in Nat /\ Len(frames) >= 1 /\ nextId \in Nat
      /\ \A l \in 1..Len(frames) : frames[l] \in FrameRec /\ GoodFrame(frames[l], nextId)
  BY NamesParts DEF IInv, NamesInv
<1>2. Cur \in FrameRec /\ GoodFrame(Cur, nextId)
  BY <1>1 DEF Cur, Depth
<1>3. Active \in Nat
  BY <1>2, FrameFields DEF Active
<1>4. Active <= MaxLocals /\ MaxLocals \in Nat
  BY <1>2, ScopesAssumption DEF GoodFrame, GoodDecls, Active
<1>5. PICK vs : JumpsGood(vs, frames, open, labels, gotos, blk, fn, nextId, seen)
  BY DEF IInv, JumpsInv
<1>6. blk \in BlkRec
  BY <1>1, <1>5, JumpsParts
<1>7. TopView(vs, frames, open, labels, gotos, blk, fn, Len(vs))
  BY <1>1, <1>5, TopFacts
<1>8. blk.nact <= Active /\ blk.gotos <= Len(gotos)
  BY <1>7 DEF TopView, Active, Cur, Depth
<1> QED BY <1>1, <1>2, <1>3, <1>4, <1>6, <1>8 DEF BlkRec, Depth

LEMMA OpenBlockKeeps ==
  ASSUME IInv, NEW kind \in {"do", "repeat"}, OpenBlock(kind)
  PROVE  IInv'
<1>1. /\ Block.kind # "until" /\ nextId' = nextId + 1 /\ Enter(kind, Active, Active)
      /\ UNCHANGED <<frames, labels, gotos, fn, globals, funcs, err, reached, assigned, jumps, seen>>
  BY DEF OpenBlock, InBlock
<1>2. NamesInv /\ JumpsInv /\ JumpsLegal
  BY DEF IInv
<1>3. /\ Active \in Nat /\ nextId \in Nat /\ blk.nact <= Active /\ Depth \in Nat
      /\ Len(frames[Len(frames)].decls) = Active
  BY Counts DEF Active, Cur, Depth
<1>4. PICK vs : JumpsGood(vs, frames, open, labels, gotos, blk, fn, nextId, seen)
  BY <1>2 DEF JumpsInv
<1>5. /\ \E ws : JumpsGood(ws, frames, open', labels, gotos, blk', fn, nextId', seen)
      /\ tail' = "free"
  <2>1. Active <= Active /\ Len(frames[Len(frames)].decls) \in Nat /\ Active <= Len(frames[Len(frames)].decls)
    BY <1>3
  <2> QED BY ONLY <1>1, <1>3, <1>4, <2>1, kind \in {"do", "repeat"}, BlockEntered
<1>6. JumpsInv'
  BY <1>1, <1>5 DEF JumpsInv
<1>7. NamesInv'
  <2>1. NamesGood(frames, funcs, nextId, reached, assigned) /\ nextId' \in Nat /\ nextId <= nextId'
    BY <1>1, <1>2, <1>3 DEF NamesInv
  <2>2. NamesGood(frames, funcs, nextId', reached, assigned)
    BY <2>1, NamesLater
  <2> QED BY <1>1, <1>2, <2>2 DEF NamesInv
<1>8. JumpsLegal'
  BY <1>1, <1>2, LegalSame
<1> QED BY <1>6, <1>7, <1>8 DEF IInv

LEMMA OpenForKeeps ==
  ASSUME IInv, NEW name \in Names, OpenFor(name)
  PROVE  IInv'
<1> DEFINE g == DeclareLocal(Cur, name, "const", nextId)
           Entered == /\ Active < MaxLocals
                      /\ nextId' = nextId + 1
                      /\ frames' = [frames EXCEPT ![Depth] = g]
                      /\ Enter("do", Active, Active + 1)
                      /\ UNCHANGED <<labels, gotos, fn, globals, funcs, err, reached, assigned, jumps, seen>>
<1>1. (\/ \E e : Raise(e)
       \/ Entered) /\ Block.kind # "until"
  BY DEF OpenFor, InBlock, Cur
<1>2. CASE \E e : Raise(e)
  BY <1>2, Raised
<1>3. CASE Entered
  <2>1. NamesInv /\ JumpsInv /\ JumpsLegal
    BY DEF IInv
  <2>2. /\ Active \in Nat /\ nextId \in Nat /\ blk.nact <= Active /\ Cur \in FrameRec
        /\ Depth \in Nat /\ Depth >= 1 /\ Active < MaxLocals /\ blk.nact \in Nat
    BY <1>3, Counts
  <2>3. OneMore(Cur, g, nextId)
    BY <2>2, DeclaredIsOneMore DEF Attribs
  <2>4. NamesGood(frames', funcs, nextId + 1, reached, assigned) /\ Grown(frames, frames', nextId)
    <3> DEFINE fs2 == frames'
    <3>1. fs2 = [frames EXCEPT ![Depth] = g] /\ nextId <= nextId
      BY <1>3, <2>2
    <3> HIDE DEF fs2, g
    <3>2. NamesGood(fs2, funcs, nextId + 1, reached, assigned) /\ Grown(frames, fs2, nextId)
      BY <3>1, <2>1, <2>2, <2>3, CurDeclares
    <3> QED BY <3>2 DEF fs2
  <2>5. NamesInv'
    BY <2>1, <2>4, <1>3 DEF NamesInv
  <2>6. Len(frames'[Len(frames')].decls) = Active + 1
    <3>1. g \in FrameRec /\ Len(g.decls) = Len(Cur.decls) + 1
      <4>1. PICK d \in DeclRec : g.decls = Append(Cur.decls, d)
        BY <2>3 DEF OneMore
      <4>2. g \in FrameRec /\ Cur.decls \in Seq(DeclRec)
        BY <2>2, <2>3, FrameFields DEF OneMore
      <4> QED BY <4>1, <4>2
    <3>2. frames \in Seq(FrameRec) /\ Depth \in 1..Len(frames) /\ Len(frames) = Depth
      BY <2>1, <2>2, NamesParts DEF NamesInv, Depth
    <3> HIDE DEF g
    <3>3. Len([frames EXCEPT ![Depth] = g]) = Depth /\ [frames EXCEPT ![Depth] = g][Depth] = g
      BY <3>1, <3>2, ChangeFacts
    <3>4. frames' = [frames EXCEPT ![Depth] = g]
      BY <1>3
    <3> QED BY <3>1, <3>3, <3>4 DEF Active
  <2>7. PICK vs : JumpsGood(vs, frames, open, labels, gotos, blk, fn, nextId, seen)
    BY <2>1 DEF JumpsInv
  <2> DEFINE fs2 == frames'
             a2 == Active + 1
             k == "do"
  <2>8. JumpsGood(vs, fs2, open, labels, gotos, blk, fn, nextId, seen)
    <3>1. nextId <= nextId /\ Grown(frames, fs2, nextId)
      BY <2>2, <2>4
    <3> HIDE DEF fs2
    <3> QED BY ONLY <3>1, <2>2, <2>7, JKept
  <2>9. /\ \E ws : JumpsGood(ws, fs2, open', labels, gotos, blk', fn, nextId', seen)
        /\ tail' = "free"
    <3>1. Len(fs2[Len(fs2)].decls) \in Nat /\ a2 <= Len(fs2[Len(fs2)].decls) /\ Active <= a2 /\ a2 \in Nat
      BY <2>2, <2>6
    <3>2. Enter(k, Active, a2) /\ k \in {"do", "repeat"} /\ nextId' = nextId + 1 /\ Block.kind # "until"
      BY <1>1, <1>3
    <3> HIDE DEF fs2, a2, k
    <3> QED BY ONLY <3>1, <3>2, <2>2, <2>8, BlockEntered
  <2>10. JumpsInv'
    BY <2>9, <1>3 DEF JumpsInv
  <2>11. JumpsLegal'
    BY <2>1, <1>3, LegalSame
  <2> QED BY <2>5, <2>10, <2>11 DEF IInv
<1> QED BY <1>1, <1>2, <1>3
-----------------------------------------------------------------------------
(* Where the block on top begins, in labels and declarations. *)
LEMMA BlockFacts ==
  ASSUME IInv
  PROVE  /\ open \in Seq(BlockRec) /\ Len(open) \in Nat /\ Len(open) >= 1 /\ Block \in BlockRec
         /\ labels \in Seq(LabelRec) /\ gotos \in Seq(GotoRec) /\ blk \in BlkRec /\ fn \in FnRec
         /\ Block.labels \in 0..Len(labels) /\ Block.mark \in 0..Active /\ fn.gotos \in 0..Len(gotos)
         /\ Block.blk \in BlkRec /\ Block.fn \in FnRec
<1>1. nextId \in Nat /\ Active \in Nat
  BY Counts
<1>2. PICK vs : JumpsGood(vs, frames, open, labels, gotos, blk, fn, nextId, seen)
  BY DEF IInv, JumpsInv
<1>3. /\ open \in Seq(BlockRec) /\ Len(open) \in Nat /\ Len(open) >= 1
      /\ labels \in Seq(LabelRec) /\ gotos \in Seq(GotoRec) /\ blk \in BlkRec /\ fn \in FnRec
      /\ Len(vs) = Len(open) /\ Len(labels) \in Nat /\ Len(gotos) \in Nat /\ vs \in Seq(ViewRec)
  BY ONLY <1>1, <1>2, JumpsParts
<1>4. TopView(vs, frames, open, labels, gotos, blk, fn, Len(open))
  <2>1. TopView(vs, frames, open, labels, gotos, blk, fn, Len(vs))
    BY ONLY <1>1, <1>2, TopFacts
  <2> QED BY <1>3, <2>1
<1>5. Block \in BlockRec
  BY <1>3 DEF Block
<1>6. Block.labels \in Nat /\ Block.mark \in Nat /\ fn.gotos \in Nat /\ Block.blk \in BlkRec /\ Block.fn \in FnRec
  BY <1>3, <1>5 DEF BlockRec, FnRec
<1>7. Block.labels <= Len(labels) /\ Block.mark <= Active
  BY <1>4 DEF TopView, Block, Active, Cur, Depth
<1>8. fn.gotos <= Len(gotos)
  <2>1. fn.gotos <= blk.gotos /\ blk.gotos <= Len(gotos)
    BY <1>4 DEF TopView
  <2>2. blk.gotos \in Nat
    BY <1>3 DEF BlkRec
  <2> QED BY <1>3, <1>6, <2>1, <2>2
<1> QED BY <1>1, <1>3, <1>5, <1>6, <1>7, <1>8

(* A clamp changes no name, no mark and no path. *)
LEMMA LegalClamped ==
  ASSUME JumpsLegal, NEW from, NEW mark, gotos \in Seq(GotoRec), Clamped(gotos, gotos', from, mark), UNCHANGED <<jumps, seen>>
  PROVE  JumpsLegal'
<1> DEFINE gs2 == gotos'
<1>1. /\ gs2 \in Seq(GotoRec) /\ Len(gs2) = Len(gotos)
      /\ \A j \in 1..Len(gotos) :
           gs2[j].name = gotos[j].name /\ gs2[j].resolved = gotos[j].resolved /\ gs2[j].path = gotos[j].path
  BY DEF Clamped
<1>2. DOMAIN gs2 = 1..Len(gotos) /\ DOMAIN gotos = 1..Len(gotos)
  BY <1>1
<1>3. jumps' = jumps /\ seen' = seen
  OBVIOUS
<1>4. \A i \in DOMAIN gs2 : gs2[i].resolved \/
           \A s \in seen : ~(s[1] = gs2[i].name /\ s[2] \in gs2[i].path)
  BY <1>1, <1>2 DEF JumpsLegal, JumpsSeeTheirLabel
<1>5. \A i \in DOMAIN gotos' : gotos'[i].resolved \/
           \A s \in seen' : ~(s[1] = gotos'[i].name /\ s[2] \in gotos'[i].path)
  BY <1>3, <1>4
<1> HIDE DEF gs2
<1> QED BY <1>3, <1>5 DEF JumpsLegal, JumpsEnterNoScope, JumpsSeeTheirLabel

(* A block that is no function ends, with its scope. *)
LEMMA RewindKeeps ==
  ASSUME IInv, Block.kind \in {"do", "repeat", "until"}, ScopeRewind(Block.mark),
         labels' \in Seq(LabelRec), Len(labels') = Block.labels,
         \A q \in 1..Block.labels : labels'[q] = labels[q],
         blk' = Block.blk, open' = Front(open, Len(open) - 1), tail' = "free",
         UNCHANGED <<fn, globals, funcs, err, nextId, reached, assigned, jumps, seen>>
  PROVE  IInv'
<1> DEFINE mark == Block.mark
           D == Len(frames)
           fs2 == frames'
           gs2 == gotos'
           ls2 == labels'
           b2 == blk'
<1>1. NamesInv /\ JumpsInv /\ JumpsLegal
  BY DEF IInv
<1>2. /\ gotos \in Seq(GotoRec) /\ fn \in FnRec /\ mark \in 0..Active /\ mark \in Nat
      /\ open \in Seq(BlockRec) /\ Len(open) \in Nat
  BY BlockFacts, Counts
<1>3. NamesGood(frames, funcs, nextId, reached, assigned) /\ D = Depth /\ Len(frames[D].decls) = Active
      /\ nextId \in Nat /\ frames[D] \in FrameRec
  BY <1>1, Counts DEF NamesInv, Depth, Active, Cur
<1>4. /\ NamesGood(fs2, funcs, nextId, reached, assigned)
      /\ Len(fs2) = D
      /\ \A l \in 1..D : l # D => fs2[l] = frames[l]
      /\ fs2[D].decls = Front(frames[D].decls, mark)
  <2>1. fs2 = [frames EXCEPT ![Len(frames)].decls = Front(@, mark)]
    BY DEF ScopeRewind, Depth
  <2>2. mark \in 0..Len(frames[Len(frames)].decls)
    BY <1>2, <1>3
  <2>3. NamesGood(frames, funcs, nextId, reached, assigned)
    BY <1>3
  <2> HIDE DEF mark, fs2
  <2> DEFINE fs3 == [frames EXCEPT ![Len(frames)].decls = Front(@, mark)]
  <2>4. /\ NamesGood(fs3, funcs, nextId, reached, assigned)
        /\ Len(fs3) = Len(frames)
        /\ \A l \in 1..Len(frames) : l # Len(frames) => fs3[l] = frames[l]
        /\ fs3[Len(frames)].decls = Front(frames[Len(frames)].decls, mark)
    BY ONLY <2>2, <2>3, NamesRewound
  <2> HIDE DEF fs3
  <2>5. fs2 = fs3
    BY <2>1 DEF fs3
  <2> QED BY <2>4, <2>5
<1>5. Clamped(gotos, gs2, fn.gotos, mark)
  <2>1. gs2 = Clamp(gotos, mark)
    BY DEF ScopeRewind
  <2> HIDE DEF mark, gs2
  <2> QED BY <1>2, <2>1, ClampFacts
<1>6. Rewinds(frames, fs2, mark)
  <2>1. frames[D].decls \in Seq(DeclRec) /\ mark \in 0..Len(frames[D].decls)
    BY <1>2, <1>3, FrameFields
  <2> HIDE DEF fs2, mark
  <2>2. \A l \in 1..D : l # D => fs2[l].decls = frames[l].decls
    BY <1>4
  <2> QED BY <1>4, <2>1, <2>2 DEF Rewinds
<1>7. PICK vs : JumpsGood(vs, frames, open, labels, gotos, blk, fn, nextId, seen)
  BY <1>1 DEF JumpsInv
<1>8. JumpsGood(Front(vs, Len(vs) - 1), fs2, Front(open, Len(vs) - 1), ls2, gs2, b2, fn, nextId, seen)
  <2>1. /\ open[Len(open)].kind \in {"do", "repeat", "until"} /\ mark = open[Len(open)].mark
        /\ Len(ls2) = open[Len(open)].labels /\ b2 = open[Len(open)].blk
        /\ ls2 \in Seq(LabelRec) /\ \A q \in 1..Len(ls2) : ls2[q] = labels[q]
    BY DEF Block
  <2>2. nextId \in Nat /\ JumpsGood(vs, frames, open, labels, gotos, blk, fn, nextId, seen)
    BY <1>3, <1>7
  <2> HIDE DEF mark, fs2, gs2, ls2, b2
  <2> QED BY ONLY <2>1, <2>2, <1>5, <1>6, JBlockClosed
<1>9. Len(vs) = Len(open)
  BY ONLY <1>3, <1>7, JumpsParts
<1>10. JumpsInv'
  <2>1. JumpsGood(Front(vs, Len(vs) - 1), frames', open', labels', gotos', blk', fn', nextId', seen')
    BY <1>8, <1>9
  <2> QED BY <2>1 DEF JumpsInv
<1>11. NamesInv'
  BY <1>1, <1>4 DEF NamesInv
<1>12. JumpsLegal'
  <2>1. Clamped(gotos, gotos', fn.gotos, mark)
    BY <1>5
  <2> HIDE DEF mark
  <2> QED BY <1>1, <1>2, <2>1, LegalClamped
<1> QED BY <1>10, <1>11, <1>12 DEF IInv

LEMMA CloseBlockKeeps ==
  ASSUME IInv, CloseBlock
  PROVE  IInv'
<1>1. /\ Block.kind = "do" /\ Leave /\ ScopeRewind(Block.mark)
      /\ open' = Front(open, Len(open) - 1) /\ tail' = "free"
      /\ UNCHANGED <<fn, globals, funcs, err, nextId, reached, assigned, jumps, seen>>
  BY DEF CloseBlock
<1>2. labels \in Seq(LabelRec) /\ Block.labels \in 0..Len(labels)
  BY BlockFacts
<1>3. labels' = Front(labels, Block.labels) /\ blk' = Block.blk
  BY <1>1 DEF Leave
<1> DEFINE n == Block.labels
           ls2 == labels'
<1>4. /\ ls2 \in Seq(LabelRec) /\ Len(ls2) = n /\ \A q \in 1..n : ls2[q] = labels[q]
  <2>1. ls2 = Front(labels, n) /\ n \in 0..Len(labels)
    BY <1>2, <1>3
  <2> HIDE DEF n, ls2
  <2> QED BY <1>2, <2>1, FrontFacts
<1> QED BY <1>1, <1>3, <1>4, RewindKeeps

LEMMA EndUntilKeeps ==
  ASSUME IInv, EndUntil
  PROVE  IInv'
<1>1. /\ Block.kind = "until" /\ ScopeRewind(Block.mark)
      /\ open' = Front(open, Len(open) - 1) /\ tail' = "free"
      /\ UNCHANGED <<labels, blk, fn, globals, funcs, err, nextId, reached, assigned, jumps, seen>>
  BY DEF EndUntil
<1>2. labels \in Seq(LabelRec) /\ blk \in BlkRec /\ Block.blk \in BlkRec /\ Len(open) \in Nat /\ Len(open) >= 1
  BY BlockFacts
<1>3. nextId \in Nat
  BY Counts
<1>4. PICK vs : JumpsGood(vs, frames, open, labels, gotos, blk, fn, nextId, seen)
  BY DEF IInv, JumpsInv
<1> DEFINE L == Len(open)
           K == L - 1
<1>5. /\ Len(vs) = L /\ Shows(vs, open, blk, fn, Len(labels), Len(frames)) /\ Nested(vs, frames, nextId, Len(gotos))
  BY ONLY <1>3, <1>4, JumpsParts
<1>6. /\ vs[L].kind = "until" /\ vs[L].low = Block.labels
      /\ \A i \in 1..(L - 1) : Shown(vs[i], open[i + 1].blk, open[i + 1].fn, open[i + 1].labels)
      /\ Shown(vs[L], blk, fn, Len(labels))
  <2>1. L \in 1..L
    BY <1>2
  <2> QED BY <1>1, <1>5, <2>1 DEF Shows, Block
<1>7. L # 1
  BY <1>5, <1>6 DEF Nested
<1>8. L \in 2..L /\ K \in 1..(L - 1) /\ K + 1 = L /\ L - 1 = K
  <2>1. L \in Nat /\ L >= 1 /\ L # 1
    BY <1>2, <1>7
  <2> HIDE DEF L
  <2> QED BY ONLY <2>1
<1>9. vs[L].top = vs[L].low /\ vs[L].gotos = vs[K].gotos /\ vs[L].nact = vs[K].nact
  BY <1>5, <1>6, <1>8 DEF Nested
<1>10. Shown(vs[K], Block.blk, Block.fn, Block.labels)
  BY <1>6, <1>8 DEF Block
<1>11. Len(labels) = Block.labels /\ blk.gotos = Block.blk.gotos /\ blk.nact = Block.blk.nact
  BY <1>6, <1>9, <1>10 DEF Shown
<1>12. blk = Block.blk
  BY <1>2, <1>11 DEF BlkRec
<1> QED BY <1>1, <1>2, <1>11, <1>12, RewindKeeps
-----------------------------------------------------------------------------
(* What a block becomes when its body ends and its condition is read. *)
LEMMA KindChanged ==
  ASSUME NEW op, op \in Seq(BlockRec), Len(op) >= 1
  PROVE  Waits(op, [op EXCEPT ![Len(op)].kind = "until"])
<1> DEFINE op2 == [op EXCEPT ![Len(op)].kind = "until"]
           L == Len(op)
           r == op[L]
           r2 == [r EXCEPT !.kind = "until"]
<1>1. L \in Nat /\ L \in 1..L /\ r \in BlockRec
  OBVIOUS
<1>2. op2 = [op EXCEPT ![L] = r2]
  OBVIOUS
<1> HIDE DEF r, op2
<1>3. /\ r2 \in BlockRec /\ r2.kind = "until" /\ r2.mark = r.mark /\ r2.labels = r.labels
      /\ r2.blk = r.blk /\ r2.fn = r.fn /\ r2.bid = r.bid
  BY <1>1 DEF BlockRec, Kinds
<1> HIDE DEF r2
<1>4. /\ op2 \in Seq(BlockRec) /\ Len(op2) = L
      /\ op2[L] = r2 /\ \A j \in 1..L : j # L => op2[j] = op[j]
  BY <1>1, <1>2, <1>3, ChangeFacts
<1>5. op[L] = r
  BY DEF r
<1> HIDE DEF L
<1>6. \A i \in 1..L : op2[i].mark = op[i].mark /\ op2[i].labels = op[i].labels
                      /\ op2[i].blk = op[i].blk /\ op2[i].fn = op[i].fn /\ op2[i].bid = op[i].bid
  BY <1>3, <1>4, <1>5
<1>7. \A i \in 1..L : op2[i].kind = IF i = L THEN "until" ELSE op[i].kind
  BY <1>3, <1>4
<1>8. Waits(op, op2)
  BY <1>4, <1>6, <1>7 DEF L, Waits
<1> QED BY <1>8 DEF op2

LEMMA UntilKeeps ==
  ASSUME IInv, Until
  PROVE  IInv'
<1> DEFINE n == Block.labels
           ls2 == labels'
           op2 == open'
           b2 == blk'
<1>1. /\ Block.kind = "repeat" /\ Leave
      /\ op2 = [open EXCEPT ![Len(open)].kind = "until"] /\ tail' = "free"
      /\ UNCHANGED <<frames, gotos, fn, globals, funcs, err, nextId, reached, assigned, jumps, seen>>
  BY DEF Until
<1>2. labels \in Seq(LabelRec) /\ n \in 0..Len(labels) /\ open \in Seq(BlockRec) /\ Len(open) >= 1
  BY BlockFacts
<1>3. ls2 = Front(labels, n) /\ b2 = Block.blk
  BY <1>1 DEF Leave
<1>4. nextId \in Nat
  BY Counts
<1>5. PICK vs : JumpsGood(vs, frames, open, labels, gotos, blk, fn, nextId, seen)
  BY DEF IInv, JumpsInv
<1>6. NamesInv /\ JumpsLegal
  BY DEF IInv
<1>7. n = open[Len(open)].labels /\ b2 = open[Len(open)].blk /\ open[Len(open)].kind = "repeat"
  BY <1>1, <1>3 DEF Block
<1> HIDE DEF n, ls2, op2, b2
<1>8. /\ ls2 \in Seq(LabelRec) /\ Len(ls2) = n /\ \A q \in 1..n : ls2[q] = labels[q]
  BY <1>2, <1>3, FrontFacts
<1>9. Waits(open, op2)
  <2>1. open \in Seq(BlockRec) /\ Len(open) >= 1
    BY <1>2
  <2>2. Waits(open, [open EXCEPT ![Len(open)].kind = "until"])
    BY ONLY <2>1, KindChanged
  <2> QED BY <1>1, <2>2
<1>10. JumpsGood([vs EXCEPT ![Len(vs)] = Waiting(vs, Len(vs) - 1, Len(vs))],
                 frames, op2, ls2, gotos, b2, fn, nextId, seen)
  <2>1. Forgets(labels, ls2, open[Len(open)].labels)
    BY <1>7, <1>8 DEF Forgets
  <2> QED BY ONLY <2>1, <1>4, <1>5, <1>7, <1>9, JUntil
<1>11. JumpsInv'
  BY <1>1, <1>10 DEF JumpsInv, op2, ls2, b2
<1>12. NamesInv'
  BY <1>1, <1>6 DEF NamesInv
<1>13. JumpsLegal'
  BY <1>1, <1>6, LegalSame
<1> QED BY <1>11, <1>12, <1>13 DEF IInv

LEMMA CloseFunctionKeeps ==
  ASSUME IInv, CloseFunction
  PROVE  IInv'
<1> DEFINE D == Len(frames)
           K == D - 1
           n == Block.labels
           ng == fn.gotos
           f == frames[D]
           r == [upvals |-> f.upvals, nlocals |-> f.next, captured |-> f.captured, owners |-> f.owners]
           fs2 == frames'
           ls2 == labels'
           gs2 == gotos'
           b2 == blk'
           f2 == fn'
<1>1. /\ Block.kind = "function" /\ Leave
      /\ funcs' = Append(funcs, r) /\ fs2 = Front(frames, K)
      /\ gs2 = Front(gotos, ng) /\ f2 = Block.fn
      /\ open' = Front(open, Len(open) - 1) /\ tail' = "free"
      /\ UNCHANGED <<globals, err, nextId, reached, assigned, jumps, seen>>
  BY DEF CloseFunction, Cur, Depth
<1>2. /\ labels \in Seq(LabelRec) /\ n \in 0..Len(labels) /\ open \in Seq(BlockRec) /\ Len(open) >= 1
      /\ gotos \in Seq(GotoRec) /\ ng \in 0..Len(gotos)
  BY BlockFacts
<1>3. ls2 = Front(labels, n) /\ b2 = Block.blk
  BY <1>1 DEF Leave
<1>4. nextId \in Nat
  BY Counts
<1>5. PICK vs : JumpsGood(vs, frames, open, labels, gotos, blk, fn, nextId, seen)
  BY DEF IInv, JumpsInv
<1>6. NamesInv /\ JumpsLegal /\ NamesGood(frames, funcs, nextId, reached, assigned)
  BY DEF IInv, NamesInv
<1>7. n = open[Len(open)].labels /\ b2 = open[Len(open)].blk /\ open[Len(open)].kind = "function"
      /\ f2 = open[Len(open)].fn
  BY <1>1, <1>3 DEF Block
<1>8. frames \in Seq(FrameRec) /\ D \in Nat /\ D >= 1 /\ f \in FrameRec
  BY <1>6, NamesParts
<1>9. r \in FuncRec /\ r.captured = f.captured /\ r.owners = f.owners
  <2> HIDE DEF f
  <2> QED BY <1>8, FrameFields DEF FuncRec
<1>10. K \in 0..D
  BY <1>8
<1> HIDE DEF n, ng, ls2, gs2, fs2, b2, f2, r
<1>11. /\ ls2 \in Seq(LabelRec) /\ Len(ls2) = n /\ \A q \in 1..n : ls2[q] = labels[q]
  BY <1>2, <1>3, FrontFacts
<1>12. /\ gs2 \in Seq(GotoRec) /\ Len(gs2) = ng /\ \A q \in 1..ng : gs2[q] = gotos[q]
  BY <1>1, <1>2, FrontFacts
<1>13. Len(fs2) = D - 1 /\ \A l \in 1..(D - 1) : fs2[l] = frames[l]
  <2>1. K \in 0..Len(frames)
    BY <1>10
  <2> HIDE DEF K
  <2>2. Len(fs2) = K /\ \A l \in 1..K : fs2[l] = frames[l]
    BY <2>1, <1>1, <1>8, FrontFacts
  <2> QED BY <2>2 DEF K
<1>14. /\ D > 1
       /\ JumpsGood(Front(vs, Len(vs) - 1), fs2, Front(open, Len(vs) - 1), ls2, gs2, b2, f2, nextId, seen)
  <2>1. Forgets(labels, ls2, open[Len(open)].labels) /\ Returns(frames, fs2, gotos, gs2, fn.gotos)
    BY <1>7, <1>11, <1>12, <1>13 DEF ng, Forgets, Returns
  <2>2. /\ Len(frames) > 1
        /\ JumpsGood(Front(vs, Len(vs) - 1), fs2, Front(open, Len(vs) - 1), ls2, gs2, b2, f2, nextId, seen)
    BY ONLY <2>1, <1>4, <1>5, <1>7, JFunctionClosed
  <2> QED BY <2>2
<1>15. Len(vs) = Len(open)
  BY ONLY <1>4, <1>5, JumpsParts
<1>16. JumpsInv'
  <2>1. JumpsGood(Front(vs, Len(vs) - 1), frames', open', labels', gotos', blk', fn', nextId', seen')
    BY <1>1, <1>14, <1>15 DEF fs2, ls2, gs2, b2, f2
  <2> QED BY <2>1, <1>1 DEF JumpsInv
<1>17. NamesInv'
  <2>1. NamesGood(Front(frames, Len(frames) - 1), Append(funcs, r), nextId, reached, assigned)
    <3>1. Len(frames) > 1 /\ r.captured = frames[Len(frames)].captured /\ r.owners = frames[Len(frames)].owners
      BY <1>9, <1>14
    <3> QED BY ONLY <3>1, <1>6, <1>9, NamesPopped
  <2> QED BY <2>1, <1>1, <1>6 DEF NamesInv, fs2
<1>18. JumpsLegal'
  <2>1. \A i \in DOMAIN gs2 : gs2[i].resolved \/
           \A s \in seen : ~(s[1] = gs2[i].name /\ s[2] \in gs2[i].path)
    <3>1. DOMAIN gs2 = 1..ng /\ DOMAIN gotos = 1..Len(gotos) /\ 1..ng \subseteq 1..Len(gotos)
      BY <1>2, <1>12
    <3> QED BY <3>1, <1>6, <1>12 DEF JumpsLegal, JumpsSeeTheirLabel
  <2>2. \A i \in DOMAIN gotos' : gotos'[i].resolved \/
           \A s \in seen' : ~(s[1] = gotos'[i].name /\ s[2] \in gotos'[i].path)
    BY <2>1, <1>1 DEF gs2
  <2> QED BY <2>2, <1>1, <1>6 DEF JumpsLegal, JumpsEnterNoScope, JumpsSeeTheirLabel
<1> QED BY <1>16, <1>17, <1>18 DEF IInv
-----------------------------------------------------------------------------
(* The names of the program when the body of a function begins in the       *)
(* frames fs: nextId is the identity of its parameter, m the next one.      *)
BodyReady(fs, gs, m, rch, asg) ==
  /\ NamesGood(fs, funcs, m, rch, asg) /\ Unused(fs, funcs, rch, asg, nextId)
  /\ Grown(frames, fs, nextId) /\ FewGlobals(gs) /\ m \in Nat /\ nextId < m

(* The view of a function that is entered. *)
LEMMA FunctionOpens ==
  ASSUME NEW vs, NEW fs, NEW h, Len(h.decls) = 1, fs \in Seq(FrameRec), h \in FrameRec,
         JumpsGood(vs, fs, open, labels, gotos, blk, fn, nextId, seen),
         nextId \in Nat, nextId' \in Nat, nextId < nextId', Enter("function", 0, 1),
         fn' = [labels |-> Len(labels), gotos |-> Len(gotos)]
  PROVE  /\ \E ws : JumpsGood(ws, Append(fs, h), open', labels, gotos, blk', fn', nextId', seen)
         /\ tail' = "free"
<1> DEFINE D == Len(fs)
           lev == D + 1
           fs2 == Append(fs, h)
           nl == Len(labels)
           ng == Len(gotos)
           m == nextId'
           b2 == blk'
           f2 == fn'
           kind == "function"
           mark == 0
           act == 1
           e == EntryView(kind, m, mark, nl, lev, ng, act, ng, nl)
<1>1. /\ blk \in BlkRec /\ fn \in FnRec /\ labels \in Seq(LabelRec) /\ gotos \in Seq(GotoRec)
      /\ nl \in Nat /\ ng \in Nat /\ m \in Nat /\ nextId < m
  <2>1. JumpsGood(vs, fs, open, labels, gotos, blk, fn, nextId, seen) /\ nextId \in Nat
    OBVIOUS
  <2>2. /\ blk \in BlkRec /\ fn \in FnRec /\ labels \in Seq(LabelRec) /\ gotos \in Seq(GotoRec)
        /\ Len(labels) \in Nat /\ Len(gotos) \in Nat
    BY ONLY <2>1, JumpsParts
  <2> QED BY <2>2
<1>2. D \in Nat /\ lev \in Nat /\ lev = D + 1
  OBVIOUS
<1>3. /\ Len(fs2) = lev /\ fs2[lev] = h /\ \A l \in 1..D : fs2[l] = fs[l]
  <2> HIDE DEF fs2
  <2> QED BY AppendFacts DEF fs2
<1>4. kind \in Kinds /\ mark \in Nat /\ act \in Nat /\ mark <= act /\ act = 1 /\ kind = "function"
  BY DEF Kinds
<1>5. f2 \in FnRec /\ f2.labels = nl /\ f2.gotos = ng
  <2>1. f2 = [labels |-> nl, gotos |-> ng]
    OBVIOUS
  <2> HIDE DEF f2, nl, ng
  <2> QED BY <2>1, <1>1 DEF FnRec
<1>6. Enter(kind, mark, act)
  OBVIOUS
<1> HIDE DEF kind, mark, act
<1>7. /\ b2 \in BlkRec /\ b2.gotos = ng /\ b2.nact = act /\ tail' = "free"
      /\ \E r \in BlockRec :
           /\ open' = Append(open, r)
           /\ r.kind = kind /\ r.mark = mark /\ r.labels = nl /\ r.blk = blk
           /\ r.fn = fn /\ r.bid = m
  BY <1>1, <1>4, <1>6, EnterFields
<1>8. PICK r \in BlockRec :
        /\ open' = Append(open, r)
        /\ r.kind = kind /\ r.mark = mark /\ r.labels = nl /\ r.blk = blk
        /\ r.fn = fn /\ r.bid = m
  BY <1>7
<1> HIDE DEF D, lev, nl, ng, m, b2, f2, fs2
<1>9. /\ e \in ViewRec /\ e.kind = kind /\ e.bid = m /\ e.mark = mark /\ e.low = nl /\ e.top = nl
      /\ e.lev = lev /\ e.gotos = ng /\ e.nact = act /\ e.fgotos = ng /\ e.flabels = nl
  BY ONLY <1>1, <1>2, <1>4 DEF EntryView, ViewRec, e
<1> HIDE DEF e
<1>10. Opens(e, fs, fs2, Len(labels), Len(gotos), blk, fn, nextId, m)
  <2>1. e.lev = Len(fs) + 1 /\ e.low = Len(labels) /\ e.top = Len(labels) /\ e.gotos = Len(gotos)
        /\ e.fgotos = Len(gotos) /\ e.flabels = Len(labels)
    BY <1>2, <1>9 DEF D, nl, ng
  <2>2. Len(fs2[e.lev].decls) = 1 /\ Len(fs2) = e.lev
    BY <1>3, <1>9
  <2>3. e.nact <= Len(fs2[e.lev].decls) /\ Len(fs2[e.lev].decls) \in Nat /\ e.mark <= e.nact
    BY <2>2, <1>4, <1>9
  <2>4. \A l \in 1..Len(fs) : fs2[l].decls = fs[l].decls
    BY <1>3 DEF D
  <2> QED BY <2>1, <2>2, <2>3, <2>4, <1>1, <1>4, <1>9 DEF Opens
<1>11. Shown(e, b2, f2, Len(labels))
  BY <1>5, <1>7, <1>9 DEF Shown, nl
<1>12. JumpsGood(Append(vs, e), fs2, Append(open, r), labels, gotos, b2, f2, m, seen)
  <2>1. r.kind = e.kind /\ r.mark = e.mark /\ r.labels = Len(labels) /\ r.blk = blk /\ r.fn = fn /\ r.bid = m
    BY <1>8, <1>9 DEF nl
  <2>2. e.kind = "function"
    BY <1>4, <1>9
  <2>3. JumpsGood(vs, fs, open, labels, gotos, blk, fn, nextId, seen) /\ nextId \in Nat /\ m \in Nat
    BY <1>1
  <2> QED BY ONLY <2>1, <2>2, <2>3, <1>1, <1>5, <1>7, <1>8, <1>10, <1>11, JPushed
<1> QED BY <1>7, <1>8, <1>12 DEF m, fs2, b2, f2

LEMMA BodyKeeps ==
  ASSUME IInv, NEW fs, NEW gs, NEW ids \in Nat, NEW param \in Names, NEW vararg, NEW uses, NEW writes,
         BodyReady(fs, gs, nextId + ids, reached \cup uses, assigned \cup writes),
         FunctionBody(fs, gs, ids, param, vararg, uses, writes)
  PROVE  IInv'
<1> DEFINE attrib == IF vararg = "named" THEN "const" ELSE "none"
           va == vararg # "no"
           h == DeclareLocal([EmptyFrame EXCEPT !.vararg = va], param, attrib, nextId)
           rch == reached \cup uses
           asg == assigned \cup writes
           m == nextId + ids
           Begun == /\ Depth < MaxDepth
                    /\ nextId' = m /\ frames' = Append(fs, h) /\ globals' = gs
                    /\ reached' = rch /\ assigned' = asg
                    /\ Enter("function", 0, 1)
                    /\ fn' = [labels |-> Len(labels), gotos |-> Len(gotos)]
                    /\ UNCHANGED <<labels, gotos, funcs, err, jumps, seen>>
<1>1. (\E e : Raise(e)) \/ Begun
  BY DEF FunctionBody
<1>2. CASE \E e : Raise(e)
  BY <1>2, Raised
<1>3. CASE Begun
  <2>1. /\ NamesGood(fs, funcs, m, rch, asg) /\ Unused(fs, funcs, rch, asg, nextId)
        /\ Grown(frames, fs, nextId) /\ FewGlobals(gs) /\ m \in Nat /\ nextId < m
    BY DEF BodyReady
  <2>2. NamesInv /\ JumpsInv /\ JumpsLegal /\ nextId \in Nat /\ nextId >= 2
    BY NamesParts DEF IInv, NamesInv
  <2>3. attrib \in Attribs /\ va \in BOOLEAN
    BY DEF Attribs
  <2>4. Len(fs) = Depth /\ fs \in Seq(FrameRec)
    BY <2>1, NamesParts DEF Grown, Depth
  <2>5. Len(fs) < MaxDepth
    BY <1>3, <2>4
  <2> HIDE DEF attrib, va
  <2>6. Fresh(h, nextId)
    BY <2>2, <2>3, FunctionFrame
  <2>7. h \in FrameRec /\ Len(h.decls) = 1
    BY <2>6 DEF Fresh
  <2>8. /\ nextId' = m /\ frames' = Append(fs, h) /\ globals' = gs
        /\ reached' = rch /\ assigned' = asg
        /\ Enter("function", 0, 1)
        /\ fn' = [labels |-> Len(labels), gotos |-> Len(gotos)]
        /\ UNCHANGED <<labels, gotos, funcs, err, jumps, seen>>
    BY <1>3
  <2> HIDE DEF h, rch, asg, m
  <2>9. NamesGood(Append(fs, h), funcs, m, rch, asg)
    BY <2>1, <2>2, <2>5, <2>6, FunctionEntered
  <2>10. NamesInv'
    BY <2>1, <2>8, <2>9 DEF NamesInv
  <2>11. PICK vs : JumpsGood(vs, frames, open, labels, gotos, blk, fn, nextId, seen)
    BY <2>2 DEF JumpsInv
  <2>12. JumpsGood(vs, fs, open, labels, gotos, blk, fn, nextId, seen)
    <3>1. nextId <= nextId
      BY <2>2
    <3> QED BY ONLY <3>1, <2>1, <2>2, <2>11, JKept
  <2>13. /\ \E ws : JumpsGood(ws, Append(fs, h), open', labels, gotos, blk', fn', nextId', seen)
         /\ tail' = "free"
    <3>1. nextId' \in Nat /\ nextId < nextId'
      BY <2>1, <2>8
    <3> QED BY ONLY <3>1, <2>2, <2>4, <2>7, <2>8, <2>12, FunctionOpens
  <2>14. JumpsInv'
    BY <2>8, <2>13 DEF JumpsInv
  <2>15. JumpsLegal'
    BY <2>2, <2>8, LegalSame
  <2> QED BY <2>10, <2>14, <2>15 DEF IInv
<1> QED BY <1>1, <1>2, <1>3
-----------------------------------------------------------------------------
LEMMA FunctionExprKeeps ==
  ASSUME IInv, NEW param \in Names, NEW vararg, FunctionExpr(param, vararg)
  PROVE  IInv'
<1> DEFINE no == {}
           one == 1
<1>1. FunctionBody(frames, globals, one, param, vararg, no, no)
  BY DEF FunctionExpr
<1>2. /\ NamesGood(frames, funcs, nextId, reached, assigned) /\ FewGlobals(globals) /\ nextId \in Nat
      /\ frames \in Seq(FrameRec) /\ Len(frames) >= 1
  BY NamesParts DEF IInv, NamesInv
<1>3. nextId + one \in Nat /\ nextId <= nextId + one /\ nextId < nextId + one /\ one \in Nat /\ nextId <= nextId
  BY <1>2
<1>4. reached \cup no = reached /\ assigned \cup no = assigned
  OBVIOUS
<1> DEFINE m == nextId + one
<1> HIDE DEF m
<1>5. NamesGood(frames, funcs, m, reached, assigned)
  BY <1>2, <1>3, NamesLater DEF m
<1>6. Unused(frames, funcs, reached, assigned, nextId)
  BY <1>2, <1>3, NextUnused
<1>7. Grown(frames, frames, nextId)
  <2>1. \A f \in 1..Len(frames) : SameScope(frames[f], frames[f])
    BY DEF SameScope
  <2> QED BY <1>2, <2>1, SameGrown
<1>8. BodyReady(frames, globals, nextId + one, reached \cup no, assigned \cup no)
  BY <1>2, <1>3, <1>4, <1>5, <1>6, <1>7 DEF BodyReady, m
<1> HIDE DEF no, one
<1> QED BY <1>1, <1>3, <1>8, BodyKeeps

LEMMA DeclaredFunctionKeeps ==
  ASSUME IInv, NEW name \in Names, NEW kind \in {"local", "global"}, NEW param \in Names, NEW vararg,
         DeclaredFunction(name, kind, param, vararg)
  PROVE  IInv'
<1> DEFINE full == kind = "global" /\ name \notin globals /\ Cardinality(globals) >= MaxGlobals
           m == nextId + 1
           g == IF kind = "local" THEN DeclareLocal(Cur, name, "none", m)
                                  ELSE DeclareGlobal(Cur, name, "global", "none", m)
           gl == IF kind = "global" THEN globals \cup {name} ELSE globals
           fs2 == [frames EXCEPT ![Depth] = g]
           no == {}
           two == 2
<1>1. \/ \E e : Raise(e)
      \/ /\ Active < MaxLocals /\ ~full
         /\ FunctionBody(fs2, gl, two, param, vararg, no, no)
  BY DEF DeclaredFunction
<1>2. CASE \E e : Raise(e)
  BY <1>2, Raised
<1>3. CASE /\ Active < MaxLocals /\ ~full
           /\ FunctionBody(fs2, gl, two, param, vararg, no, no)
  <2>1. /\ NamesInv /\ NamesGood(frames, funcs, nextId, reached, assigned) /\ FewGlobals(globals) /\ nextId \in Nat
        /\ frames \in Seq(FrameRec) /\ Len(frames) >= 1
    BY NamesParts DEF IInv, NamesInv
  <2>2. m \in Nat /\ nextId <= m /\ m # nextId /\ m + 1 = nextId + two /\ nextId < m + 1 /\ two \in Nat /\ m + 1 \in Nat
        /\ nextId <= nextId
    BY <2>1
  <2>3. OneMore(Cur, g, m)
    <3>1. Cur \in FrameRec
      BY Counts
    <3> DEFINE at == "none"
               kd == "global"
    <3>2. at \in Attribs /\ kd \in {"global", "all"}
      BY DEF Attribs
    <3>3. g = DeclareLocal(Cur, name, at, m) \/ g = DeclareGlobal(Cur, name, kd, at, m)
      OBVIOUS
    <3> HIDE DEF g, m, at, kd
    <3>4. OneMore(Cur, DeclareLocal(Cur, name, at, m), m) /\ OneMore(Cur, DeclareGlobal(Cur, name, kd, at, m), m)
      BY <2>2, <3>1, <3>2, DeclaredIsOneMore
    <3> QED BY <3>3, <3>4
  <2> HIDE DEF g, m, two
  <2>4. NamesGood(fs2, funcs, m + 1, reached, assigned) /\ Grown(frames, fs2, nextId)
    <3>1. fs2 = [frames EXCEPT ![Depth] = g]
      OBVIOUS
    <3> HIDE DEF fs2
    <3> QED BY <3>1, <2>1, <2>2, <2>3, <1>3, CurDeclares
  <2>5. Unused(fs2, funcs, reached, assigned, nextId)
    <3>1. Unused(frames, funcs, reached, assigned, nextId)
      BY <2>1, <2>2, NextUnused
    <3>2. fs2 = [frames EXCEPT ![Len(frames)] = g] /\ OneMore(frames[Len(frames)], g, m)
      BY <2>3 DEF Depth, Cur
    <3> HIDE DEF fs2
    <3> QED BY <3>1, <3>2, <2>1, <2>2, StillUnused
  <2>6. FewGlobals(gl)
    <3>1. FewGlobals(globals) /\ MaxGlobals \in Nat
      BY <2>1, ScopesAssumption
    <3>2. CASE kind = "global" /\ name \notin globals
      <4>1. Cardinality(globals \cup {name}) = Cardinality(globals) + 1 /\ IsFiniteSet(globals \cup {name})
            /\ Cardinality(globals) \in Nat
        BY <3>1, <3>2, FS_AddElement, FS_CardinalityType DEF FewGlobals
      <4>2. Cardinality(globals) < MaxGlobals
        BY <3>1, <3>2, <4>1, <1>3
      <4> QED BY <3>1, <3>2, <4>1, <4>2 DEF FewGlobals
    <3>3. CASE ~(kind = "global" /\ name \notin globals)
      <4>1. gl = globals
        BY <3>3
      <4> QED BY <3>1, <4>1
    <3> QED BY <3>2, <3>3
  <2>7. reached \cup no = reached /\ assigned \cup no = assigned
    OBVIOUS
  <2>8. FunctionBody(fs2, gl, two, param, vararg, no, no)
    BY <1>3
  <2> HIDE DEF fs2, gl
  <2>9. BodyReady(fs2, gl, nextId + two, reached \cup no, assigned \cup no)
    BY <2>2, <2>4, <2>5, <2>6, <2>7 DEF BodyReady
  <2> HIDE DEF no
  <2> QED BY <2>2, <2>8, <2>9, BodyKeeps
<1> QED BY <1>1, <1>2, <1>3

LEMMA FunctionStmtKeeps ==
  ASSUME IInv, NEW name \in Names, NEW field \in BOOLEAN, NEW param \in Names, NEW vararg,
         FunctionStmt(name, field, param, vararg)
  PROVE  IInv'
<1> DEFINE r == ResolveName(name)
           uses == IF r.kind = "upval" THEN {r.id} ELSE {}
           writes == IF field THEN {} ELSE {r.id} \ {0}
           one == 1
<1>1. \/ \E e : Raise(e)
      \/ /\ r.kind # "error" /\ (field \/ Assignable(r))
         /\ FunctionBody(r.frames, r.globals, one, param, vararg, uses, writes)
  BY DEF FunctionStmt
<1> HIDE DEF r
<1>2. CASE \E e : Raise(e)
  BY <1>2, Raised
<1>3. CASE /\ r.kind # "error" /\ (field \/ Assignable(r))
           /\ FunctionBody(r.frames, r.globals, one, param, vararg, uses, writes)
  <2> DEFINE fs == r.frames
             gl == r.globals
             m == nextId + one
             rch == reached \cup uses
             asg == assigned \cup writes
  <2>1. NamesInv /\ nextId \in Nat /\ r = ResolveName(name) /\ r.kind # "error"
    BY <1>3, NamesParts DEF IInv, NamesInv, r
  <2>2. NamesGood(fs, funcs, nextId, ReachedBy(r), assigned) /\ FewGlobals(gl)
    BY <2>1, Resolved
  <2>3. ReachedBy(r) = rch
    BY DEF ReachedBy
  <2>4. NamesGood(fs, funcs, nextId, rch, asg)
    <3>1. CASE field
      <4>1. asg = assigned
        BY <3>1
      <4> QED BY <2>2, <2>3, <4>1
    <3>2. CASE ~field
      <4>1. asg = assigned \cup ({r.id} \ {0}) /\ Assignable(r)
        BY <3>2, <1>3
      <4>2. NamesGood(r.frames, funcs, nextId, ReachedBy(r), assigned \cup ({r.id} \ {0}))
        BY <2>1, <4>1, AssignedGood
      <4> QED BY <2>3, <4>1, <4>2
    <3> QED BY <3>1, <3>2
  <2>5. Grown(frames, fs, nextId)
    BY <2>1, ResolvedScopes
  <2>6. m \in Nat /\ nextId <= m /\ nextId < m /\ one \in Nat /\ nextId <= nextId
    BY <2>1
  <2> HIDE DEF fs, gl, m, rch, asg
  <2>7. NamesGood(fs, funcs, m, rch, asg)
    BY <2>4, <2>6, NamesLater
  <2>8. Unused(fs, funcs, rch, asg, nextId)
    BY <2>1, <2>4, <2>6, NextUnused
  <2>9. BodyReady(fs, gl, m, rch, asg)
    BY <2>2, <2>5, <2>6, <2>7, <2>8 DEF BodyReady
  <2>10. BodyReady(fs, gl, nextId + one, reached \cup uses, assigned \cup writes)
    BY <2>9 DEF m, rch, asg
  <2>11. FunctionBody(fs, gl, one, param, vararg, uses, writes)
    BY <1>3 DEF fs, gl
  <2> HIDE DEF one, uses, writes
  <2> QED BY <2>6, <2>10, <2>11, BodyKeeps
<1> QED BY <1>1, <1>2, <1>3
-----------------------------------------------------------------------------
LEMMA VarargKeeps ==
  ASSUME IInv, Vararg
  PROVE  IInv'
<1>1. \E e : Raise(e)
  BY DEF Vararg
<1> QED BY <1>1, Raised

(* The identities of a scope. *)
LEMMA IdsFacts ==
  ASSUME NEW ds \in Seq(DeclRec)
  PROVE  /\ IdsOf(ds) \in Seq(Nat) /\ Len(IdsOf(ds)) = Len(ds) /\ Len(ds) \in Nat
         /\ \A k \in 1..Len(ds) : IdsOf(ds)[k] = ds[k].id
<1>1. \A d \in DeclRec : d.id \in Nat
  BY DEF DeclRec
<1>2. Len(ds) \in Nat /\ DOMAIN ds = 1..Len(ds) /\ \A k \in 1..Len(ds) : ds[k].id \in Nat
  BY <1>1
<1> DEFINE n == Len(ds)
           ids == [k \in 1..n |-> ds[k].id]
<1>3. IdsOf(ds) = ids
  BY <1>2 DEF IdsOf
<1>4. ids \in Seq(Nat) /\ Len(ids) = n /\ \A k \in 1..n : ids[k] = ds[k].id
  <2> HIDE DEF n
  <2>1. n \in Nat /\ \A k \in 1..n : ds[k].id \in Nat
    BY <1>2 DEF n
  <2> QED BY <2>1
<1> QED BY <1>2, <1>3, <1>4

LEMMA GotoKeeps ==
  ASSUME IInv, NEW name \in LabelNames, Goto(name)
  PROVE  IInv'
<1> DEFINE ds == Cur.decls
           ids == IdsOf(ds)
           no == FALSE
           g == [name |-> name, nact |-> Active, resolved |-> no, ids |-> ids, path |-> Enclosing]
           gs2 == gotos'
<1>1. /\ Block.kind # "until" /\ tail' = "free"
      /\ gs2 = IF LabelVisible(name) THEN gotos ELSE Append(gotos, g)
      /\ UNCHANGED <<frames, open, labels, blk, fn, globals, funcs, err, nextId, reached, assigned,
                     jumps, seen>>
  BY DEF Goto, InBlock
<1>2. /\ NamesInv /\ JumpsInv /\ JumpsLegal /\ nextId \in Nat
      /\ frames \in Seq(FrameRec) /\ Len(frames) >= 1 /\ GoodFrame(Cur, nextId)
  BY NamesParts DEF IInv, NamesInv, Cur, Depth
<1>3. NamesInv'
  BY <1>1, <1>2 DEF NamesInv
<1>4. CASE LabelVisible(name)
  <2>1. UNCHANGED jumpVars /\ UNCHANGED open
    BY <1>1, <1>4 DEF jumpVars
  <2>2. Grown(frames, frames', nextId) /\ nextId' = nextId /\ nextId' \in Nat /\ nextId <= nextId'
        /\ tail' \in {"free", "ends", "more"}
    <3>1. \A f \in 1..Len(frames) : SameScope(frames[f], frames[f])
      BY DEF SameScope
    <3>2. Grown(frames, frames, nextId)
      BY <1>2, <3>1, SameGrown
    <3> QED BY <3>2, <1>1, <1>2
  <2>3. JumpsInv' /\ JumpsLegal'
    BY <2>1, <2>2, <1>2, JumpsSame
  <2> QED BY <2>3, <1>3 DEF IInv
<1>5. CASE ~LabelVisible(name)
  <2>1. PICK vs : JumpsGood(vs, frames, open, labels, gotos, blk, fn, nextId, seen)
    BY <1>2 DEF JumpsInv
  <2>2. ds \in Seq(DeclRec) /\ Len(ds) = Active /\ Active \in Nat
        /\ ds = frames[Len(frames)].decls /\ \A k \in 1..Len(ds) : ds[k].id < nextId
    <3>1. Cur \in FrameRec /\ Active \in Nat
      BY Counts
    <3>2. ds \in Seq(DeclRec) /\ \A k \in 1..Len(ds) : ds[k].id \in Nat
      BY <3>1, FrameFields
    <3>3. \A k \in 1..Len(ds) : ds[k].id \in 2..(nextId - 1)
      BY <1>2 DEF GoodFrame, GoodDecls
    <3>4. \A k \in 1..Len(ds) : ds[k].id < nextId
      BY <1>2, <3>2, <3>3
    <3> QED BY <3>1, <3>2, <3>4 DEF Active, Cur, Depth
  <2>3. /\ open \in Seq(BlockRec) /\ gotos \in Seq(GotoRec) /\ labels \in Seq(LabelRec)
    BY BlockFacts
  <2>4. Enclosing = Around(open) /\ Around(open) \in SUBSET Nat
    <3>1. Enclosing = Around(open)
      BY DEF Enclosing, Around, Innermost
    <3>2. \A i \in DOMAIN open : open[i].bid \in Nat
      <4>1. \A c \in BlockRec : c.bid \in Nat
        BY DEF BlockRec
      <4>2. \A i \in DOMAIN open : open[i] \in BlockRec
        BY <2>3
      <4> QED BY <4>1, <4>2
    <3> QED BY <3>1, <3>2 DEF Around
  <2> HIDE DEF ds, no
  <2>5. ids \in Seq(Nat)
    BY <2>2, IdsFacts
  <2>6. no \in BOOLEAN
    BY DEF no
  <2>7. g \in GotoRec /\ g.name = name /\ g.nact = Len(ds) /\ g.ids = IdsOf(ds) /\ g.path = Around(open)
    <3> DEFINE pt == Enclosing
               a == Active
    <3>1. pt \in SUBSET Nat /\ a \in Nat
      BY <2>2, <2>4
    <3>2. g.name = name /\ g.nact = a /\ g.ids = ids /\ g.path = pt
      OBVIOUS
    <3> HIDE DEF pt, a, ids
    <3>3. [name |-> name, nact |-> a, resolved |-> no, ids |-> ids, path |-> pt] \in GotoRec
      BY ONLY name \in LabelNames, <2>5, <2>6, <3>1 DEF GotoRec
    <3>4. g \in GotoRec
      BY <3>3 DEF pt, a
    <3> QED BY <3>2, <3>4, <2>2, <2>4 DEF pt, a, ids
  <2>8. gs2 = Append(gotos, g)
    BY <1>1, <1>5
  <2> HIDE DEF g, gs2
  <2>9. /\ JumpsGood(vs, frames, open, labels, Append(gotos, g), blk, fn, nextId, seen)
        /\ Answered(g, labels, fn, seen)
    <3>1. open[Len(open)].kind # "until"
      BY <1>1 DEF Block
    <3>2. nextId \in Nat
      BY <1>2
    <3>3. MadeAt(g, ds, frames, open, nextId)
      BY ONLY <3>1, <2>2, <2>7 DEF MadeAt
    <3> QED BY ONLY <3>2, <3>3, <2>1, JGotoMade
  <2>10. JumpsInv'
    BY <2>8, <2>9, <1>1 DEF JumpsInv, gs2
  <2>11. \A i \in DOMAIN gs2 : gs2[i].resolved \/
           \A s \in seen : ~(s[1] = gs2[i].name /\ s[2] \in gs2[i].path)
    <3>1. /\ DOMAIN gs2 = 1..(Len(gotos) + 1) /\ gs2[Len(gotos) + 1] = g /\ Len(gotos) \in Nat
          /\ \A j \in 1..Len(gotos) : gs2[j] = gotos[j]
          /\ DOMAIN gotos = 1..Len(gotos)
      <4>1. /\ gs2 \in Seq(GotoRec) /\ Len(gs2) = Len(gotos) + 1 /\ Len(gotos) \in Nat
            /\ gs2[Len(gotos) + 1] = g
            /\ \A j \in 1..Len(gotos) : gs2[j] = gotos[j]
        BY <2>3, <2>7, <2>8, AppendFacts
      <4> QED BY <2>3, <4>1
    <3>2. \A s \in seen : ~(s[1] = g.name /\ s[2] \in g.path)
      <4> SUFFICES ASSUME NEW s \in seen, s[1] = g.name, s[2] \in g.path PROVE FALSE
        OBVIOUS
      <4>1. PICK q \in (fn.labels + 1)..Len(labels) : labels[q].name = name
        BY <2>7, <2>9 DEF Answered
      <4>2. fn.labels \in Nat /\ Len(labels) \in Nat /\ DOMAIN labels = 1..Len(labels)
        BY <2>3, BlockFacts DEF FnRec
      <4>3. q \in DOMAIN labels /\ q > fn.labels
        BY <4>1, <4>2
      <4> QED BY <4>1, <4>3, <1>5 DEF LabelVisible
    <3>3. \A i \in DOMAIN gotos : gotos[i].resolved \/
           \A s \in seen : ~(s[1] = gotos[i].name /\ s[2] \in gotos[i].path)
      BY <1>2 DEF JumpsLegal, JumpsSeeTheirLabel
    <3> QED BY <3>1, <3>2, <3>3
  <2>12. JumpsLegal'
    <3>1. \A i \in DOMAIN gotos' : gotos'[i].resolved \/
           \A s \in seen' : ~(s[1] = gotos'[i].name /\ s[2] \in gotos'[i].path)
      BY <2>11, <1>1 DEF gs2
    <3> QED BY <3>1, <1>1, <1>2 DEF JumpsLegal, JumpsEnterNoScope, JumpsSeeTheirLabel
  <2> QED BY <1>3, <2>10, <2>12 DEF IInv
<1> QED BY <1>4, <1>5
-----------------------------------------------------------------------------
(* What a label has in scope. *)
ScopeAt(ends) == IF ends THEN Front(IdsOf(Cur.decls), blk.nact) ELSE IdsOf(Cur.decls)

LEMMA ScopeFacts ==
  ASSUME IInv, NEW ends \in BOOLEAN
  PROVE  Upto(ScopeAt(ends), Cur.decls, LabelNact(ends)) /\ LabelNact(ends) \in Nat
<1> DEFINE ds == Cur.decls
           ids == IdsOf(ds)
           m == blk.nact
<1>1. ds \in Seq(DeclRec) /\ Active = Len(ds) /\ Active \in Nat /\ m \in Nat /\ m <= Len(ds)
  <2>1. Cur \in FrameRec /\ m \in Nat /\ m <= Active /\ Active \in Nat
    BY Counts
  <2> QED BY <2>1, FrameFields DEF Active
<1> HIDE DEF ds, m
<1>2. ids \in Seq(Nat) /\ Len(ids) = Len(ds) /\ \A k \in 1..Len(ds) : ids[k] = ds[k].id
  BY <1>1, IdsFacts
<1>3. CASE ends
  <2> DEFINE to == Front(ids, m)
  <2>1. m \in 0..Len(ids)
    BY <1>1, <1>2
  <2>2. to \in Seq(Nat) /\ Len(to) = m /\ \A j \in 1..m : to[j] = ids[j]
    <3> HIDE DEF ids
    <3> QED BY <1>2, <2>1, FrontFacts
  <2>3. DOMAIN to = 1..m /\ \A k \in 1..m : to[k] = ds[k].id
    <3> HIDE DEF to, ids
    <3> QED BY <1>1, <1>2, <2>2
  <2>4. Upto(to, ds, m) /\ ScopeAt(ends) = to /\ LabelNact(ends) = m
    <3>1. ScopeAt(ends) = to /\ LabelNact(ends) = m
      BY <1>3 DEF ScopeAt, LabelNact, ds, m
    <3> HIDE DEF to, ids
    <3> QED BY <1>1, <2>2, <2>3, <3>1 DEF Upto
  <2> HIDE DEF to
  <2> QED BY <1>1, <2>4 DEF ds
<1>4. CASE ~ends
  <2>1. ScopeAt(ends) = ids /\ LabelNact(ends) = Active
    BY <1>4 DEF ScopeAt, LabelNact, ds
  <2> HIDE DEF ids
  <2>2. Upto(ids, ds, Active)
    BY <1>1, <1>2 DEF Upto
  <2> QED BY <1>1, <2>1, <2>2 DEF ds
<1> QED BY <1>3, <1>4

(* A goto that a label is for was made in the block of the label, and its   *)
(* count decides whether it may reach the label.                            *)
LEMMA LabelDecides ==
  ASSUME IInv, Block.kind # "until", NEW ends \in BOOLEAN, NEW i \in 1..Len(gotos)
  PROVE  /\ Block.bid \in gotos[i].path <=> i > blk.gotos
         /\ i > blk.gotos => (~(gotos[i].nact < LabelNact(ends)) <=> Reaches(ScopeAt(ends), gotos[i].ids))
<1>1. PICK vs : JumpsGood(vs, frames, open, labels, gotos, blk, fn, nextId, seen)
  BY DEF IInv, JumpsInv
<1>2. nextId \in Nat
  BY Counts
<1>3. open[Len(open)].kind # "until"
  BY DEF Block
<1>4. open[Len(open)].bid \in gotos[i].path <=> i > blk.gotos
  BY ONLY <1>1, <1>2, <1>3, i \in 1..Len(gotos), LabelSees
<1>5. ASSUME i > blk.gotos
      PROVE  ~(gotos[i].nact < LabelNact(ends)) <=> Reaches(ScopeAt(ends), gotos[i].ids)
  <2>1. Agrees(gotos[i], frames[Len(frames)].decls)
    BY ONLY <1>1, <1>2, <1>5, i \in 1..Len(gotos), LabelAgrees
  <2>2. gotos[i] \in GotoRec
    BY BlockFacts
  <2>3. Upto(ScopeAt(ends), frames[Len(frames)].decls, LabelNact(ends))
    BY ScopeFacts DEF Cur, Depth
  <2> DEFINE g == gotos[i]
             ds == frames[Len(frames)].decls
  <2>4. g \in GotoRec /\ Agrees(g, ds) /\ Upto(ScopeAt(ends), ds, LabelNact(ends))
    BY <2>1, <2>2, <2>3
  <2> HIDE DEF g, ds
  <2>5. ~(g.nact < LabelNact(ends)) <=> Reaches(ScopeAt(ends), g.ids)
    BY ONLY <2>4, CountsDecide
  <2> QED BY <2>5 DEF g
<1> QED BY <1>4, <1>5 DEF Block

(* The gotos a label is for, those it refuses, and the record of each. *)
Sought(name) == {i \in DOMAIN gotos : Matches(i, name)}
Refused(name, ends) == {i \in Sought(name) : gotos[i].nact < LabelNact(ends)}
JumpMade(i, name, ends) ==
  [from |-> gotos[i].ids, to |-> ScopeAt(ends), path |-> gotos[i].path,
   bid |-> Block.bid, accepted |-> i \notin Refused(name, ends)]
JumpsMade(name, ends) == {JumpMade(i, name, ends) : i \in Sought(name)}
MatchedBy(name) == [i \in DOMAIN gotos |-> [gotos[i] EXCEPT !.resolved = @ \/ i \in Sought(name)]]

LEMMA LabelParts ==
  ASSUME NEW name, NEW ends, Label(name, ends)
  PROVE  /\ Block.kind # "until"
         /\ jumps' = jumps \cup JumpsMade(name, ends)
         /\ \/ Discard
            \/ /\ gotos' = MatchedBy(name)
               /\ labels' = Append(labels, [name |-> name, nact |-> LabelNact(ends)])
               /\ seen' = seen \cup {<<name, Block.bid>>}
               /\ tail' \in {"free", "ends", "more"}
               /\ UNCHANGED <<frames, open, blk, fn, globals, funcs, nextId, reached, assigned>>
<1>1. Block.kind # "until"
  BY DEF Label
<1>2. jumps' = jumps \cup JumpsMade(name, ends)
  BY Zenon DEF Label, JumpsMade, JumpMade, Sought, Refused, ScopeAt
<1>3. \/ Discard
      \/ /\ gotos' = MatchedBy(name)
         /\ labels' = Append(labels, [name |-> name, nact |-> LabelNact(ends)])
         /\ seen' = seen \cup {<<name, Block.bid>>}
         /\ tail' = IF Block.kind = "repeat" THEN "free" ELSE IF ends THEN "ends" ELSE "more"
         /\ UNCHANGED <<frames, open, blk, fn, globals, funcs, nextId, reached, assigned>>
  BY Zenon DEF Label, MatchedBy, Sought
<1> QED BY <1>1, <1>2, <1>3

(* Whatever a label does, the jumps recorded are legal. *)
LEMMA LabelLegal ==
  ASSUME IInv, NEW name \in LabelNames, NEW ends \in BOOLEAN, Label(name, ends)
  PROVE  JumpsEnterNoScope' /\ \A j \in jumps' : j.bid \in j.path
<1>1. /\ Block.kind # "until"
      /\ jumps' = jumps \cup JumpsMade(name, ends)
  BY LabelParts
<1>2. \A j \in jumps : (j.accepted <=> Reaches(j.to, j.from)) /\ j.bid \in j.path
  BY DEF IInv, JumpsLegal, JumpsEnterNoScope, JumpsSeeTheirLabel, Reaches
<1>3. ASSUME NEW i \in Sought(name), NEW j, j = JumpMade(i, name, ends)
      PROVE  (j.accepted <=> Reaches(j.to, j.from)) /\ j.bid \in j.path
  <2>1. i \in 1..Len(gotos) /\ i > blk.gotos
    <3>1. DOMAIN gotos = 1..Len(gotos)
      BY BlockFacts
    <3> QED BY <3>1 DEF Sought, Matches
  <2>2. Block.bid \in gotos[i].path /\ (~(gotos[i].nact < LabelNact(ends)) <=> Reaches(ScopeAt(ends), gotos[i].ids))
    BY <1>1, <2>1, LabelDecides
  <2>3. i \notin Refused(name, ends) <=> ~(gotos[i].nact < LabelNact(ends))
    BY DEF Refused
  <2>4. /\ j.from = gotos[i].ids /\ j.to = ScopeAt(ends) /\ j.path = gotos[i].path
        /\ j.bid = Block.bid /\ (j.accepted <=> i \notin Refused(name, ends))
    BY <1>3, Zenon DEF JumpMade
  <2> QED BY <2>2, <2>3, <2>4
<1>4. \A j \in jumps' : (j.accepted <=> Reaches(j.to, j.from)) /\ j.bid \in j.path
  BY <1>1, <1>2, <1>3 DEF JumpsMade
<1>5. JumpsEnterNoScope'
  BY <1>4 DEF JumpsEnterNoScope, Reaches
<1> QED BY <1>4, <1>5

LEMMA MatchedFacts ==
  ASSUME gotos \in Seq(GotoRec), NEW name
  PROVE  /\ Matched(gotos, MatchedBy(name))
         /\ \A i \in 1..Len(gotos) :
              /\ MatchedBy(name)[i].name = gotos[i].name
              /\ MatchedBy(name)[i].resolved <=> gotos[i].resolved \/ i \in Sought(name)
<1> DEFINE T(i) == i \in Sought(name)
           h(i) == [gotos[i] EXCEPT !.resolved = @ \/ T(i)]
           gs2 == [i \in 1..Len(gotos) |-> h(i)]
<1>1. Len(gotos) \in Nat /\ DOMAIN gotos = 1..Len(gotos) /\ \A i \in 1..Len(gotos) : gotos[i] \in GotoRec
  OBVIOUS
<1>2. MatchedBy(name) = gs2
  BY <1>1, Zenon DEF MatchedBy
<1>3. ASSUME NEW i \in 1..Len(gotos)
      PROVE  /\ h(i) \in GotoRec /\ h(i).name = gotos[i].name /\ h(i).path = gotos[i].path
             /\ h(i).ids = gotos[i].ids /\ h(i).nact = gotos[i].nact
             /\ h(i).resolved <=> gotos[i].resolved \/ T(i)
  <2> DEFINE g == gotos[i]
             t == g.resolved \/ T(i)
             k == [g EXCEPT !.resolved = t]
  <2>1. g \in GotoRec
    BY <1>1
  <2>2. t \in BOOLEAN
    OBVIOUS
  <2>3. h(i) = k
    OBVIOUS
  <2> HIDE DEF g, t, h
  <2>4. k \in GotoRec /\ k.name = g.name /\ k.path = g.path /\ k.ids = g.ids /\ k.nact = g.nact /\ k.resolved = t
    BY <2>1, <2>2 DEF GotoRec
  <2> HIDE DEF k
  <2>5. h(i) \in GotoRec /\ h(i).name = g.name /\ h(i).path = g.path /\ h(i).ids = g.ids /\ h(i).nact = g.nact
        /\ h(i).resolved = t
    BY <2>3, <2>4
  <2> QED BY <2>5 DEF g, t
<1> HIDE DEF h
<1>4. gs2 \in Seq(GotoRec) /\ Len(gs2) = Len(gotos) /\ \A i \in 1..Len(gotos) : gs2[i] = h(i)
  <2>1. \A i \in 1..Len(gotos) : h(i) \in GotoRec
    BY <1>3
  <2> QED BY <2>1, <1>1
<1> HIDE DEF gs2
<1>5. Matched(gotos, gs2)
  BY <1>3, <1>4 DEF Matched
<1>6. \A i \in 1..Len(gotos) : gs2[i].name = gotos[i].name /\ (gs2[i].resolved <=> gotos[i].resolved \/ i \in Sought(name))
  BY <1>3, <1>4
<1> QED BY <1>2, <1>5, <1>6

LEMMA LabelKeeps ==
  ASSUME IInv, NEW name \in LabelNames, NEW ends \in BOOLEAN, Label(name, ends)
  PROVE  IInv'
<1>1. JumpsEnterNoScope' /\ \A j \in jumps' : j.bid \in j.path
  BY LabelLegal
<1>2. Block.kind # "until"
  BY LabelParts
<1>3. CASE Discard
  <2>1. NamesInv' /\ JumpsInv' /\ gotos' = <<>>
    BY <1>3, Discarded
  <2> QED BY <1>1, <2>1 DEF IInv, JumpsLegal, JumpsSeeTheirLabel
<1>4. CASE ~Discard
  <2> DEFINE lb == [name |-> name, nact |-> LabelNact(ends)]
             ns == <<name, Block.bid>>
             sn2 == seen \cup {ns}
             gs2 == MatchedBy(name)
             ls2 == Append(labels, lb)
  <2>1. /\ gotos' = gs2 /\ labels' = ls2 /\ seen' = sn2 /\ tail' \in {"free", "ends", "more"}
        /\ UNCHANGED <<frames, open, blk, fn, globals, funcs, nextId, reached, assigned>>
    BY <1>4, LabelParts
  <2>2. NamesInv'
    BY <2>1 DEF IInv, NamesInv
  <2>3. PICK vs : JumpsGood(vs, frames, open, labels, gotos, blk, fn, nextId, seen)
    BY DEF IInv, JumpsInv
  <2>4. nextId \in Nat /\ LabelNact(ends) \in Nat
    BY Counts, ScopeFacts
  <2>5. gotos \in Seq(GotoRec) /\ Block = open[Len(open)]
    BY BlockFacts DEF Block
  <2>6. LabelIn(lb, ns, open)
    <3>1. lb \in LabelRec /\ lb.name = name
      BY <2>4 DEF LabelRec
    <3> HIDE DEF lb
    <3> QED BY <1>2, <2>5, <3>1 DEF LabelIn
  <2>7. /\ Matched(gotos, gs2)
        /\ \A i \in 1..Len(gotos) : gs2[i].name = gotos[i].name
                                    /\ (gs2[i].resolved <=> gotos[i].resolved \/ i \in Sought(name))
    BY <2>5, MatchedFacts
  <2>8. sn2 = seen \cup {ns}
    OBVIOUS
  <2>9. ns[1] = name /\ ns[2] = Block.bid
    OBVIOUS
  <2> HIDE DEF gs2, lb, ns, sn2
  <2>10. \E ws : JumpsGood(ws, frames, open, ls2, gs2, blk, fn, nextId, sn2)
    BY ONLY <2>3, <2>4, <2>6, <2>7, <2>8, JLabelMade
  <2> HIDE DEF ls2
  <2>11. JumpsInv'
    BY <2>1, <2>10 DEF JumpsInv
  <2>12. \A i \in DOMAIN gs2 : gs2[i].resolved \/ \A s \in sn2 : ~(s[1] = gs2[i].name /\ s[2] \in gs2[i].path)
    <3> SUFFICES ASSUME NEW i \in DOMAIN gs2, ~gs2[i].resolved,
                        NEW s \in sn2, s[1] = gs2[i].name, s[2] \in gs2[i].path
                 PROVE  FALSE
      OBVIOUS
    <3>1. i \in 1..Len(gotos) /\ DOMAIN gotos = 1..Len(gotos) /\ gs2[i].path = gotos[i].path
      BY <2>5, <2>7 DEF Matched
    <3>2. ~gotos[i].resolved /\ i \notin Sought(name) /\ gs2[i].name = gotos[i].name
      BY <2>7, <3>1
    <3>3. CASE s \in seen
      BY <3>1, <3>2, <3>3 DEF IInv, JumpsLegal, JumpsSeeTheirLabel
    <3>4. CASE s = ns
      <4>1. gotos[i].name = name /\ Block.bid \in gotos[i].path
        BY <2>9, <3>1, <3>2, <3>4
      <4>2. i > blk.gotos
        BY <1>2, <3>1, <4>1, LabelDecides
      <4> QED BY <3>1, <3>2, <4>1, <4>2 DEF Sought, Matches
    <3> QED BY <2>8, <3>3, <3>4
  <2>13. JumpsSeeTheirLabel'
    BY <1>1, <2>1, <2>12 DEF JumpsSeeTheirLabel
  <2> QED BY <1>1, <2>2, <2>11, <2>13 DEF IInv, JumpsLegal
<1> QED BY <1>3, <1>4
-----------------------------------------------------------------------------
LEMMA ListsKeep ==
  ASSUME IInv, NEW l \in Lists, NEW rhs \in Names, Local(l[1], l[2], rhs)
  PROVE  IInv'
<1> DEFINE nms == l[1]
           ats == l[2]
<1>1. nms \in Seq(Names) /\ ats \in Seq(Attribs) /\ Len(nms) = Len(ats) /\ Local(nms, ats, rhs)
  BY ListsAssumption
<1> HIDE DEF nms, ats
<1> QED BY <1>1, LocalKeeps

(* Functions are made with no named vararg, or with one. *)
LEMMA FunctionsKeep ==
  ASSUME IInv,
         \/ \E n \in Names, field \in BOOLEAN : FunctionStmt(n, field, Param, "no")
         \/ \E k \in {"local", "global"} : DeclaredFunction(Param, k, Param, "no")
         \/ \E v \in {"no", "named"} : FunctionExpr(Param, v)
  PROVE  IInv'
<1> DEFINE no == "no"
<1>1. Param \in Names
  BY ScopesAssumption
<1> HIDE DEF no
<1>2. ASSUME NEW n \in Names, NEW field \in BOOLEAN, FunctionStmt(n, field, Param, no) PROVE IInv'
  BY <1>1, <1>2, FunctionStmtKeeps
<1>3. ASSUME NEW k \in {"local", "global"}, DeclaredFunction(Param, k, Param, no) PROVE IInv'
  BY <1>1, <1>3, DeclaredFunctionKeeps
<1>4. ASSUME NEW v, FunctionExpr(Param, v) PROVE IInv'
  BY <1>1, <1>4, FunctionExprKeeps
<1> QED BY <1>2, <1>3, <1>4 DEF no

LEMMA NextKeeps ==
  ASSUME IInv, [Next]_vars
  PROVE  IInv'
<1>1. CASE UNCHANGED vars
  <2>1. /\ frames' = frames /\ open' = open /\ labels' = labels /\ gotos' = gotos /\ blk' = blk
        /\ fn' = fn /\ globals' = globals /\ funcs' = funcs /\ tail' = tail /\ nextId' = nextId
        /\ reached' = reached /\ assigned' = assigned /\ jumps' = jumps /\ seen' = seen
    BY <1>1 DEF vars
  <2>2. NamesInv'
    BY <2>1 DEF IInv, NamesInv
  <2>3. JumpsInv'
    BY <2>1 DEF IInv, JumpsInv
  <2>4. JumpsLegal'
    BY <2>1 DEF IInv, JumpsLegal, JumpsEnterNoScope, JumpsSeeTheirLabel
  <2> QED BY <2>2, <2>3, <2>4 DEF IInv
<1>2. Param \in Names
  BY ScopesAssumption
<1>3. CASE \E n \in Names : Use(n)
  BY <1>3, UseKeeps
<1>4. CASE \E n \in Names : Assign(n)
  BY <1>4, AssignKeeps
<1>5. CASE \/ \E n \in Names, field \in BOOLEAN : FunctionStmt(n, field, Param, "no")
           \/ \E k \in {"local", "global"} : DeclaredFunction(Param, k, Param, "no")
           \/ \E v \in {"no", "named"} : FunctionExpr(Param, v)
  BY <1>5, FunctionsKeep
<1>6. CASE \E l \in Lists, rhs \in Names : Local(l[1], l[2], rhs)
  BY <1>6, ListsKeep
<1>7. CASE OpenFor(Param)
  BY <1>2, <1>7, OpenForKeeps
<1>8. CASE CloseBlock
  BY <1>8, CloseBlockKeeps
<1>9. CASE Until
  BY <1>9, UntilKeeps
<1>10. CASE EndUntil
  BY <1>10, EndUntilKeeps
<1>11. CASE CloseFunction
  BY <1>11, CloseFunctionKeeps
<1>12. CASE Vararg
  BY <1>12, VarargKeeps
<1>13. CASE \E k \in {"do", "repeat"} : OpenBlock(k)
  BY <1>13, OpenBlockKeeps
<1>14. CASE \E k \in {"global", "all"}, a \in Attribs : Global(Param, k, a)
  BY <1>2, <1>14, GlobalKeeps
<1>15. CASE \E l \in LabelNames : Goto(l)
  BY <1>15, GotoKeeps
<1>16. CASE \E l \in LabelNames, ends \in BOOLEAN : Label(l, ends)
  BY <1>16, LabelKeeps
<1>17. [Next]_vars => 
          \/ UNCHANGED vars \/ (\E n \in Names : Use(n)) \/ (\E n \in Names : Assign(n))
          \/ (\/ \E n \in Names, field \in BOOLEAN : FunctionStmt(n, field, Param, "no")
              \/ \E k \in {"local", "global"} : DeclaredFunction(Param, k, Param, "no")
              \/ \E v \in {"no", "named"} : FunctionExpr(Param, v))
          \/ (\E l \in Lists, rhs \in Names : Local(l[1], l[2], rhs))
          \/ OpenFor(Param) \/ CloseBlock \/ Until \/ EndUntil \/ CloseFunction \/ Vararg
          \/ (\E k \in {"do", "repeat"} : OpenBlock(k))
          \/ (\E k \in {"global", "all"}, a \in Attribs : Global(Param, k, a))
          \/ (\E l \in LabelNames : Goto(l))
          \/ (\E l \in LabelNames, ends \in BOOLEAN : Label(l, ends))
  BY Zenon DEF Next
<1> QED BY <1>1, <1>3, <1>4, <1>5, <1>6, <1>7, <1>8, <1>9, <1>10, <1>11, <1>12, <1>13, <1>14, <1>15, <1>16, <1>17

(* Frames, views of blocks and the records of jumps stay as IInv has them   *)
(* through every step of parsing.                                           *)
THEOREM Invariant == Spec => []IInv
<1>1. Init => IInv
  BY InitInv
<1>2. IInv /\ [Next]_vars => IInv'
  BY NextKeeps
<1> QED BY <1>1, <1>2, PTL DEF Spec
-----------------------------------------------------------------------------
LEMMA InvFrames ==
  ASSUME IInv
  PROVE  FramesExact
<1>1. /\ frames \in Seq(FrameRec) /\ Depth \in 1..MaxDepth /\ MaxDepth \in Nat /\ DOMAIN frames = 1..Depth
      /\ (\A f \in 1..Depth : frames[f] \in FrameRec /\ GoodFrame(frames[f], nextId))
      /\ AllExact(frames, funcs, reached) /\ funcs \in Seq(FuncRec) /\ DOMAIN funcs = 1..Len(funcs)
  BY NamesParts DEF IInv, NamesInv, Depth
<1>2. ASSUME NEW f \in 1..Depth
      PROVE  /\ Len(Decls(f)) <= MaxLocals /\ Len(frames[f].upvals) <= MaxUpvals
             /\ \A i \in DOMAIN Decls(f) : Decls(f)[i].slot < frames[f].next
             /\ \A a, b \in frames[f].owners : a[1] = b[1] => a = b
  <2> DEFINE h == frames[f]
  <2>1. h \in FrameRec /\ GoodFrame(h, nextId) /\ Decls(f) = h.decls
    BY <1>1 DEF Decls
  <2> HIDE DEF h
  <2>2. /\ Len(h.decls) <= MaxLocals /\ Len(h.upvals) <= MaxUpvals
        /\ \A a, b \in h.owners : a[1] = b[1] => a = b
    BY <2>1 DEF GoodFrame, GoodDecls, GoodOwners
  <2>3. h.next \in Nat /\ DOMAIN h.decls = 1..Len(h.decls)
    BY <2>1, FrameFields
  <2>4. ASSUME NEW i \in 1..Len(h.decls) PROVE h.decls[i].slot < h.next
    <3>1. /\ h.decls[i].kind = "local" => h.decls[i].slot \in 0..(h.next - 1)
          /\ h.decls[i].kind # "local" => h.decls[i].slot = -1
      BY <2>1 DEF GoodFrame, GoodDecls
    <3> QED BY <2>3, <3>1
  <2> QED BY <2>1, <2>2, <2>3, <2>4 DEF h
<1>3. blk.nact \in 0..MaxLocals /\ blk.gotos \in 0..Len(gotos)
  <2>1. /\ Active \in Nat /\ Active <= MaxLocals /\ MaxLocals \in Nat
        /\ blk.nact \in Nat /\ blk.nact <= Active /\ blk.gotos \in Nat /\ blk.gotos <= Len(gotos)
    BY Counts
  <2>2. Len(gotos) \in Nat
    BY BlockFacts
  <2> QED BY <2>1, <2>2
<1>4. TypeOK
  BY <1>1, <1>2, <1>3 DEF TypeOK, IInv, NamesInv, FewGlobals, JumpsInv
<1>5. SlotsNeverShared
  BY <1>1, <1>2 DEF SlotsNeverShared
<1>6. CapturedExact
  BY <1>1, Zenon DEF CapturedExact, AllExact, Exact, Depth
<1> QED BY <1>4, <1>5, <1>6 DEF FramesExact

LEMMA InvUpvalues ==
  ASSUME IInv
  PROVE  UpvaluesKeepMeaning
<1>1. NamesGood(frames, funcs, nextId, reached, assigned)
  BY DEF IInv, NamesInv
<1>2. /\ Depth = Len(frames) /\ Depth \in Nat
      /\ \A f \in 1..Depth : DOMAIN frames[f].upvals = 1..Len(frames[f].upvals)
                             /\ DOMAIN frames[f].decls = 1..Len(frames[f].decls)
  <2>1. Len(frames) \in Nat /\ \A f \in 1..Len(frames) : frames[f] \in FrameRec
    BY <1>1, NamesParts
  <2>2. \A f \in 1..Len(frames) : frames[f].upvals \in Seq(UpvalRec) /\ frames[f].decls \in Seq(DeclRec)
    BY <2>1, FrameFields
  <2> QED BY <2>1, <2>2 DEF Depth
<1>3. ASSUME NEW f \in 2..Depth, NEW i \in DOMAIN frames[f].upvals
      PROVE  LET o == Origin(frames, f, i)
             IN  \E k \in DOMAIN Decls(o.frame) :
                    Decls(o.frame)[k].slot = o.slot /\ Decls(o.frame)[k].id = frames[f].upvals[i].id
  <2> DEFINE o == Origin(frames, f, i)
  <2>1. f \in 1..Len(frames) /\ i \in 1..Len(frames[f].upvals)
    BY <1>2
  <2> HIDE DEF o
  <2>2. LeadsHome(frames, f, i, o)
    BY <1>1, <2>1, OriginFacts DEF o
  <2>3. /\ o.frame \in 1..Depth
        /\ \E k \in 1..Len(frames[o.frame].decls) :
              frames[o.frame].decls[k].slot = o.slot /\ frames[o.frame].decls[k].id = frames[f].upvals[i].id
    BY <1>2, <2>2 DEF LeadsHome
  <2>4. \E k \in DOMAIN Decls(o.frame) :
           Decls(o.frame)[k].slot = o.slot /\ Decls(o.frame)[k].id = frames[f].upvals[i].id
    BY <1>2, <2>3 DEF Decls
  <2> QED BY <2>4, Zenon DEF o
<1> QED BY <1>3, Zenon DEF UpvaluesKeepMeaning

(* The tables of every function being parsed stay within their limits, a    *)
(* slot is one variable's for good, and captured marks exactly the slots    *)
(* that inner functions use, as codegen's boxes need (src/parser.c).        *)
THEOREM FramesStayExact == Spec => []FramesExact
<1>1. IInv => FramesExact
  BY InvFrames
<1> QED BY <1>1, Invariant, PTL

(* An upvalue, followed through any number of functions, is the variable    *)
(* that its name denotes, and that variable is still in scope               *)
(* (resolve_in_frame, frame_add_upvalue).                                   *)
THEOREM UpvaluesLeadHome == Spec => []UpvaluesKeepMeaning
<1>1. IInv => UpvaluesKeepMeaning
  BY InvUpvalues
<1> QED BY <1>1, Invariant, PTL

(* check_assignable and upval_is_const let no assignment reach a <const>,   *)
(* across any number of function boundaries.                                *)
THEOREM ConstsStayUnassigned == Spec => []ConstsNeverAssigned
<1>1. ASSUME IInv PROVE ConstsNeverAssigned
  <2>1. Spared(frames, assigned) /\ frames \in Seq(FrameRec) /\ \A f \in 1..Len(frames) : frames[f] \in FrameRec
    BY <1>1, NamesParts DEF IInv, NamesInv
  <2>2. DOMAIN frames = 1..Len(frames) /\ \A f \in 1..Len(frames) : DOMAIN frames[f].decls = 1..Len(frames[f].decls)
    <3>1. \A f \in 1..Len(frames) : frames[f].decls \in Seq(DeclRec)
      BY <2>1, FrameFields
    <3> QED BY <2>1, <3>1
  <2> QED BY <2>1, <2>2 DEF Spared, ConstsNeverAssigned, Decls
<1> QED BY <1>1, Invariant, PTL

(* A forward goto is accepted exactly when the declarations say so, though  *)
(* the code compares counts, and is matched with a label it can see         *)
(* (goto_record, label_record, scope_rewind).                               *)
THEOREM JumpsStayLegal == Spec => []JumpsLegal
<1>1. IInv => JumpsLegal
  BY DEF IInv
<1> QED BY <1>1, Invariant, PTL
=============================================================================
