---------------------------- MODULE Shapes_proof ----------------------------
(***************************************************************************)
(* Theorems about Shapes, for every set of tables, keys, access sites,      *)
(* values and cache slots, and any number of shapes.                       *)
(*                                                                         *)
(* The argument.  A shape is alive while a table has it or can be given it. *)
(* Every store, whichever way its table gets the key, is a move: only a     *)
(* shape that the table owns changes its keys, and only at their end while  *)
(* it stays alive; what the table ends up with is that shape, a new one, or *)
(* one on offer.  So a shape that is dead stays dead, and what a cache      *)
(* says of a living shape stays true of it.                                 *)
(***************************************************************************)
EXTENDS Shapes, SequenceTheorems, TLAPS

(* The key layouts are typed.                                               *)
KidRec == [key : StrKeys \cup {Nil}, kid : Nat]
ShapeRec == [keys : Seq(AllKeys \cup {Nil}), sized : Nat, kids : [Slots -> KidRec]]

IsKid(shs, q) == \E p \in 1..Len(shs), s \in Slots : shs[p].kids[s].kid = q

(* A transition is empty, or leads to the parent's keys and its own.        *)
GoodKid(shs, p, e) ==
  \/ e.key = Nil /\ e.kid = None
  \/ /\ e.key \in StrKeys /\ e.kid \in 1..Len(shs)
     /\ shs[e.kid].keys = Append(shs[p].keys, e.key)
Tree(shs) ==
  /\ shs \in Seq(ShapeRec) /\ Len(shs) >= 1
  /\ shs[Root].keys = <<>>
  /\ \A p \in 1..Len(shs), s \in Slots : GoodKid(shs, p, shs[p].kids[s])

(* An empty transition cache is typed. *)
LEMMA NoKidsType == NoKids \in [Slots -> KidRec]
  BY DEF NoKids, KidRec, None

(* A new shape has the keys it is made with and no transitions. *)
LEMMA NewShapeType ==
  ASSUME NEW ks \in Seq(AllKeys \cup {Nil}), NEW n \in Nat
  PROVE  /\ NewShape(ks, n) \in ShapeRec
         /\ NewShape(ks, n).keys = ks
         /\ NewShape(ks, n).kids = NoKids
         /\ NewShape(ks, n).sized = n
  BY NoKidsType DEF NewShape, ShapeRec

(* A shape whose keys alone change. *)
LEMMA KeysChanged ==
  ASSUME NEW q \in ShapeRec, NEW ks
  PROVE  [q EXCEPT !.keys = ks] = [keys |-> ks, sized |-> q.sized, kids |-> q.kids]
  BY DEF ShapeRec

(* Caching transition e in slot z of shape sh. *)
Cached(shs, sh, z, e) == [shs EXCEPT ![sh].kids[z] = e]

(* Caching a transition changes that slot of that shape only. *)
LEMMA KidCached ==
  ASSUME NEW shs \in Seq(ShapeRec), NEW sh \in 1..Len(shs), NEW z \in Slots, NEW e \in KidRec
  PROVE  /\ Cached(shs, sh, z, e) \in Seq(ShapeRec)
         /\ Len(Cached(shs, sh, z, e)) = Len(shs)
         /\ \A p \in 1..Len(shs) : Cached(shs, sh, z, e)[p].keys = shs[p].keys
         /\ \A p \in 1..Len(shs) : p # sh => Cached(shs, sh, z, e)[p] = shs[p]
         /\ \A s \in Slots : Cached(shs, sh, z, e)[sh].kids[s] = IF s = z THEN e ELSE shs[sh].kids[s]
<1> DEFINE r == [shs[sh] EXCEPT !.kids[z] = e]
           S == Cached(shs, sh, z, e)
<1>1. shs[sh] \in ShapeRec
  OBVIOUS
<1>2. r \in ShapeRec
  BY <1>1 DEF ShapeRec
<1>3. r.keys = shs[sh].keys /\ \A s \in Slots : r.kids[s] = IF s = z THEN e ELSE shs[sh].kids[s]
  BY <1>1 DEF ShapeRec
<1>4. S = [shs EXCEPT ![sh] = r]
  BY DEF Cached
<1> HIDE DEF r, S
<1>5. S \in Seq(ShapeRec) /\ Len(S) = Len(shs) /\ S[sh] = r /\ \A p \in 1..Len(shs) : p # sh => S[p] = shs[p]
  BY <1>2, <1>4
<1>6. /\ S \in Seq(ShapeRec) /\ Len(S) = Len(shs)
      /\ \A p \in 1..Len(shs) : S[p].keys = shs[p].keys
      /\ \A p \in 1..Len(shs) : p # sh => S[p] = shs[p]
      /\ \A s \in Slots : S[sh].kids[s] = IF s = z THEN e ELSE shs[sh].kids[s]
  BY <1>3, <1>5
<1> QED BY <1>6 DEF S
-----------------------------------------------------------------------------
(* A shape allocated leaves the others as they are. *)
LEMMA ShapeAdded ==
  ASSUME NEW shs \in Seq(ShapeRec), NEW r \in ShapeRec
  PROVE  /\ Append(shs, r) \in Seq(ShapeRec) /\ Len(Append(shs, r)) = Len(shs) + 1
         /\ \A p \in 1..Len(shs) : Append(shs, r)[p] = shs[p]
         /\ Append(shs, r)[Len(shs) + 1] = r
  OBVIOUS

(* Append, element by element. *)
LEMMA AppendFacts ==
  ASSUME NEW X, NEW xs \in Seq(X), NEW x \in X
  PROVE  /\ Append(xs, x) \in Seq(X) /\ Len(Append(xs, x)) = Len(xs) + 1
         /\ Append(xs, x)[Len(xs) + 1] = x
         /\ \A j \in 1..Len(xs) : Append(xs, x)[j] = xs[j]
  OBVIOUS

(* Every string key has a slot in a transition cache. *)
LEMMA SlotOfKey == \A k \in StrKeys : SlotOf[k] \in Slots
  BY DEF Slots

(* What $shape_child returns: a shape with the parent's keys and k.  No     *)
(* shape there was loses or gains a key, and none becomes reachable.        *)
ChildFacts(shs, sh, k, S, at) ==
  /\ Tree(S) /\ Len(S) >= Len(shs)
  /\ at \in 1..Len(S) /\ S[at].keys = Append(shs[sh].keys, k)
  /\ \A p \in 1..Len(shs) : S[p].keys = shs[p].keys
  /\ \A p \in 1..Len(shs) : p # sh => S[p].kids = shs[p].kids
  /\ \A q \in 1..Len(shs) : IsKid(S, q) => IsKid(shs, q)
  /\ at \in 1..Len(shs) => IsKid(shs, at)

(* $shape_child finds or builds the shape that has one key more. *)
LEMMA ChildIsGood ==
  ASSUME NEW shs, Tree(shs), NEW sh \in 1..Len(shs), NEW k \in StrKeys
  PROVE  ChildFacts(shs, sh, k, Child(shs, sh, k).shapes, Child(shs, sh, k).at)
<1> DEFINE z == SlotOf[k]
           e == shs[sh].kids[z]
           new == Len(shs) + 1
           ks == Append(shs[sh].keys, k)
<1>1. z \in Slots
  BY SlotOfKey
<1>2. shs \in Seq(ShapeRec) /\ Len(shs) \in Nat /\ shs[sh] \in ShapeRec /\ sh \in Nat
  BY DEF Tree
<1>3. shs[sh].keys \in Seq(AllKeys \cup {Nil}) /\ k \in AllKeys
  BY <1>2 DEF ShapeRec, AllKeys
<1>a. CASE e.key = k
  <2>1. Child(shs, sh, k).shapes = shs /\ Child(shs, sh, k).at = e.kid
    BY <1>a DEF Child
  <2>2. GoodKid(shs, sh, e)
    BY <1>1 DEF Tree
  <2>3. e.kid \in 1..Len(shs) /\ shs[e.kid].keys = ks
    BY <1>a, <2>2, ValuesAssumption DEF GoodKid
  <2>4. IsKid(shs, e.kid)
    BY <1>1 DEF IsKid
  <2>5. ChildFacts(shs, sh, k, shs, e.kid)
    <3> HIDE DEF e, ks
    <3> QED BY <2>3, <2>4, <1>2 DEF ChildFacts, ks
  <2> QED BY <2>1, <2>5
<1>b. CASE e.key # k
  <2> DEFINE c == [key |-> k, kid |-> new]
             T == Cached(shs, sh, z, c)
             r == NewShape(ks, Len(ks))
             S == Append(T, r)
  <2>1. Child(shs, sh, k).shapes = S /\ Child(shs, sh, k).at = new
    BY <1>b, Zenon DEF Child, Cached
  <2>2. ks \in Seq(AllKeys \cup {Nil}) /\ Len(ks) \in Nat
    BY <1>3
  <2>3. r \in ShapeRec /\ r.keys = ks /\ r.kids = NoKids
    BY <2>2, NewShapeType
  <2>4. c \in KidRec
    BY <1>2 DEF KidRec
  <2>5. /\ T \in Seq(ShapeRec) /\ Len(T) = Len(shs)
        /\ \A p \in 1..Len(shs) : T[p].keys = shs[p].keys
        /\ \A p \in 1..Len(shs) : p # sh => T[p] = shs[p]
        /\ \A s \in Slots : T[sh].kids[s] = IF s = z THEN c ELSE shs[sh].kids[s]
    BY <1>1, <1>2, <2>4, KidCached
  <2> HIDE DEF T, r
  <2>6. /\ S \in Seq(ShapeRec) /\ Len(S) = new
        /\ \A p \in 1..Len(shs) : S[p] = T[p]
        /\ S[new] = r
    BY <2>3, <2>5, ShapeAdded
  <2> HIDE DEF S
  <2>7. \A p \in 1..Len(shs) : S[p].keys = shs[p].keys
    BY <2>5, <2>6
  <2>8. /\ \A p \in 1..Len(shs), s \in Slots :
             S[p].kids[s] = IF p = sh /\ s = z THEN c ELSE shs[p].kids[s]
        /\ \A s \in Slots : S[new].kids[s] = [key |-> Nil, kid |-> None]
    BY <2>3, <2>5, <2>6 DEF NoKids
  <2>9. \A p \in 1..new, s \in Slots : GoodKid(S, p, S[p].kids[s])
    <3> SUFFICES ASSUME NEW p \in 1..new, NEW s \in Slots PROVE GoodKid(S, p, S[p].kids[s])
      OBVIOUS
    <3>1. CASE p = new
      BY <3>1, <2>8 DEF GoodKid
    <3>2. CASE p = sh /\ s = z
      <4>1. S[p].kids[s] = c
        BY <3>2, <2>8
      <4>2. S[new].keys = Append(S[p].keys, k)
        BY <3>2, <2>3, <2>6, <2>7
      <4> QED BY <4>1, <4>2, <2>6, <1>2 DEF GoodKid
    <3>3. CASE p \in 1..Len(shs) /\ ~(p = sh /\ s = z)
      <4>1. S[p].kids[s] = shs[p].kids[s]
        BY <3>3, <2>8
      <4>2. GoodKid(shs, p, shs[p].kids[s])
        BY <3>3 DEF Tree
      <4> DEFINE d == shs[p].kids[s]
      <4>3. ASSUME d.key \in StrKeys, d.kid \in 1..Len(shs), shs[d.kid].keys = Append(shs[p].keys, d.key)
            PROVE  d.kid \in 1..Len(S) /\ S[d.kid].keys = Append(S[p].keys, d.key)
        <5>1. S[d.kid].keys = shs[d.kid].keys /\ S[p].keys = shs[p].keys
          BY <4>3, <3>3, <2>7
        <5>2. S[d.kid].keys = Append(S[p].keys, d.key)
          BY <5>1, <4>3, Zenon
        <5>3. Len(S) = Len(shs) + 1 /\ Len(shs) \in Nat
          BY <2>6, <1>2
        <5> DEFINE at == d.kid
        <5>4. at \in 1..Len(shs)
          BY <4>3
        <5> HIDE DEF at
        <5>5. at \in 1..Len(S)
          BY <5>3, <5>4
        <5>6. d.kid \in 1..Len(S)
          BY <5>5 DEF at
        <5> QED BY <5>2, <5>6
      <4> HIDE DEF d
      <4> QED BY <4>1, <4>2, <4>3 DEF GoodKid, d
    <3> QED BY <3>1, <3>2, <3>3, <1>2
  <2>10. Tree(S)
    BY <2>6, <2>7, <2>9, <1>2 DEF Tree, Root
  <2>11. \A q \in 1..Len(shs) : IsKid(S, q) => IsKid(shs, q)
    <3> SUFFICES ASSUME NEW q \in 1..Len(shs), NEW p \in 1..new, NEW s \in Slots, S[p].kids[s].kid = q
                 PROVE  IsKid(shs, q)
      BY <2>6 DEF IsKid
    <3>1. p \in 1..Len(shs) /\ S[p].kids[s] = shs[p].kids[s]
      <4>1. p # new
        BY <2>8 DEF None
      <4>2. ~(p = sh /\ s = z)
        BY <2>8, <1>2
      <4> QED BY <4>1, <4>2, <2>8, <1>2
    <3> QED BY <3>1 DEF IsKid
  <2>12. \A p \in 1..Len(shs) : p # sh => S[p].kids = shs[p].kids
    BY <2>5, <2>6
  <2> QED BY <2>1, <2>3, <2>6, <2>7, <2>10, <2>11, <2>12, <1>2 DEF ChildFacts
<1> QED BY <1>a, <1>b
-----------------------------------------------------------------------------
(* Keys with different names, and the value at a name. *)
Uniq(ks) == \A i, j \in 1..Len(ks) : Name(ks[i]) = Name(ks[j]) => i = j
Lacks(ks, n) == \A i \in 1..Len(ks) : Name(ks[i]) # n
At(ks, vs, n) == LET at == {i \in 1..Len(ks) : Name(ks[i]) = n}
                 IN  IF at = {} THEN Nil ELSE vs[CHOOSE i \in at : TRUE]

(* The value at a key is the one at its position. *)
LEMMA AtKey ==
  ASSUME NEW ks, NEW vs, Uniq(ks), NEW i \in 1..Len(ks), NEW n, Name(ks[i]) = n
  PROVE  At(ks, vs, n) = vs[i]
<1> DEFINE at == {j \in 1..Len(ks) : Name(ks[j]) = n}
<1>1. at = {i}
  BY Zenon DEF Uniq
<1>2. (CHOOSE j \in at : TRUE) = i
  BY <1>1
<1> QED BY <1>1, <1>2, Zenon DEF At

(* There is no value at a name that no key has. *)
LEMMA AtNone ==
  ASSUME NEW ks, NEW vs, NEW n, Lacks(ks, n)
  PROVE  At(ks, vs, n) = Nil
<1>1. {j \in 1..Len(ks) : Name(ks[j]) = n} = {}
  BY DEF Lacks
<1> QED BY <1>1, Zenon DEF At

(* A key is found where it is, and nowhere if it is not there. *)
LEMMA FindKey ==
  ASSUME NEW ks, NEW k
  PROVE  /\ Find(ks, k) # 0 => Find(ks, k) \in 1..Len(ks) /\ Name(ks[Find(ks, k)]) = Name(k)
         /\ Find(ks, k) = 0 <=> Lacks(ks, Name(k))
         /\ \A i \in 1..Len(ks) : Uniq(ks) /\ Name(ks[i]) = Name(k) => Find(ks, k) = i
<1>1. CASE \E i \in 1..Len(ks) : Name(ks[i]) = Name(k)
  <2> DEFINE f == CHOOSE i \in 1..Len(ks) : Name(ks[i]) = Name(k)
  <2>1. f \in 1..Len(ks) /\ Name(ks[f]) = Name(k)
    BY <1>1, Zenon
  <2>2. Find(ks, k) = f
    BY <1>1, Zenon DEF Find
  <2> HIDE DEF f
  <2>3. f # 0
    BY <2>1
  <2>4. ~Lacks(ks, Name(k))
    BY <2>1, Zenon DEF Lacks
  <2> QED BY <2>1, <2>2, <2>3, <2>4, Zenon DEF Uniq
<1>2. CASE ~\E i \in 1..Len(ks) : Name(ks[i]) = Name(k)
  BY <1>2, Zenon DEF Find, Lacks
<1> QED BY <1>1, <1>2

(* A value overwritten in place. *)
Overwrites(ks, vs, ws, i, v) ==
  /\ Uniq(ks) /\ i \in 1..Len(ks)
  /\ \A j \in 1..Len(ks) : ws[j] = IF j = i THEN v ELSE vs[j]

(* Overwriting the value at a position changes the value at one name. *)
LEMMA AtSet ==
  ASSUME NEW ks, NEW vs, NEW ws, NEW i, NEW v, Overwrites(ks, vs, ws, i, v)
  PROVE  \A n : At(ks, ws, n) = IF n = Name(ks[i]) THEN v ELSE At(ks, vs, n)
<1> USE DEF Overwrites
<1> TAKE n
<1>1. CASE Lacks(ks, n)
  BY <1>1, AtNone DEF Lacks
<1>2. CASE ~Lacks(ks, n)
  <2>1. PICK j \in 1..Len(ks) : Name(ks[j]) = n
    BY <1>2 DEF Lacks
  <2>2. At(ks, ws, n) = ws[j] /\ At(ks, vs, n) = vs[j]
    BY <2>1, AtKey
  <2>3. n = Name(ks[i]) <=> j = i
    BY <2>1 DEF Uniq
  <2> QED BY <2>2, <2>3
<1> QED BY <1>1, <1>2

(* A key and its value appended. *)
Appends(ks, vs, ls, ws, k, v) ==
  /\ Uniq(ks) /\ Len(ks) \in Nat /\ Lacks(ks, Name(k))
  /\ Len(ls) = Len(ks) + 1
  /\ \A j \in 1..Len(ks) : ls[j] = ks[j] /\ ws[j] = vs[j]
  /\ ls[Len(ks) + 1] = k /\ ws[Len(ks) + 1] = v

(* So does appending a key whose name is not there yet. *)
LEMMA AtAppended ==
  ASSUME NEW ks, NEW vs, NEW ls, NEW ws, NEW k, NEW v, Appends(ks, vs, ls, ws, k, v)
  PROVE  /\ Uniq(ls)
         /\ \A n : At(ls, ws, n) = IF n = Name(k) THEN v ELSE At(ks, vs, n)
<1> USE DEF Appends
<1>1. \A j \in 1..Len(ls) : j \in 1..Len(ks) \/ j = Len(ks) + 1
  OBVIOUS
<1>2. Uniq(ls)
  <2> SUFFICES ASSUME NEW i \in 1..Len(ls), NEW j \in 1..Len(ls), Name(ls[i]) = Name(ls[j]) PROVE i = j
    BY DEF Uniq
  <2>1. CASE i \in 1..Len(ks) /\ j \in 1..Len(ks)
    BY <2>1 DEF Uniq
  <2>2. CASE i = Len(ks) + 1 /\ j \in 1..Len(ks)
    BY <2>2 DEF Lacks
  <2>3. CASE j = Len(ks) + 1 /\ i \in 1..Len(ks)
    BY <2>3 DEF Lacks
  <2> QED BY <1>1, <2>1, <2>2, <2>3
<1>3. ASSUME NEW n PROVE At(ls, ws, n) = IF n = Name(k) THEN v ELSE At(ks, vs, n)
  <2>1. CASE n = Name(k)
    <3>1. Len(ks) + 1 \in 1..Len(ls)
      OBVIOUS
    <3> QED BY <3>1, <2>1, <1>2, AtKey
  <2>2. CASE n # Name(k) /\ Lacks(ks, n)
    <3>1. Lacks(ls, n)
      BY <1>1, <2>2 DEF Lacks
    <3> QED BY <3>1, <2>2, AtNone
  <2>3. CASE n # Name(k) /\ ~Lacks(ks, n)
    <3>1. PICK j \in 1..Len(ks) : Name(ks[j]) = n
      BY <2>3 DEF Lacks
    <3>2. j \in 1..Len(ls) /\ Name(ls[j]) = n
      BY <3>1
    <3>3. At(ls, ws, n) = ws[j] /\ At(ks, vs, n) = vs[j]
      BY <3>1, <3>2, <1>2, AtKey
    <3> QED BY <3>3, <2>3
  <2> QED BY <2>1, <2>2, <2>3
<1> QED BY <1>2, <1>3

(* The live entries of a table, in order. *)
Keeps(ks, vs, ls, ws, n, at) ==
  /\ Uniq(ks) /\ Len(ks) \in Nat /\ n \in Nat /\ at \in [1..n -> 1..Len(ks)]
  /\ \A i, j \in 1..n : i < j => at[i] < at[j]
  /\ \A p \in 1..Len(ks) : vs[p] # Nil => \E j \in 1..n : at[j] = p
  /\ Len(ls) = n /\ \A j \in 1..n : ls[j] = ks[at[j]] /\ ws[j] = vs[at[j]]

(* Dropping the entries that are nil changes no value. *)
LEMMA AtKept ==
  ASSUME NEW ks, NEW vs, NEW ls, NEW ws, NEW n, NEW at, Keeps(ks, vs, ls, ws, n, at)
  PROVE  /\ Uniq(ls)
         /\ \A m : Lacks(ks, m) => Lacks(ls, m)
         /\ \A m : At(ls, ws, m) = At(ks, vs, m)
<1> USE DEF Keeps
<1>0. (\A j \in 1..n : at[j] \in 1..Len(ks)) /\ 1..Len(ls) = 1..n
  OBVIOUS
<1>1. Uniq(ls)
  <2> SUFFICES ASSUME NEW i \in 1..n, NEW j \in 1..n, Name(ls[i]) = Name(ls[j]) PROVE i = j
    BY <1>0 DEF Uniq
  <2>1. at[i] = at[j]
    <3>1. at[i] \in 1..Len(ks) /\ at[j] \in 1..Len(ks) /\ Name(ks[at[i]]) = Name(ks[at[j]])
      BY <1>0
    <3> QED BY <3>1, Zenon DEF Uniq
  <2>2. at[i] \in Nat /\ ~(i < j) /\ ~(j < i)
    BY <2>1
  <2> QED BY <2>2
<1>2. \A m : Lacks(ks, m) => Lacks(ls, m)
  BY <1>0 DEF Lacks
<1>3. ASSUME NEW m PROVE At(ls, ws, m) = At(ks, vs, m)
  <2>1. CASE Lacks(ks, m)
    BY <2>1, <1>2, AtNone
  <2>2. CASE ~Lacks(ks, m)
    <3>1. PICK p \in 1..Len(ks) : Name(ks[p]) = m
      BY <2>2 DEF Lacks
    <3>2. At(ks, vs, m) = vs[p]
      BY <3>1, AtKey
    <3>3. CASE \E j \in 1..n : at[j] = p
      <4>1. PICK j \in 1..n : at[j] = p
        BY <3>3
      <4>2. At(ls, ws, m) = ws[j]
        <5>1. j \in 1..Len(ls) /\ Name(ls[j]) = m
          BY <1>0, <4>1, <3>1
        <5> QED BY <5>1, <1>1, AtKey
      <4> QED BY <3>2, <4>1, <4>2
    <3>4. CASE ~\E j \in 1..n : at[j] = p
      <4>1. vs[p] = Nil
        BY <3>4
      <4>2. Lacks(ls, m)
        <5> SUFFICES ASSUME NEW j \in 1..n, Name(ls[j]) = m PROVE FALSE
          BY <1>0 DEF Lacks
        <5>1. at[j] = p
          BY <1>0, <3>1 DEF Uniq
        <5> QED BY <5>1, <3>4
      <4> QED BY <3>2, <4>1, <4>2, AtNone
    <3> QED BY <3>3, <3>4
  <2> QED BY <2>1, <2>2
<1> QED BY <1>1, <1>2, <1>3
-----------------------------------------------------------------------------
(* The inductive invariant.  A shape is alive while a table has it or can   *)
(* still be given it.                                                       *)
TableRec(n) == [shape : 1..n, vals : Seq(Values), own : BOOLEAN, meta : Tables \cup {Nil}]
OnOffer(shs, cs, sh) == sh = Root \/ sh = cs \/ IsKid(shs, sh)
Owned(sh) == \E t \in Tables : tab[t].own /\ tab[t].shape = sh
Alive(sh) == Offered(sh) \/ \E t \in Tables : tab[t].shape = sh

Layout ==
  /\ Tree(shapes)
  /\ tab \in [Tables -> TableRec(Len(shapes))]
  /\ cshape \in 0..Len(shapes)
  /\ cshape # None => shapes[cshape].keys = <<CtorKeys[1], CtorKeys[2]>>
  /\ \A t \in Tables : Len(tab[t].vals) = Len(KeysOf(t)) /\ Uniq(KeysOf(t))
  /\ \A t \in Tables : tab[t].own => shapes[tab[t].shape].kids = NoKids
  /\ OwnedIsPrivate

(* Position p of shape sh, if a table can still have it, holds key k.       *)
KeyAt(sh, p, k) ==
  sh # None /\ Alive(sh) => /\ p \in 1..Len(shapes[sh].keys)
                            /\ Name(shapes[sh].keys[p]) = Name(k)

(* A cached absence is of a shape that no table extends.                    *)
Absent(sh, k) == sh # None /\ Alive(sh) => ~Owned(sh) /\ Lacks(shapes[sh].keys, Name(k))

FieldRec(n) == [shape : 0..n, pos : Nat]
MethodRec(n) == [s1 : 0..n, ms : 0..n, mp : Nat, c : Tables \cup {Nil}, cs : 0..n, cp : Nat]

FieldCaches ==
  /\ ic \in [FieldSites -> FieldRec(Len(shapes))]
  /\ \A s \in FieldSites : KeyAt(ic[s].shape, ic[s].pos, s)

CachesMethod(s, e) ==
  /\ Absent(e.s1, s)
  /\ e.ms # None => e.c \in Tables
  /\ KeyAt(e.ms, e.mp, IndexKey)
  /\ KeyAt(e.cs, e.cp, s)

MethodCaches ==
  /\ mic \in [MethodSites -> MethodRec(Len(shapes))]
  /\ \A s \in MethodSites : CachesMethod(s, mic[s])

IInv == Layout /\ FieldCaches /\ MethodCaches /\ FieldsAsStored
-----------------------------------------------------------------------------
(* What a store or a constructor does to the layouts, whichever way the     *)
(* table t gets its key: only a shape of its own changes its keys, and what *)
(* t ends up with is its own shape, a new one, or one on offer.             *)
Extends(ks, ls) == Len(ks) <= Len(ls) /\ \A i \in 1..Len(ks) : ls[i] = ks[i]

MovesShapes(t) ==
  /\ Tree(shapes') /\ Len(shapes') >= Len(shapes)
  /\ \A p \in 1..Len(shapes) : p # tab[t].shape \/ ~tab[t].own => shapes'[p].keys = shapes[p].keys
  /\ \A p \in 1..Len(shapes) : Owned(p) /\ tab'[t].shape = tab[t].shape => shapes'[p].kids = shapes[p].kids
  /\ \A p \in 1..Len(shapes) : Owned(p) /\ p # tab[t].shape => shapes'[p].kids = shapes[p].kids
  /\ \A q \in 1..Len(shapes) : IsKid(shapes', q) => IsKid(shapes, q)

MovesTable(t) ==
  /\ DOMAIN tab' = Tables /\ tab' = [u \in Tables |-> tab'[u]]
  /\ \A u \in Tables : u # t => tab'[u] = tab[u]
  /\ tab'[t] \in TableRec(Len(shapes'))
  /\ Len(tab'[t].vals) = Len(shapes'[tab'[t].shape].keys)
  /\ Uniq(shapes'[tab'[t].shape].keys)
  /\ \/ /\ tab'[t].own /\ tab[t].own /\ tab'[t].shape = tab[t].shape
        /\ Extends(shapes[tab[t].shape].keys, shapes'[tab[t].shape].keys)
     \/ /\ tab'[t].own /\ tab'[t].shape > Len(shapes)
        /\ shapes'[tab'[t].shape].kids = NoKids /\ ~IsKid(shapes', tab'[t].shape)
     \/ /\ ~tab'[t].own /\ ~tab[t].own
        /\ tab'[t].shape = tab[t].shape \/ tab'[t].shape > Len(shapes) \/ Offered(tab'[t].shape)

MovesSite(t) ==
  \/ cshape' = cshape
  \/ /\ cshape = None /\ ~tab'[t].own
     /\ cshape' \in 1..Len(shapes') /\ shapes'[cshape'].keys = <<CtorKeys[1], CtorKeys[2]>>
     /\ cshape' > Len(shapes) \/ Offered(cshape')

Moves(t) == MovesShapes(t) /\ MovesTable(t) /\ MovesSite(t)

(* What a step leaves of the shapes there were. *)
Evolves ==
  /\ Len(shapes') >= Len(shapes)
  /\ \A p \in 1..Len(shapes) :
       /\ Alive(p)' => Alive(p) /\ Extends(shapes[p].keys, shapes'[p].keys)
       /\ ~Owned(p) => ~Owned(p)' /\ shapes'[p].keys = shapes[p].keys

(* What is on offer, in this state and in the next. *)
LEMMA OfferedOnOffer ==
  /\ \A sh : Offered(sh) <=> OnOffer(shapes, cshape, sh)
  /\ \A sh : Offered(sh)' <=> OnOffer(shapes', cshape', sh)
  BY DEF Offered, OnOffer, IsKid, ShapeIds

(* OwnedIsPrivate in the next state. *)
LEMMA PrivateNow ==
  OwnedIsPrivate' <=>
    \A t \in Tables : tab'[t].own =>
       /\ ~OnOffer(shapes', cshape', tab'[t].shape)
       /\ \A u \in Tables \ {t} : tab'[u].shape # tab'[t].shape
  BY DEF OwnedIsPrivate, Offered, OnOffer, IsKid, ShapeIds

(* A shape that nobody can be given is not given to anybody. *)
LEMMA NotOffered ==
  ASSUME Layout, NEW t \in Tables, Moves(t)
  PROVE  \A p \in 1..Len(shapes) : ~Offered(p) => ~OnOffer(shapes', cshape', p)
<1> SUFFICES ASSUME NEW p \in 1..Len(shapes), ~Offered(p) PROVE ~OnOffer(shapes', cshape', p)
  OBVIOUS
<1>1. p # cshape' /\ p # Root
  BY DEF Moves, MovesSite, Offered, Layout, Tree
<1>2. ~IsKid(shapes', p)
  BY DEF Moves, MovesShapes, Offered, IsKid, ShapeIds
<1> QED BY <1>1, <1>2 DEF OnOffer

(* A move keeps the layouts sound: nobody gets a shape that is private. *)
LEMMA LayoutKept ==
  ASSUME Layout, NEW t \in Tables, Moves(t)
  PROVE  Layout'
<1>0. /\ Len(shapes) \in Nat /\ Len(shapes) >= 1 /\ Len(shapes') \in Nat /\ Len(shapes') >= Len(shapes)
      /\ \A u \in Tables : tab[u] \in TableRec(Len(shapes))
      /\ \A u \in Tables : tab[u].shape \in 1..Len(shapes)
  BY DEF Layout, Moves, MovesShapes, Tree, TableRec
<1>1. Tree(shapes')
  BY DEF Moves, MovesShapes
<1>2. \A u \in Tables : tab'[u] \in TableRec(Len(shapes'))
  <2> SUFFICES ASSUME NEW u \in Tables, u # t PROVE tab'[u] \in TableRec(Len(shapes'))
    BY DEF Moves, MovesTable
  <2>1. tab'[u] = tab[u] /\ tab[u] \in TableRec(Len(shapes))
    BY <1>0 DEF Moves, MovesTable
  <2> QED BY <2>1, <1>0 DEF TableRec
<1>3. tab' \in [Tables -> TableRec(Len(shapes'))]
  BY <1>2 DEF Moves, MovesTable
<1>4. cshape' \in 0..Len(shapes') /\ (cshape' # None => shapes'[cshape'].keys = <<CtorKeys[1], CtorKeys[2]>>)
  <2>1. CASE cshape' = cshape
    <3>1. cshape \in 0..Len(shapes')
      BY <1>0 DEF Layout
    <3>2. ASSUME cshape # None PROVE shapes'[cshape].keys = shapes[cshape].keys
      <4>1. cshape \in 1..Len(shapes) /\ Offered(cshape)
        BY <3>2 DEF Layout, None, Offered
      <4>2. cshape # tab[t].shape \/ ~tab[t].own
        BY <4>1 DEF Layout, OwnedIsPrivate
      <4> QED BY <4>1, <4>2 DEF Moves, MovesShapes
    <3> QED BY <2>1, <3>1, <3>2 DEF Layout
  <2>2. CASE cshape' # cshape
    BY <2>2, <1>0 DEF Moves, MovesSite
  <2> QED BY <2>1, <2>2
<1>5. \A u \in Tables : u # t => /\ tab'[u] = tab[u]
                                 /\ shapes'[tab[u].shape].keys = shapes[tab[u].shape].keys
  <2> SUFFICES ASSUME NEW u \in Tables, u # t
               PROVE  shapes'[tab[u].shape].keys = shapes[tab[u].shape].keys
    BY DEF Moves, MovesTable
  <2>1. tab[u].shape # tab[t].shape \/ ~tab[t].own
    BY DEF Layout, OwnedIsPrivate
  <2> QED BY <2>1, <1>0 DEF Moves, MovesShapes
<1>6. \A u \in Tables : Len(tab'[u].vals) = Len(KeysOf(u)') /\ Uniq(KeysOf(u)')
  <2> SUFFICES ASSUME NEW u \in Tables
               PROVE  Len(tab'[u].vals) = Len(KeysOf(u)') /\ Uniq(KeysOf(u)')
    OBVIOUS
  <2>1. CASE u = t
    BY <2>1 DEF Moves, MovesTable, KeysOf
  <2>2. CASE u # t
    <3>1. KeysOf(u)' = KeysOf(u) /\ tab'[u] = tab[u]
      BY <1>5, <2>2 DEF KeysOf
    <3> QED BY <3>1 DEF Layout
  <2> QED BY <2>1, <2>2
<1>7. \A u \in Tables : tab'[u].own => shapes'[tab'[u].shape].kids = NoKids
  <2> SUFFICES ASSUME NEW u \in Tables, tab'[u].own PROVE shapes'[tab'[u].shape].kids = NoKids
    OBVIOUS
  <2>1. CASE u # t
    <3>1. tab'[u] = tab[u] /\ Owned(tab[u].shape)
      BY <1>5, <2>1 DEF Owned
    <3>2. tab[u].shape # tab[t].shape
      BY <2>1, <3>1 DEF Layout, OwnedIsPrivate
    <3>3. shapes'[tab[u].shape].kids = shapes[tab[u].shape].kids
      BY <3>1, <3>2, <1>0 DEF Moves, MovesShapes
    <3> QED BY <3>1, <3>3 DEF Layout
  <2>2. CASE u = t /\ tab[t].own /\ tab'[t].shape = tab[t].shape
    <3>1. Owned(tab[t].shape)
      BY <2>2 DEF Owned
    <3>2. shapes'[tab[t].shape].kids = shapes[tab[t].shape].kids
      BY <3>1, <2>2, <1>0 DEF Moves, MovesShapes
    <3> QED BY <3>2, <2>2 DEF Layout
  <2>3. CASE u = t /\ shapes'[tab'[t].shape].kids = NoKids
    BY <2>3
  <2> QED BY <2>1, <2>2, <2>3 DEF Moves, MovesTable
<1>8. OwnedIsPrivate'
  <2> SUFFICES ASSUME NEW u \in Tables, tab'[u].own
               PROVE  /\ ~OnOffer(shapes', cshape', tab'[u].shape)
                      /\ \A w \in Tables \ {u} : tab'[w].shape # tab'[u].shape
    BY PrivateNow
  <2>1. CASE tab[u].own /\ tab'[u].shape = tab[u].shape
    <3>1. ~Offered(tab[u].shape) /\ \A w \in Tables \ {u} : tab[w].shape # tab[u].shape
      BY <2>1 DEF Layout, OwnedIsPrivate
    <3>2. ~OnOffer(shapes', cshape', tab[u].shape)
      BY <3>1, <1>0, NotOffered
    <3>3. ASSUME NEW w \in Tables, w # u PROVE tab'[w].shape # tab[u].shape
      <4>1. CASE w # t
        BY <4>1, <3>1, <3>3, <1>5
      <4>2. CASE w = t
        BY <4>2, <3>1, <3>3, <1>0 DEF Moves, MovesTable
      <4> QED BY <4>1, <4>2
    <3> QED BY <2>1, <3>2, <3>3
  <2>2. CASE u = t /\ tab'[t].shape > Len(shapes) /\ ~IsKid(shapes', tab'[t].shape)
    <3>1. cshape' = cshape
      BY <2>2 DEF Moves, MovesSite
    <3>2. tab'[t].shape # Root /\ tab'[t].shape # cshape /\ tab'[t].shape \in Nat
      BY <2>2, <1>0, <1>2 DEF Root, Layout, TableRec
    <3>3. ~OnOffer(shapes', cshape', tab'[t].shape)
      BY <2>2, <3>1, <3>2 DEF OnOffer
    <3>4. ASSUME NEW w \in Tables, w # t PROVE tab'[w].shape # tab'[t].shape
      BY <3>4, <2>2, <3>2, <1>0, <1>5
    <3> QED BY <2>2, <3>3, <3>4
  <2> QED BY <2>1, <2>2, <1>5 DEF Moves, MovesTable
<1> QED BY <1>1, <1>3, <1>4, <1>6, <1>7, <1>8 DEF Layout
-----------------------------------------------------------------------------
(* A shape that is dead stays dead, one that is alive at most gains keys at *)
(* its end, and only when a table owns it.                                  *)
LEMMA MovesEvolve ==
  ASSUME Layout, NEW t \in Tables, Moves(t)
  PROVE  Evolves
<1>0. /\ Len(shapes) \in Nat /\ Len(shapes) >= 1 /\ Len(shapes') \in Nat /\ Len(shapes') >= Len(shapes)
      /\ \A u \in Tables : tab[u].shape \in 1..Len(shapes)
      /\ \A p \in 1..Len(shapes) : Len(shapes[p].keys) \in Nat
  <2>1. /\ Len(shapes) \in Nat /\ Len(shapes) >= 1 /\ Len(shapes') \in Nat /\ Len(shapes') >= Len(shapes)
        /\ \A u \in Tables : tab[u].shape \in 1..Len(shapes)
    BY DEF Layout, Moves, MovesShapes, Tree, TableRec
  <2>2. \A p \in 1..Len(shapes) : Len(shapes[p].keys) \in Nat
    BY DEF Layout, Tree, ShapeRec
  <2> QED BY <2>1, <2>2
<1>1. \A u \in Tables : u # t => tab'[u] = tab[u]
  BY DEF Moves, MovesTable
<1>2. ASSUME NEW p \in 1..Len(shapes), ~Alive(p) PROVE ~Alive(p)'
  <2>1. ~OnOffer(shapes', cshape', p) /\ ~Offered(p)
    BY <1>2, NotOffered DEF Alive
  <2>2. \A u \in Tables : tab'[u].shape # p
    <3> SUFFICES ASSUME NEW u \in Tables, tab'[u].shape = p PROVE FALSE
      OBVIOUS
    <3>1. tab[u].shape # p
      BY <1>2 DEF Alive
    <3>2. u = t
      BY <3>1, <1>1
    <3> QED BY <3>1, <3>2, <2>1, <1>0 DEF Moves, MovesTable
  <2> QED BY <2>1, <2>2, OfferedOnOffer DEF Alive
<1>3. ASSUME NEW p \in 1..Len(shapes), Alive(p)' PROVE Extends(shapes[p].keys, shapes'[p].keys)
  <2>1. CASE p # tab[t].shape \/ ~tab[t].own
    <3>1. shapes'[p].keys = shapes[p].keys
      BY <2>1 DEF Moves, MovesShapes
    <3> QED BY <3>1, <1>0 DEF Extends
  <2>2. CASE p = tab[t].shape /\ tab[t].own
    <3>1. ~Offered(p) /\ \A u \in Tables \ {t} : tab[u].shape # p
      BY <2>2 DEF Layout, OwnedIsPrivate
    <3>2. ~OnOffer(shapes', cshape', p)
      BY <3>1, NotOffered
    <3>3. tab'[t].shape = p
      BY <1>3, <3>1, <3>2, <1>1, OfferedOnOffer DEF Alive
    <3> QED BY <3>3, <2>2, <1>0 DEF Moves, MovesTable
  <2> QED BY <2>1, <2>2
<1>4. ASSUME NEW p \in 1..Len(shapes), ~Owned(p)
      PROVE  ~Owned(p)' /\ shapes'[p].keys = shapes[p].keys
  <2>1. p # tab[t].shape \/ ~tab[t].own
    BY <1>4 DEF Owned
  <2>2. shapes'[p].keys = shapes[p].keys
    BY <2>1 DEF Moves, MovesShapes
  <2>3. ASSUME NEW u \in Tables, tab'[u].own, tab'[u].shape = p PROVE FALSE
    <3>1. ~(tab[u].own /\ tab[u].shape = p)
      BY <1>4 DEF Owned
    <3>2. u = t
      BY <3>1, <2>3, <1>1
    <3> QED BY <3>1, <3>2, <2>3, <1>0 DEF Moves, MovesTable
  <2> QED BY <2>2, <2>3 DEF Owned
<1> QED BY <1>0, <1>2, <1>3, <1>4 DEF Evolves

(* What the caches say of a shape stays true of it. *)
LEMMA KeyAtKept ==
  ASSUME Layout, Evolves
  PROVE  \A k : \A sh \in 0..Len(shapes), p \in Nat : KeyAt(sh, p, k) => KeyAt(sh, p, k)'
<1> SUFFICES ASSUME NEW sh \in 0..Len(shapes), NEW p \in Nat, NEW k, KeyAt(sh, p, k), sh # None, Alive(sh)'
             PROVE  p \in 1..Len(shapes'[sh].keys) /\ Name(shapes'[sh].keys[p]) = Name(k)
  BY DEF KeyAt
<1>1. Len(shapes) \in Nat /\ sh \in 1..Len(shapes)
  BY DEF None, Layout, Tree
<1>2. Alive(sh) /\ Extends(shapes[sh].keys, shapes'[sh].keys)
  BY <1>1 DEF Evolves
<1>3. Len(shapes[sh].keys) \in Nat /\ p \in 1..Len(shapes[sh].keys) /\ Name(shapes[sh].keys[p]) = Name(k)
  BY <1>1, <1>2 DEF KeyAt, Layout, Tree, ShapeRec
<1>4. shapes'[sh].keys[p] = shapes[sh].keys[p]
  BY <1>2, <1>3 DEF Extends
<1>5. Len(shapes'[sh].keys) >= Len(shapes[sh].keys)
  BY <1>2, <1>3 DEF Extends
<1>6. sh \in 1..Len(shapes') /\ Len(shapes'[sh].keys) \in Nat
  <2>1. Len(shapes') >= Len(shapes)
    BY DEF Evolves
  <2> QED BY <2>1, <1>1
<1> QED BY <1>3, <1>4, <1>5, <1>6

(* An absence that was cached stays one: no table extends the shape. *)
LEMMA AbsentKept ==
  ASSUME Layout, Evolves
  PROVE  \A k : \A sh \in 0..Len(shapes) : Absent(sh, k) => Absent(sh, k)'
<1> SUFFICES ASSUME NEW sh \in 0..Len(shapes), NEW k, Absent(sh, k), sh # None, Alive(sh)'
             PROVE  ~Owned(sh)' /\ Lacks(shapes'[sh].keys, Name(k))
  BY DEF Absent
<1>1. sh \in 1..Len(shapes)
  BY DEF None, Layout, Tree
<1>2. Alive(sh) /\ ~Owned(sh) /\ Lacks(shapes[sh].keys, Name(k))
  BY <1>1 DEF Evolves, Absent
<1> QED BY <1>1, <1>2 DEF Evolves

(* Field caches hold after a step if what they cache held before it. *)
LEMMA FieldCachesKept ==
  ASSUME Layout, Evolves, ic' \in [FieldSites -> FieldRec(Len(shapes))],
         \A s \in FieldSites : KeyAt(ic'[s].shape, ic'[s].pos, s)
  PROVE  FieldCaches'
<1>1. ic' \in [FieldSites -> FieldRec(Len(shapes'))]
  <2>1. Len(shapes) \in Nat /\ Len(shapes') >= Len(shapes)
    BY DEF Layout, Tree, Evolves
  <2>2. \A n : n \in 0..Len(shapes) => n \in 0..Len(shapes')
    BY <2>1
  <2> QED BY <2>2 DEF FieldRec
<1>2. ASSUME NEW s \in FieldSites PROVE KeyAt(ic[s].shape, ic[s].pos, s)'
  <2>1. /\ ic'[s].shape \in 0..Len(shapes) /\ ic'[s].pos \in Nat
        /\ KeyAt(ic'[s].shape, ic'[s].pos, s)
    BY DEF FieldRec
  <2>2. PICK sh \in 0..Len(shapes), p \in Nat : sh = ic'[s].shape /\ p = ic'[s].pos /\ KeyAt(sh, p, s)
    BY <2>1
  <2>3. KeyAt(sh, p, s)'
    BY <2>2, KeyAtKept
  <2> QED BY <2>2, <2>3 DEF KeyAt, Alive, Offered, ShapeIds
<1> QED BY <1>1, <1>2 DEF FieldCaches

(* So do method caches. *)
LEMMA MethodCachesKept ==
  ASSUME Layout, Evolves, mic' \in [MethodSites -> MethodRec(Len(shapes))],
         \A s \in MethodSites : CachesMethod(s, mic'[s])
  PROVE  MethodCaches'
<1>1. mic' \in [MethodSites -> MethodRec(Len(shapes'))]
  <2>1. Len(shapes) \in Nat /\ Len(shapes') >= Len(shapes)
    BY DEF Layout, Tree, Evolves
  <2>2. \A n : n \in 0..Len(shapes) => n \in 0..Len(shapes')
    BY <2>1
  <2> QED BY <2>2 DEF MethodRec
<1>2. ASSUME NEW s \in MethodSites PROVE CachesMethod(s, mic[s])'
  <2>1. /\ mic'[s].s1 \in 0..Len(shapes) /\ mic'[s].ms \in 0..Len(shapes) /\ mic'[s].cs \in 0..Len(shapes)
        /\ mic'[s].mp \in Nat /\ mic'[s].cp \in Nat
    BY DEF MethodRec
  <2>2. PICK a \in 0..Len(shapes) : a = mic'[s].s1 /\ Absent(a, s)
    BY <2>1 DEF CachesMethod
  <2>3. PICK m \in 0..Len(shapes), p \in Nat : m = mic'[s].ms /\ p = mic'[s].mp /\ KeyAt(m, p, IndexKey)
    BY <2>1 DEF CachesMethod
  <2>4. PICK c \in 0..Len(shapes), q \in Nat : c = mic'[s].cs /\ q = mic'[s].cp /\ KeyAt(c, q, s)
    BY <2>1 DEF CachesMethod
  <2>5. Absent(a, s)' /\ KeyAt(m, p, IndexKey)' /\ KeyAt(c, q, s)'
    BY <2>2, <2>3, <2>4, KeyAtKept, AbsentKept
  <2>6. Absent(mic[s].s1, s)'
    BY <2>2, <2>5 DEF Absent, Alive, Offered, ShapeIds, Owned
  <2>7. KeyAt(mic[s].ms, mic[s].mp, IndexKey)'
    BY <2>3, <2>5 DEF KeyAt, Alive, Offered, ShapeIds
  <2>8. KeyAt(mic[s].cs, mic[s].cp, s)'
    BY <2>4, <2>5 DEF KeyAt, Alive, Offered, ShapeIds
  <2>9. mic'[s].ms # None => mic'[s].c \in Tables
    BY DEF CachesMethod
  <2> QED BY <2>6, <2>7, <2>8, <2>9 DEF CachesMethod
<1> QED BY <1>1, <1>2 DEF MethodCaches
-----------------------------------------------------------------------------
(* The steps of $tab_set_hash, one by one.  Each is a move, and changes the *)
(* value at one name.                                                       *)
Stores(t, k, v) ==
  \A n : At(KeysOf(t)', tab'[t].vals, n) = IF n = Name(k) THEN v ELSE At(KeysOf(t), tab[t].vals, n)

(* What the invariant says of one table. *)
LEMMA TableTypes ==
  ASSUME Layout, NEW t \in Tables
  PROVE  /\ tab \in [Tables -> TableRec(Len(shapes))] /\ tab[t] \in TableRec(Len(shapes))
         /\ Len(shapes) \in Nat /\ tab[t].shape \in 1..Len(shapes)
         /\ shapes \in Seq(ShapeRec) /\ shapes[tab[t].shape] \in ShapeRec
         /\ KeysOf(t) \in Seq(AllKeys \cup {Nil}) /\ Len(KeysOf(t)) \in Nat /\ Uniq(KeysOf(t))
         /\ tab[t].vals \in Seq(Values) /\ Len(tab[t].vals) = Len(KeysOf(t))
         /\ tab[t].own \in BOOLEAN /\ tab[t].meta \in Tables \cup {Nil}
<1>1. tab \in [Tables -> TableRec(Len(shapes))] /\ shapes \in Seq(ShapeRec)
  BY DEF Layout, Tree
<1>2. tab[t] \in TableRec(Len(shapes)) /\ Len(shapes) \in Nat
  BY <1>1
<1>3. tab[t].shape \in 1..Len(shapes) /\ tab[t].vals \in Seq(Values)
      /\ tab[t].own \in BOOLEAN /\ tab[t].meta \in Tables \cup {Nil}
  BY <1>2 DEF TableRec
<1>4. shapes[tab[t].shape] \in ShapeRec
  BY <1>1, <1>3
<1>5. KeysOf(t) \in Seq(AllKeys \cup {Nil})
  BY <1>4 DEF ShapeRec, KeysOf
<1>6. Uniq(KeysOf(t)) /\ Len(tab[t].vals) = Len(KeysOf(t)) /\ Len(KeysOf(t)) \in Nat
  BY <1>5 DEF Layout
<1> QED BY <1>1, <1>2, <1>3, <1>4, <1>5, <1>6

(* An update or a deletion keeps the layout and changes one value. *)
LEMMA SetAtMoves ==
  ASSUME Layout, NEW t \in Tables, NEW v \in Values, NEW i \in 1..Len(KeysOf(t)), NEW k,
         Name(KeysOf(t)[i]) = Name(k), SetAt(t, i, v), cshape' = cshape
  PROVE  Moves(t) /\ Stores(t, k, v)
<1> DEFINE w == [tab[t].vals EXCEPT ![i] = v]
<1>0. /\ tab \in [Tables -> TableRec(Len(shapes))] /\ tab[t] \in TableRec(Len(shapes))
      /\ tab[t].vals \in Seq(Values) /\ Len(tab[t].vals) = Len(KeysOf(t))
      /\ Uniq(KeysOf(t)) /\ Len(KeysOf(t)) \in Nat /\ KeysOf(t) = shapes[tab[t].shape].keys
      /\ Len(shapes) \in Nat /\ tab[t].own \in BOOLEAN
  BY TableTypes DEF KeysOf
<1>1. shapes' = shapes
  BY DEF SetAt
<1>2. tab' = [u \in Tables |-> tab'[u]] /\ \A u \in Tables : u # t => tab'[u] = tab[u]
  BY <1>0 DEF SetAt
<1>3. tab'[t].shape = tab[t].shape /\ tab'[t].own = tab[t].own /\ tab'[t].vals = w
  BY <1>0 DEF SetAt, TableRec
<1>4. w \in Seq(Values) /\ Len(w) = Len(KeysOf(t))
      /\ \A j \in 1..Len(KeysOf(t)) : w[j] = IF j = i THEN v ELSE tab[t].vals[j]
  BY <1>0
<1>5. tab'[t] \in TableRec(Len(shapes))
  <2>1. tab'[t] = [shape |-> tab[t].shape, vals |-> w, own |-> tab[t].own, meta |-> tab[t].meta]
    BY <1>0 DEF SetAt, TableRec
  <2> HIDE DEF w
  <2> QED BY <2>1, <1>0, <1>4 DEF TableRec
<1> HIDE DEF w
<1>6. KeysOf(t)' = KeysOf(t)
  BY <1>1, <1>3 DEF KeysOf
<1>7. Extends(shapes[tab[t].shape].keys, shapes[tab[t].shape].keys)
  BY <1>0 DEF Extends
<1>8. MovesShapes(t)
  BY <1>0, <1>1 DEF MovesShapes, Layout
<1>9. MovesTable(t)
  BY <1>0, <1>1, <1>2, <1>3, <1>4, <1>5, <1>7 DEF MovesTable
<1>10. Stores(t, k, v)
  <2> DEFINE ks == KeysOf(t)
             vs == tab[t].vals
  <2>1. Overwrites(ks, vs, w, i, v)
    BY <1>0, <1>4 DEF Overwrites
  <2> HIDE DEF ks, vs
  <2>2. \A n : At(ks, w, n) = IF n = Name(ks[i]) THEN v ELSE At(ks, vs, n)
    BY <2>1, AtSet
  <2> QED BY <1>3, <1>6, <2>2 DEF Stores, ks, vs
<1> QED BY <1>8, <1>9, <1>10 DEF Moves, MovesSite

(* A string key moves a shared table to the child of its shape. *)
LEMMA InsertSharedMoves ==
  ASSUME Layout, NEW t \in Tables, NEW k \in StrKeys, NEW v \in Values,
         Pos(t, k) = 0, ~tab[t].own, InsertShared(t, k, v), cshape' = cshape
  PROVE  Moves(t) /\ Stores(t, k, v)
<1> DEFINE c == Child(shapes, tab[t].shape, k)
           w == Append(tab[t].vals, v)
<1>0. /\ tab \in [Tables -> TableRec(Len(shapes))] /\ tab[t] \in TableRec(Len(shapes))
      /\ tab[t].vals \in Seq(Values) /\ Len(tab[t].vals) = Len(KeysOf(t))
      /\ KeysOf(t) \in Seq(AllKeys \cup {Nil})
      /\ Uniq(KeysOf(t)) /\ Len(KeysOf(t)) \in Nat /\ KeysOf(t) = shapes[tab[t].shape].keys
      /\ Len(shapes) \in Nat /\ tab[t].own \in BOOLEAN /\ tab[t].shape \in 1..Len(shapes)
  BY TableTypes DEF KeysOf
<1>1. ChildFacts(shapes, tab[t].shape, k, c.shapes, c.at)
  <2>1. Tree(shapes)
    BY DEF Layout
  <2> QED BY <2>1, <1>0, ChildIsGood
<1>2. shapes' = c.shapes /\ tab' = [tab EXCEPT ![t].shape = c.at, ![t].vals = Append(@, v)]
  BY DEF InsertShared
<1> HIDE DEF c
<1>3. /\ Tree(shapes') /\ Len(shapes') >= Len(shapes) /\ Len(shapes') \in Nat
      /\ c.at \in 1..Len(shapes') /\ shapes'[c.at].keys = Append(KeysOf(t), k)
      /\ \A p \in 1..Len(shapes) : shapes'[p].keys = shapes[p].keys
      /\ \A p \in 1..Len(shapes) : p # tab[t].shape => shapes'[p].kids = shapes[p].kids
      /\ \A q \in 1..Len(shapes) : IsKid(shapes', q) => IsKid(shapes, q)
      /\ c.at \in 1..Len(shapes) => IsKid(shapes, c.at)
  <2>1. ChildFacts(shapes, tab[t].shape, k, shapes', c.at)
    BY <1>1, <1>2
  <2>2. Tree(shapes') /\ Len(shapes') >= Len(shapes) /\ c.at \in 1..Len(shapes')
    BY <2>1 DEF ChildFacts
  <2>3. Len(shapes') \in Nat
    BY <2>2 DEF Tree
  <2>4. shapes'[c.at].keys = Append(KeysOf(t), k)
    BY <2>1, <1>0 DEF ChildFacts
  <2>5. /\ \A p \in 1..Len(shapes) : shapes'[p].keys = shapes[p].keys
        /\ \A p \in 1..Len(shapes) : p # tab[t].shape => shapes'[p].kids = shapes[p].kids
        /\ \A q \in 1..Len(shapes) : IsKid(shapes', q) => IsKid(shapes, q)
        /\ c.at \in 1..Len(shapes) => IsKid(shapes, c.at)
    BY <2>1 DEF ChildFacts
  <2> QED BY <2>2, <2>3, <2>4, <2>5
<1>4. tab' = [u \in Tables |-> tab'[u]] /\ \A u \in Tables : u # t => tab'[u] = tab[u]
  BY <1>0, <1>2
<1>5. tab'[t].shape = c.at /\ tab'[t].own = tab[t].own /\ tab'[t].vals = w
  BY <1>0, <1>2 DEF TableRec
<1>6. w \in Seq(Values) /\ Len(w) = Len(KeysOf(t)) + 1 /\ w[Len(KeysOf(t)) + 1] = v
      /\ \A j \in 1..Len(KeysOf(t)) : w[j] = tab[t].vals[j]
  <2> DEFINE vs == tab[t].vals
  <2>1. vs \in Seq(Values) /\ Len(vs) = Len(KeysOf(t)) /\ w = Append(vs, v)
    BY <1>0
  <2> HIDE DEF vs, w
  <2>2. /\ w \in Seq(Values) /\ Len(w) = Len(vs) + 1 /\ w[Len(vs) + 1] = v
        /\ \A j \in 1..Len(vs) : w[j] = vs[j]
    BY <2>1, AppendFacts
  <2> QED BY <2>1, <2>2 DEF vs
<1>7. tab'[t] \in TableRec(Len(shapes'))
  <2>1. tab'[t] = [shape |-> c.at, vals |-> w, own |-> tab[t].own, meta |-> tab[t].meta]
    BY <1>0, <1>2 DEF TableRec
  <2> HIDE DEF w
  <2> QED BY <2>1, <1>0, <1>3, <1>6 DEF TableRec
<1> HIDE DEF w
<1>8. KeysOf(t)' = Append(KeysOf(t), k)
  BY <1>3, <1>5 DEF KeysOf
<1>9. Uniq(KeysOf(t)') /\ Stores(t, k, v) /\ Len(w) = Len(KeysOf(t)')
  <2> DEFINE ks == KeysOf(t)
             vs == tab[t].vals
             ls == Append(ks, k)
  <2>1. Len(ls) = Len(ks) + 1 /\ ls[Len(ks) + 1] = k /\ \A j \in 1..Len(ks) : ls[j] = ks[j]
    BY <1>0
  <2>2. Lacks(ks, Name(k)) /\ Len(ks) \in Nat /\ Uniq(ks)
    BY <1>0, FindKey DEF Pos
  <2>3. w[Len(ks) + 1] = v /\ \A j \in 1..Len(ks) : w[j] = vs[j]
    BY <1>6
  <2> HIDE DEF ks, vs, ls
  <2>4. Appends(ks, vs, ls, w, k, v)
    BY <2>1, <2>2, <2>3 DEF Appends
  <2>5. Uniq(ls) /\ \A n : At(ls, w, n) = IF n = Name(k) THEN v ELSE At(ks, vs, n)
    BY <2>4, AtAppended
  <2> QED BY <1>5, <1>6, <1>8, <2>1, <2>5 DEF Stores, ks, vs, ls
<1>10. MovesShapes(t)
  <2>1. \A p \in 1..Len(shapes) : Owned(p) => p # tab[t].shape
    BY <1>0 DEF Owned, Layout, OwnedIsPrivate
  <2> QED BY <1>3, <2>1 DEF MovesShapes
<1>11. MovesTable(t)
  <2>1. c.at > Len(shapes) \/ Offered(c.at)
    BY <1>0, <1>3 DEF Offered, IsKid, ShapeIds
  <2>2. Len(tab'[t].vals) = Len(shapes'[tab'[t].shape].keys) /\ Uniq(shapes'[tab'[t].shape].keys)
    BY <1>5, <1>9 DEF KeysOf
  <2> QED BY <1>0, <1>4, <1>5, <1>7, <2>1, <2>2 DEF MovesTable
<1> QED BY <1>9, <1>10, <1>11 DEF Moves, MovesSite

(* A shape that is no transition's target may change its keys, if it has no *)
(* transitions of its own.                                                  *)
LEMMA PrivateChange ==
  ASSUME Layout, NEW t \in Tables, tab[t].own, NEW S \in Seq(ShapeRec), Len(S) = Len(shapes),
         \A p \in 1..Len(shapes) : p # tab[t].shape => S[p] = shapes[p],
         S[tab[t].shape].kids = shapes[tab[t].shape].kids
  PROVE  /\ Tree(S)
         /\ \A p \in 1..Len(shapes) : S[p].kids = shapes[p].kids
         /\ \A q : IsKid(S, q) => IsKid(shapes, q)
<1> DEFINE sh == tab[t].shape
<1>0. /\ sh \in 1..Len(shapes) /\ Len(shapes) \in Nat /\ Len(shapes) >= 1 /\ Tree(shapes)
      /\ ~Offered(sh) /\ shapes[sh].kids = NoKids
  BY TableTypes DEF Layout, OwnedIsPrivate, Tree
<1>1. \A p \in 1..Len(shapes) : S[p].kids = shapes[p].kids
  BY <1>0
<1>2. \A q : IsKid(S, q) => IsKid(shapes, q)
  BY <1>1 DEF IsKid
<1>3. S[Root].keys = <<>>
  BY <1>0 DEF Offered, Tree, Root
<1>4. ASSUME NEW p \in 1..Len(shapes), NEW s \in Slots PROVE GoodKid(S, p, S[p].kids[s])
  <2>1. S[p].kids[s] = shapes[p].kids[s] /\ GoodKid(shapes, p, shapes[p].kids[s])
    BY <1>0, <1>1 DEF Tree
  <2> DEFINE e == shapes[p].kids[s]
  <2>2. CASE p = sh
    <3>1. e = [key |-> Nil, kid |-> None]
      BY <2>2, <1>0 DEF NoKids
    <3> QED BY <2>1, <3>1 DEF GoodKid
  <2>3. CASE p # sh
    <3>1. e.kid # sh
      BY <1>0 DEF Offered, ShapeIds
    <3>2. S[p].keys = shapes[p].keys
      BY <2>3
    <3>3. e.kid \in 1..Len(shapes) => S[e.kid].keys = shapes[e.kid].keys
      BY <3>1
    <3> HIDE DEF e
    <3>4. GoodKid(S, p, e)
      <4>1. CASE e.key = Nil /\ e.kid = None
        BY <4>1 DEF GoodKid
      <4>2. CASE e.key \in StrKeys /\ e.kid \in 1..Len(shapes) /\ shapes[e.kid].keys = Append(shapes[p].keys, e.key)
        <5>1. S[e.kid].keys = Append(S[p].keys, e.key)
          BY <4>2, <3>2, <3>3, Zenon
        <5> QED BY <5>1, <4>2 DEF GoodKid
      <4> QED BY <4>1, <4>2, <2>1 DEF GoodKid, e
    <3> QED BY <2>1, <3>4 DEF e
  <2> QED BY <2>2, <2>3
<1> QED BY <1>0, <1>1, <1>2, <1>3, <1>4 DEF Tree

(* A private shape with room gets the key at its end. *)
LEMMA ExtendInPlaceMoves ==
  ASSUME Layout, NEW t \in Tables, NEW k \in AllKeys, NEW v \in Values,
         Pos(t, k) = 0, ExtendInPlace(t, k, v), cshape' = cshape
  PROVE  Moves(t) /\ Stores(t, k, v)
<1> DEFINE sh == tab[t].shape
           w == Append(tab[t].vals, v)
           ls == Append(KeysOf(t), k)
<1>0. /\ tab \in [Tables -> TableRec(Len(shapes))] /\ tab[t] \in TableRec(Len(shapes))
      /\ tab[t].vals \in Seq(Values) /\ Len(tab[t].vals) = Len(KeysOf(t))
      /\ KeysOf(t) \in Seq(AllKeys \cup {Nil})
      /\ Uniq(KeysOf(t)) /\ Len(KeysOf(t)) \in Nat /\ KeysOf(t) = shapes[sh].keys
      /\ Len(shapes) \in Nat /\ tab[t].own /\ sh \in 1..Len(shapes)
      /\ shapes \in Seq(ShapeRec) /\ shapes[sh] \in ShapeRec
  BY TableTypes DEF KeysOf, ExtendInPlace
<1>1. /\ ls \in Seq(AllKeys \cup {Nil}) /\ Len(ls) = Len(KeysOf(t)) + 1
      /\ ls[Len(KeysOf(t)) + 1] = k /\ \A j \in 1..Len(KeysOf(t)) : ls[j] = KeysOf(t)[j]
  BY <1>0
<1>2. /\ shapes' \in Seq(ShapeRec) /\ Len(shapes') = Len(shapes)
      /\ \A p \in 1..Len(shapes) : p # sh => shapes'[p] = shapes[p]
      /\ shapes'[sh].keys = ls /\ shapes'[sh].kids = shapes[sh].kids
  <2> DEFINE r == [keys |-> ls, sized |-> shapes[sh].sized, kids |-> shapes[sh].kids]
  <2>1. r \in ShapeRec
    BY <1>0, <1>1 DEF ShapeRec
  <2>2. [shapes[sh] EXCEPT !.keys = Append(@, k)] = r
    <3>1. ls = Append(shapes[sh].keys, k)
      BY <1>0
    <3>2. [shapes[sh] EXCEPT !.keys = ls] = r
      BY <1>0, KeysChanged
    <3> HIDE DEF ls, r
    <3> QED BY <3>1, <3>2
  <2>3. shapes' = [shapes EXCEPT ![sh] = [shapes[sh] EXCEPT !.keys = Append(@, k)]]
    BY DEF ExtendInPlace
  <2>4. shapes' = [shapes EXCEPT ![sh] = r]
    BY <2>2, <2>3
  <2>5. r.keys = ls /\ r.kids = shapes[sh].kids
    OBVIOUS
  <2> HIDE DEF r
  <2> QED BY <2>1, <2>4, <2>5, <1>0
<1>3. /\ Tree(shapes') /\ \A p \in 1..Len(shapes) : shapes'[p].kids = shapes[p].kids
      /\ \A q : IsKid(shapes', q) => IsKid(shapes, q)
  BY <1>0, <1>2, PrivateChange
<1>4. tab' = [u \in Tables |-> tab'[u]] /\ \A u \in Tables : u # t => tab'[u] = tab[u]
  BY <1>0 DEF ExtendInPlace
<1>5. tab'[t].shape = sh /\ tab'[t].own = tab[t].own /\ tab'[t].vals = w
  BY <1>0 DEF TableRec, ExtendInPlace
<1>6. w \in Seq(Values) /\ Len(w) = Len(KeysOf(t)) + 1 /\ w[Len(KeysOf(t)) + 1] = v
      /\ \A j \in 1..Len(KeysOf(t)) : w[j] = tab[t].vals[j]
  BY <1>0, AppendFacts
<1>7. tab'[t] \in TableRec(Len(shapes'))
  <2>1. tab'[t] = [shape |-> sh, vals |-> w, own |-> tab[t].own, meta |-> tab[t].meta]
    BY <1>0 DEF TableRec, ExtendInPlace
  <2> HIDE DEF w
  <2> QED BY <2>1, <1>0, <1>2, <1>6 DEF TableRec
<1> HIDE DEF w, ls
<1>8. KeysOf(t)' = ls
  BY <1>2, <1>5 DEF KeysOf
<1>9. Uniq(ls) /\ Stores(t, k, v)
  <2> DEFINE ks == KeysOf(t)
             vs == tab[t].vals
  <2>1. Lacks(ks, Name(k))
    BY FindKey DEF Pos
  <2>2. Appends(ks, vs, ls, w, k, v)
    BY <1>0, <1>1, <1>6, <2>1 DEF Appends
  <2> HIDE DEF ks, vs
  <2>3. Uniq(ls) /\ \A n : At(ls, w, n) = IF n = Name(k) THEN v ELSE At(ks, vs, n)
    BY <2>2, AtAppended
  <2> QED BY <1>5, <1>8, <2>3 DEF Stores, ks, vs
<1>10. MovesShapes(t)
  BY <1>0, <1>2, <1>3 DEF MovesShapes
<1>11. MovesTable(t)
  <2>1. Extends(shapes[sh].keys, shapes'[sh].keys)
    BY <1>0, <1>1, <1>2 DEF Extends
  <2>2. Len(tab'[t].vals) = Len(shapes'[tab'[t].shape].keys) /\ Uniq(shapes'[tab'[t].shape].keys)
    BY <1>1, <1>2, <1>5, <1>6, <1>9
  <2> QED BY <1>0, <1>4, <1>5, <1>7, <2>1, <2>2 DEF MovesTable
<1> QED BY <1>9, <1>10, <1>11 DEF Moves, MovesSite

(* A table that gets a private shape of its own, with keys ls and values w; *)
(* S is the other shapes, of which only its old private one may have        *)
(* changed.                                                                 *)
GetsShape(t, S, ls, n, w) ==
  /\ Tree(S) /\ Len(S) = Len(shapes)
  /\ \A p \in 1..Len(shapes) : p # tab[t].shape \/ ~tab[t].own => S[p].keys = shapes[p].keys
  /\ \A p \in 1..Len(shapes) : S[p].kids = shapes[p].kids
  /\ \A q : IsKid(S, q) => IsKid(shapes, q)
  /\ ls \in Seq(AllKeys \cup {Nil}) /\ Uniq(ls) /\ n \in Nat
  /\ w \in Seq(Values) /\ Len(w) = Len(ls)
  /\ shapes' = Append(S, NewShape(ls, n)) /\ cshape' = cshape
  /\ tab' = [u \in Tables |-> tab'[u]] /\ \A u \in Tables : u # t => tab'[u] = tab[u]
  /\ tab'[t] = [shape |-> Len(shapes) + 1, vals |-> w, own |-> TRUE, meta |-> tab[t].meta]

(* A table can always be given a new private shape. *)
LEMMA FreshShapeMoves ==
  ASSUME Layout, NEW t \in Tables, NEW S, NEW ls, NEW n, NEW w, GetsShape(t, S, ls, n, w)
  PROVE  Moves(t) /\ KeysOf(t)' = ls
<1> USE DEF GetsShape
<1> DEFINE new == Len(shapes) + 1
<1>0. Len(shapes) \in Nat /\ Len(shapes) >= 1 /\ S \in Seq(ShapeRec) /\ tab[t].meta \in Tables \cup {Nil}
  BY TableTypes DEF Tree
<1>1. NewShape(ls, n) \in ShapeRec /\ NewShape(ls, n).keys = ls /\ NewShape(ls, n).kids = NoKids
  BY NewShapeType
<1>2. /\ shapes' \in Seq(ShapeRec) /\ Len(shapes') = new /\ \A p \in 1..Len(shapes) : shapes'[p] = S[p]
      /\ shapes'[new].keys = ls /\ shapes'[new].kids = NoKids
  <2>1. /\ Append(S, NewShape(ls, n)) \in Seq(ShapeRec) /\ Len(Append(S, NewShape(ls, n))) = Len(S) + 1
        /\ \A p \in 1..Len(S) : Append(S, NewShape(ls, n))[p] = S[p]
        /\ Append(S, NewShape(ls, n))[Len(S) + 1] = NewShape(ls, n)
    BY <1>0, <1>1, ShapeAdded
  <2> QED BY <2>1, <1>1
<1>3. Tree(shapes')
  <2>1. ASSUME NEW p \in 1..new, NEW s \in Slots PROVE GoodKid(shapes', p, shapes'[p].kids[s])
    <3>1. CASE p = new
      BY <3>1, <1>2 DEF GoodKid, NoKids
    <3>2. CASE p # new
      <4> DEFINE e == S[p].kids[s]
      <4>1. p \in 1..Len(shapes) /\ shapes'[p].kids[s] = e /\ shapes'[p].keys = S[p].keys
        BY <3>2, <1>0, <1>2
      <4>2. GoodKid(S, p, e)
        BY <4>1 DEF Tree
      <4>3. e.kid \in 1..Len(S) => e.kid \in 1..Len(shapes') /\ shapes'[e.kid].keys = S[e.kid].keys
        BY <1>0, <1>2
      <4> HIDE DEF e
      <4>4. CASE e.key = Nil /\ e.kid = None
        BY <4>1, <4>4 DEF GoodKid
      <4>5. CASE e.key \in StrKeys /\ e.kid \in 1..Len(S) /\ S[e.kid].keys = Append(S[p].keys, e.key)
        <5>1. shapes'[e.kid].keys = Append(shapes'[p].keys, e.key)
          BY <4>1, <4>3, <4>5, Zenon
        <5> QED BY <4>1, <4>3, <4>5, <5>1 DEF GoodKid
      <4> QED BY <4>2, <4>4, <4>5 DEF GoodKid
    <3> QED BY <3>1, <3>2
  <2>2. shapes'[Root].keys = <<>>
    BY <1>0, <1>2 DEF Tree, Root
  <2> QED BY <1>0, <1>2, <2>1, <2>2 DEF Tree
<1>4. \A q : IsKid(shapes', q) => q = None \/ IsKid(S, q)
  <2> SUFFICES ASSUME NEW q, IsKid(shapes', q) PROVE q = None \/ IsKid(S, q)
    OBVIOUS
  <2>0. PICK p \in 1..new, s \in Slots : shapes'[p].kids[s].kid = q
    BY <1>2 DEF IsKid
  <2>1. CASE p = new
    BY <2>0, <2>1, <1>2 DEF NoKids
  <2>2. CASE p # new
    BY <2>0, <2>2, <1>0, <1>2 DEF IsKid
  <2> QED BY <2>1, <2>2
<1>5. ~IsKid(shapes', new)
  <2>1. \A q : IsKid(S, q) => q = None \/ q \in 1..Len(S)
    BY DEF IsKid, Tree, GoodKid
  <2> QED BY <2>1, <1>0, <1>4 DEF None
<1>6. MovesShapes(t)
  BY <1>0, <1>2, <1>3, <1>4 DEF MovesShapes, None
<1>7. MovesTable(t)
  <2>1. tab'[t] \in TableRec(new)
    BY <1>0 DEF TableRec
  <2>2. tab'[t].shape = new /\ tab'[t].own = TRUE /\ tab'[t].vals = w
    OBVIOUS
  <2> QED BY <2>1, <2>2, <1>0, <1>2, <1>5 DEF MovesTable
<1>8. KeysOf(t)' = ls
  BY <1>2 DEF KeysOf
<1> QED BY <1>6, <1>7, <1>8 DEF Moves, MovesSite

(* $tab_own: a shared shape is copied and the copy extended. *)
LEMMA CopyAndExtendMoves ==
  ASSUME Layout, NEW t \in Tables, NEW k \in AllKeys, NEW v \in Values,
         Pos(t, k) = 0, CopyAndExtend(t, k, v), cshape' = cshape
  PROVE  Moves(t) /\ Stores(t, k, v)
<1> DEFINE w == Append(tab[t].vals, v)
           ls == Append(KeysOf(t), k)
<1>0. /\ tab \in [Tables -> TableRec(Len(shapes))] /\ tab[t] \in TableRec(Len(shapes))
      /\ tab[t].vals \in Seq(Values) /\ Len(tab[t].vals) = Len(KeysOf(t))
      /\ KeysOf(t) \in Seq(AllKeys \cup {Nil})
      /\ Uniq(KeysOf(t)) /\ Len(KeysOf(t)) \in Nat
      /\ shapes[tab[t].shape].sized \in Nat /\ Tree(shapes)
  BY TableTypes DEF ShapeRec, Layout
<1>1. /\ ls \in Seq(AllKeys \cup {Nil}) /\ Len(ls) = Len(KeysOf(t)) + 1
      /\ ls[Len(KeysOf(t)) + 1] = k /\ \A j \in 1..Len(KeysOf(t)) : ls[j] = KeysOf(t)[j]
  BY <1>0, AppendFacts
<1>2. w \in Seq(Values) /\ Len(w) = Len(KeysOf(t)) + 1 /\ w[Len(KeysOf(t)) + 1] = v
      /\ \A j \in 1..Len(KeysOf(t)) : w[j] = tab[t].vals[j]
  BY <1>0, AppendFacts
<1>3. tab' = [u \in Tables |-> tab'[u]] /\ \A u \in Tables : u # t => tab'[u] = tab[u]
  BY <1>0 DEF CopyAndExtend
<1>4. tab'[t] = [shape |-> Len(shapes) + 1, vals |-> w, own |-> TRUE, meta |-> tab[t].meta]
  BY <1>0 DEF TableRec, CopyAndExtend
<1>5. shapes' = Append(shapes, NewShape(ls, shapes[tab[t].shape].sized))
  BY DEF CopyAndExtend
<1> HIDE DEF w, ls
<1>6. Uniq(ls) /\ \A n : At(ls, w, n) = IF n = Name(k) THEN v ELSE At(KeysOf(t), tab[t].vals, n)
  <2>1. Lacks(KeysOf(t), Name(k))
    BY FindKey DEF Pos
  <2>2. Appends(KeysOf(t), tab[t].vals, ls, w, k, v)
    BY <1>0, <1>1, <1>2, <2>1 DEF Appends
  <2> QED BY <2>2, AtAppended
<1>7. GetsShape(t, shapes, ls, shapes[tab[t].shape].sized, w)
  BY <1>0, <1>1, <1>2, <1>3, <1>4, <1>5, <1>6 DEF GetsShape
<1>8. Moves(t) /\ KeysOf(t)' = ls
  BY <1>7, FreshShapeMoves
<1> QED BY <1>4, <1>6, <1>8 DEF Stores

(* Compaction overwrites the key array of the shape it replaces.            *)
LEMMA OverwrittenShapes ==
  ASSUME Layout, NEW t \in Tables
  PROVE  /\ Tree(Overwritten(t)) /\ Len(Overwritten(t)) = Len(shapes)
         /\ \A p \in 1..Len(shapes) :
              p # tab[t].shape \/ ~tab[t].own => Overwritten(t)[p].keys = shapes[p].keys
         /\ \A p \in 1..Len(shapes) : Overwritten(t)[p].kids = shapes[p].kids
         /\ \A q : IsKid(Overwritten(t), q) => IsKid(shapes, q)
<1> DEFINE sh == tab[t].shape
           S == Overwritten(t)
<1>0. sh \in 1..Len(shapes) /\ shapes \in Seq(ShapeRec) /\ shapes[sh] \in ShapeRec /\ Tree(shapes)
  BY TableTypes DEF Layout
<1>1. CASE ~tab[t].own
  BY <1>0, <1>1 DEF Overwritten
<1>2. CASE tab[t].own
  <2> DEFINE ls == [i \in DOMAIN shapes[sh].keys |-> Nil]
             r == [keys |-> ls, sized |-> shapes[sh].sized, kids |-> shapes[sh].kids]
  <2>1. ls \in Seq(AllKeys \cup {Nil})
    <3>1. shapes[sh].keys \in Seq(AllKeys \cup {Nil})
      BY <1>0 DEF ShapeRec
    <3> QED BY <3>1
  <2>2. r \in ShapeRec
    <3> HIDE DEF ls
    <3> QED BY <2>1, <1>0 DEF ShapeRec
  <2>3. S = [shapes EXCEPT ![sh] = [shapes[sh] EXCEPT !.keys = ls]]
    BY <1>2 DEF Overwritten
  <2>4. [shapes[sh] EXCEPT !.keys = ls] = r
    BY <1>0, KeysChanged
  <2>5. r.kids = shapes[sh].kids
    OBVIOUS
  <2> HIDE DEF r, S
  <2>6. /\ S \in Seq(ShapeRec) /\ Len(S) = Len(shapes) /\ S[sh] = r
        /\ \A p \in 1..Len(shapes) : p # sh => S[p] = shapes[p]
    BY <2>2, <2>3, <2>4, <1>0
  <2>7. /\ Tree(S) /\ \A p \in 1..Len(shapes) : S[p].kids = shapes[p].kids
        /\ \A q : IsKid(S, q) => IsKid(shapes, q)
    BY <1>2, <2>5, <2>6, PrivateChange
  <2> QED BY <1>2, <2>6, <2>7 DEF S
<1> QED BY <1>1, <1>2

(* $tab_index_rebuild: the live entries move to a new shape. *)
LEMMA CompactMoves ==
  ASSUME Layout, NEW t \in Tables, NEW k \in AllKeys, NEW v \in Values,
         Pos(t, k) = 0, Compact(t, k, v), cshape' = cshape
  PROVE  Moves(t) /\ Stores(t, k, v)
<1> DEFINE ks == KeysOf(t)
           vs == tab[t].vals
<1>0. /\ tab \in [Tables -> TableRec(Len(shapes))] /\ tab[t] \in TableRec(Len(shapes))
      /\ vs \in Seq(Values) /\ Len(vs) = Len(ks) /\ ks \in Seq(AllKeys \cup {Nil})
      /\ Uniq(ks) /\ Len(ks) \in Nat
  BY TableTypes
<1>a. PICK n \in 0..Len(vs) : \E at \in LiveOrders(t, n) :
        /\ shapes' = Append(Overwritten(t), NewShape(Append([j \in 1..n |-> ks[at[j]]], k), n))
        /\ tab' = [tab EXCEPT ![t].shape = Len(shapes) + 1, ![t].own = TRUE,
                              ![t].vals = Append([j \in 1..n |-> @[at[j]]], v)]
  BY Zenon DEF Compact
<1>1. PICK at \in LiveOrders(t, n) :
        /\ shapes' = Append(Overwritten(t), NewShape(Append([j \in 1..n |-> ks[at[j]]], k), n))
        /\ tab' = [tab EXCEPT ![t].shape = Len(shapes) + 1, ![t].own = TRUE,
                              ![t].vals = Append([j \in 1..n |-> @[at[j]]], v)]
  BY <1>a, Zenon
<1> DEFINE kk == [j \in 1..n |-> ks[at[j]]]
           kv == [j \in 1..n |-> vs[at[j]]]
           ls == Append(kk, k)
           w == Append(kv, v)
<1>2. /\ n \in Nat /\ at \in [1..n -> 1..Len(ks)]
      /\ \A i, j \in 1..n : i < j => at[i] < at[j]
      /\ \A p \in 1..Len(ks) : vs[p] # Nil => \E j \in 1..n : at[j] = p
  <2>1. n \in Nat
    BY <1>0
  <2>2. at \in [1..n -> Live(t)] /\ (\A i, j \in 1..n : i < j => at[i] < at[j])
        /\ \A p \in Live(t) : \E j \in 1..n : at[j] = p
    BY DEF LiveOrders
  <2>3. \A p : p \in Live(t) <=> p \in 1..Len(ks) /\ vs[p] # Nil
    BY <1>0 DEF Live
  <2> HIDE DEF ks, vs
  <2> QED BY <2>1, <2>2, <2>3
<1>3. kk \in Seq(AllKeys \cup {Nil}) /\ kv \in Seq(Values) /\ Len(kk) = n /\ Len(kv) = n
  <2>1. \A j \in 1..n : at[j] \in 1..Len(ks)
    BY <1>2
  <2>2. \A j \in 1..n : ks[at[j]] \in AllKeys \cup {Nil} /\ vs[at[j]] \in Values
    BY <2>1, <1>0
  <2> HIDE DEF ks, vs
  <2> QED BY <1>2, <2>2
<1>4. tab' = [u \in Tables |-> tab'[u]] /\ \A u \in Tables : u # t => tab'[u] = tab[u]
  BY <1>0, <1>1
<1>5. tab'[t] = [shape |-> Len(shapes) + 1, vals |-> w, own |-> TRUE, meta |-> tab[t].meta]
  BY <1>0, <1>1 DEF TableRec
<1>6. shapes' = Append(Overwritten(t), NewShape(ls, n))
  BY <1>1
<1>7. \A j \in 1..n : kk[j] = ks[at[j]] /\ kv[j] = vs[at[j]]
  OBVIOUS
<1> HIDE DEF kk, kv, ks, vs
<1>8. Uniq(kk) /\ (\A m : Lacks(ks, m) => Lacks(kk, m)) /\ \A m : At(kk, kv, m) = At(ks, vs, m)
  <2>1. Keeps(ks, vs, kk, kv, n, at)
    BY <1>0, <1>2, <1>3, <1>7 DEF Keeps
  <2> QED BY <2>1, AtKept
<1>9. /\ ls \in Seq(AllKeys \cup {Nil}) /\ Len(ls) = n + 1 /\ ls[n + 1] = k
      /\ \A j \in 1..n : ls[j] = kk[j]
  BY <1>3, AppendFacts
<1>10. w \in Seq(Values) /\ Len(w) = n + 1 /\ w[n + 1] = v /\ \A j \in 1..n : w[j] = kv[j]
  BY <1>3, AppendFacts
<1> HIDE DEF ls, w
<1>11. Uniq(ls) /\ \A m : At(ls, w, m) = IF m = Name(k) THEN v ELSE At(kk, kv, m)
  <2>1. Lacks(kk, Name(k))
    BY <1>8, FindKey DEF Pos, ks
  <2>2. Appends(kk, kv, ls, w, k, v)
    BY <1>2, <1>3, <1>8, <1>9, <1>10, <2>1 DEF Appends
  <2> QED BY <2>2, AtAppended
<1>12. GetsShape(t, Overwritten(t), ls, n, w)
  BY <1>2, <1>4, <1>5, <1>6, <1>9, <1>10, <1>11, OverwrittenShapes DEF GetsShape
<1>13. Moves(t) /\ KeysOf(t)' = ls
  BY <1>12, FreshShapeMoves
<1>14. tab'[t].vals = w
  BY <1>5
<1> QED BY <1>8, <1>11, <1>13, <1>14 DEF Stores, ks, vs

(* Two keys appended to none. *)
LEMMA TwoAppended ==
  ASSUME NEW X, NEW k \in X, NEW l \in X
  PROVE  Append(Append(<<>>,k), l) = <<k, l>>
<1>1. <<k>> \in Seq(X) /\ <<k,l>> \in Seq(X) /\ Append(<<>>,k) \in Seq(X)
  OBVIOUS
<1>2. Append(<<>>,k) = <<k>>
  BY <1>1, SeqEqual, AppendProperties
<1>3. Append(<<k>>, l) \in Seq(X) /\ Len(Append(<<k>>, l)) = 2 /\ Len(<<k,l>>) = 2
  BY <1>1
<1>4. Append(<<k>>, l)[1] = k /\ Append(<<k>>, l)[2] = l
  BY <1>1
<1>5. Append(<<k>>, l) = <<k,l>>
  <2> DEFINE a == Append(<<k>>, l)
             b == <<k, l>>
  <2>1. a \in Seq(X) /\ b \in Seq(X) /\ Len(a) = 2 /\ Len(b) = 2 /\ a[1] = k /\ a[2] = l
        /\ b[1] = k /\ b[2] = l
    BY <1>1, <1>3, <1>4
  <2> HIDE DEF a, b
  <2>2. \A i \in 1..Len(a) : a[i] = b[i]
    BY <2>1
  <2>3. a = b
    BY <2>1, <2>2, SeqEqual
  <2> QED BY <2>3 DEF a, b
<1> QED BY <1>2, <1>5, Zenon

(* The layout of a constructor: two steps down the transition tree.         *)
LEMMA TwoChildren ==
  ASSUME NEW shs, Tree(shs), NEW k \in StrKeys, NEW l \in StrKeys,
         NEW S, NEW a, ChildFacts(shs, Root, k, S, a), NEW T, NEW b, ChildFacts(S, a, l, T, b)
  PROVE  /\ Tree(T) /\ Len(T) >= Len(shs) /\ b \in 1..Len(T)
         /\ T[b].keys = <<k, l>>
         /\ \A p \in 1..Len(shs) : T[p].keys = shs[p].keys
         /\ \A p \in 1..Len(shs) : p # Root /\ ~IsKid(shs, p) => T[p].kids = shs[p].kids
         /\ \A q \in 1..Len(shs) : IsKid(T, q) => IsKid(shs, q)
         /\ b \in 1..Len(shs) => IsKid(shs, b)
<1>1. /\ Tree(S) /\ Len(S) >= Len(shs) /\ Len(shs) \in Nat /\ Len(S) \in Nat /\ Len(shs) >= 1
      /\ a \in 1..Len(S) /\ S[a].keys = Append(shs[Root].keys, k) /\ shs[Root].keys = <<>>
      /\ \A p \in 1..Len(shs) : S[p].keys = shs[p].keys
      /\ \A p \in 1..Len(shs) : p # Root => S[p].kids = shs[p].kids
      /\ \A q \in 1..Len(shs) : IsKid(S, q) => IsKid(shs, q)
      /\ a \in 1..Len(shs) => IsKid(shs, a)
  BY DEF ChildFacts, Tree
<1>2. /\ Tree(T) /\ Len(T) >= Len(S) /\ Len(T) \in Nat
      /\ b \in 1..Len(T) /\ T[b].keys = Append(S[a].keys, l)
      /\ \A p \in 1..Len(S) : T[p].keys = S[p].keys
      /\ \A p \in 1..Len(S) : p # a => T[p].kids = S[p].kids
      /\ \A q \in 1..Len(S) : IsKid(T, q) => IsKid(S, q)
      /\ b \in 1..Len(S) => IsKid(S, b)
  BY DEF ChildFacts, Tree
<1>3. T[b].keys = <<k, l>>
  <2>1. T[b].keys = Append(Append(<<>>, k), l)
    BY <1>1, <1>2, Zenon
  <2>2. Append(Append(<<>>, k), l) = <<k, l>>
    BY TwoAppended
  <2> QED BY <2>1, <2>2, Zenon
<1>4. \A p \in 1..Len(shs) : p \in 1..Len(S)
  BY <1>1
<1>5. \A p \in 1..Len(shs) : T[p].keys = shs[p].keys
  BY <1>1, <1>2, <1>4
<1>6. \A q \in 1..Len(shs) : IsKid(T, q) => IsKid(shs, q)
  BY <1>1, <1>2, <1>4
<1>7. \A p \in 1..Len(shs) : p # Root /\ ~IsKid(shs, p) => T[p].kids = shs[p].kids
  BY <1>1, <1>2, <1>4
<1>8. b \in 1..Len(shs) => IsKid(shs, b)
  BY <1>1, <1>2, <1>4
<1> QED BY <1>1, <1>2, <1>3, <1>5, <1>6, <1>7, <1>8

(* A constructor gives an unused table its layout and its two values. *)
LEMMA ConstructMoves ==
  ASSUME Layout, NEW t \in Tables, NEW v1 \in Values, NEW v2 \in Values, Construct(t, v1, v2)
  PROVE  /\ Moves(t)
         /\ \A n : At(KeysOf(t)', tab'[t].vals, n) = IF n = Name(CtorKeys[1]) THEN v1
                                                   ELSE IF n = Name(CtorKeys[2]) THEN v2 ELSE Nil
         /\ \A n : At(KeysOf(t), tab[t].vals, n) = Nil
<1> DEFINE k1 == CtorKeys[1]
           k2 == CtorKeys[2]
           one == Child(shapes, Root, k1)
           two == Child(one.shapes, one.at, k2)
           built == IF cshape # None THEN [shapes |-> shapes, at |-> cshape] ELSE two
           S == built.shapes
           b == built.at
           w == <<v1, v2>>
<1>0. /\ tab \in [Tables -> TableRec(Len(shapes))] /\ tab[t] \in TableRec(Len(shapes))
      /\ Len(shapes) \in Nat /\ Tree(shapes) /\ Len(shapes) >= 1 /\ k1 \in StrKeys /\ k2 \in StrKeys
      /\ Root \in 1..Len(shapes)
  BY TableTypes, KeysAssumption DEF Layout, Tree, Root
<1>1. tab[t] = EmptyTable /\ shapes' = S /\ cshape' = b
      /\ tab' = [tab EXCEPT ![t].shape = b, ![t].vals = w]
  BY Zenon DEF Construct, Unused
<1>2. Offered(Root)
  BY DEF Offered
<1>3. /\ Tree(S) /\ Len(S) >= Len(shapes) /\ b \in 1..Len(S)
      /\ S[b].keys = <<k1, k2>>
      /\ \A p \in 1..Len(shapes) : S[p].keys = shapes[p].keys
      /\ \A p \in 1..Len(shapes) : p # Root /\ ~IsKid(shapes, p) => S[p].kids = shapes[p].kids
      /\ \A q \in 1..Len(shapes) : IsKid(S, q) => IsKid(shapes, q)
      /\ b \in 1..Len(shapes) => Offered(b)
  <2>1. CASE cshape # None
    <3>1. S = shapes /\ b = cshape
      BY <2>1
    <3>2. cshape \in 1..Len(shapes) /\ shapes[cshape].keys = <<k1, k2>> /\ Offered(cshape)
      BY <2>1 DEF Layout, None, Offered
    <3> HIDE DEF S, b, k1, k2
    <3> QED BY <3>1, <3>2, <1>0
  <2>2. CASE cshape = None
    <3>1. S = two.shapes /\ b = two.at
      BY <2>2
    <3>2. ChildFacts(shapes, Root, k1, one.shapes, one.at)
      BY <1>0, ChildIsGood
    <3>3. Tree(one.shapes) /\ one.at \in 1..Len(one.shapes)
      BY <3>2 DEF ChildFacts
    <3> HIDE DEF one
    <3>4. ChildFacts(one.shapes, one.at, k2, two.shapes, two.at)
      BY <3>3, <1>0, ChildIsGood
    <3> HIDE DEF two, S, b, k1, k2
    <3>5. ChildFacts(shapes, Root, k1, one.shapes, one.at) /\ ChildFacts(one.shapes, one.at, k2, S, b)
      BY <3>1, <3>2, <3>4
    <3>6. /\ Tree(S) /\ Len(S) >= Len(shapes) /\ b \in 1..Len(S)
          /\ S[b].keys = <<k1, k2>>
          /\ \A p \in 1..Len(shapes) : S[p].keys = shapes[p].keys
          /\ \A p \in 1..Len(shapes) : p # Root /\ ~IsKid(shapes, p) => S[p].kids = shapes[p].kids
          /\ \A q \in 1..Len(shapes) : IsKid(S, q) => IsKid(shapes, q)
          /\ b \in 1..Len(shapes) => IsKid(shapes, b)
      BY <3>5, <1>0, TwoChildren
    <3>7. \A q : IsKid(shapes, q) => Offered(q)
      BY DEF Offered, IsKid, ShapeIds
    <3> QED BY <3>6, <3>7
  <2> QED BY <2>1, <2>2
<1>4. cshape # None => b = cshape
  OBVIOUS
<1> HIDE DEF S, b, one, two, built
<1>5. tab' = [u \in Tables |-> tab'[u]] /\ \A u \in Tables : u # t => tab'[u] = tab[u]
  BY <1>0, <1>1
<1>6. tab'[t] = [shape |-> b, vals |-> w, own |-> FALSE, meta |-> Nil]
  <2> HIDE DEF w
  <2>1. tab'[t] = [shape |-> b, vals |-> w, own |-> tab[t].own, meta |-> tab[t].meta]
    BY <1>0, <1>1 DEF TableRec
  <2>2. tab[t].own = FALSE /\ tab[t].meta = Nil
    BY <1>1 DEF EmptyTable
  <2> QED BY <2>1, <2>2, Zenon
<1>a. tab'[t].shape = b /\ tab'[t].vals = w /\ tab'[t].own = FALSE
  <2> HIDE DEF w
  <2> QED BY <1>6
<1>7. KeysOf(t)' = <<k1, k2>> /\ tab'[t].vals = w
  <2> HIDE DEF w, k1, k2
  <2>1. shapes'[tab'[t].shape].keys = <<k1, k2>>
    BY <1>1, <1>3, <1>a
  <2> QED BY <2>1, <1>a DEF KeysOf
<1>8. Uniq(<<k1, k2>>) /\ Name(k1) # Name(k2)
  <2>1. Name(k1) # Name(k2)
    BY <1>0, KeysAssumption DEF Name
  <2> HIDE DEF k1, k2
  <2> QED BY <2>1 DEF Uniq
<1>9. \A n : At(KeysOf(t)', tab'[t].vals, n) = IF n = Name(k1) THEN v1 ELSE IF n = Name(k2) THEN v2 ELSE Nil
  <2> DEFINE ls == <<k1, k2>>
  <2>1. Len(ls) = 2 /\ ls[1] = k1 /\ ls[2] = k2 /\ w[1] = v1 /\ w[2] = v2
    OBVIOUS
  <2>2. \A n : n # Name(k1) /\ n # Name(k2) => Lacks(ls, n)
    <3>1. 1..Len(ls) = {1, 2}
      BY <2>1
    <3> HIDE DEF ls, k1, k2
    <3> QED BY <2>1, <3>1 DEF Lacks
  <2>3. Uniq(ls) /\ 1 \in 1..Len(ls) /\ 2 \in 1..Len(ls)
    BY <1>8, <2>1
  <2> HIDE DEF ls, k1, k2, w
  <2>4. At(ls, w, Name(k1)) = v1 /\ At(ls, w, Name(k2)) = v2
    BY <2>1, <2>3, AtKey
  <2>5. \A n : n # Name(k1) /\ n # Name(k2) => At(ls, w, n) = Nil
    BY <2>2, AtNone
  <2> QED BY <1>7, <2>4, <2>5 DEF ls
<1>10. tab[t].own = FALSE /\ tab[t].vals = <<>> /\ tab[t].shape = Root /\ KeysOf(t) = <<>>
  BY <1>0, <1>1 DEF EmptyTable, KeysOf, Tree
<1>11. \A n : At(KeysOf(t), tab[t].vals, n) = Nil
  <2>1. \A n : Lacks(<<>>, n)
    BY DEF Lacks
  <2> QED BY <1>10, <2>1, AtNone
<1>12. MovesShapes(t)
  <2>1. \A p \in 1..Len(shapes) : Owned(p) => p # Root /\ ~IsKid(shapes, p)
    BY DEF Owned, Layout, OwnedIsPrivate, Offered, IsKid, ShapeIds
  <2> QED BY <1>1, <1>3, <2>1 DEF MovesShapes
<1>13. MovesTable(t)
  <2>1. w \in Seq(Values) /\ Len(w) = 2
    OBVIOUS
  <2>2. Len(shapes'[b].keys) = 2 /\ Uniq(shapes'[b].keys)
    BY <1>1, <1>3, <1>8
  <2> HIDE DEF w
  <2>3. tab'[t] \in TableRec(Len(shapes'))
    <3>1. b \in 1..Len(shapes')
      BY <1>1, <1>3
    <3> QED BY <3>1, <1>6, <2>1 DEF TableRec
  <2>4. b > Len(shapes) \/ Offered(b)
    <3>1. b \in Nat /\ b >= 1
      BY <1>3
    <3> QED BY <3>1, <1>0, <1>3
  <2> QED BY <1>5, <1>10, <1>a, <2>1, <2>2, <2>3, <2>4 DEF MovesTable
<1>14. MovesSite(t)
  <2>1. b > Len(shapes) \/ Offered(b)
    <3>1. b \in Nat /\ b >= 1
      BY <1>3
    <3> QED BY <3>1, <1>0, <1>3
  <2> QED BY <1>1, <1>3, <1>4, <1>a, <2>1 DEF MovesSite
<1> QED BY <1>9, <1>11, <1>12, <1>13, <1>14 DEF Moves

(* $tab_set_hash is a move and changes the value at one name. *)
LEMMA RawSetMoves ==
  ASSUME Layout, NEW t \in Tables, NEW k \in AllKeys, NEW v \in Values, RawSet(t, k, v), cshape' = cshape
  PROVE  Moves(t) /\ Stores(t, k, v)
<1>1. CASE Pos(t, k) # 0 /\ SetAt(t, Pos(t, k), v)
  <2>1. Pos(t, k) \in 1..Len(KeysOf(t)) /\ Name(KeysOf(t)[Pos(t, k)]) = Name(k)
    BY <1>1, FindKey DEF Pos
  <2> QED BY <1>1, <2>1, SetAtMoves
<1>2. CASE Pos(t, k) = 0 /\ v # Nil /\ InsertNew(t, k, v)
  <2>1. CASE Shareable(t, k) /\ InsertShared(t, k, v)
    BY <1>2, <2>1, InsertSharedMoves DEF Shareable
  <2>2. CASE ExtendInPlace(t, k, v)
    BY <1>2, <2>2, ExtendInPlaceMoves
  <2>3. CASE CopyAndExtend(t, k, v)
    BY <1>2, <2>3, CopyAndExtendMoves
  <2>4. CASE Compact(t, k, v)
    BY <1>2, <2>4, CompactMoves
  <2> QED BY <1>2, <2>1, <2>2, <2>3, <2>4 DEF InsertNew
<1>3. CASE Pos(t, k) = 0 /\ v = Nil /\ UNCHANGED <<tab, shapes>>
  <2>1. Lacks(KeysOf(t), Name(k))
    BY <1>3, FindKey DEF Pos
  <2>2. At(KeysOf(t), tab[t].vals, Name(k)) = Nil
    BY <2>1, AtNone
  <2>3. KeysOf(t)' = KeysOf(t) /\ tab' = tab /\ shapes' = shapes
    BY <1>3 DEF KeysOf
  <2>4. Stores(t, k, v)
    BY <1>3, <2>2, <2>3 DEF Stores
  <2>5. /\ tab \in [Tables -> TableRec(Len(shapes))] /\ tab[t] \in TableRec(Len(shapes))
        /\ Uniq(shapes[tab[t].shape].keys) /\ Len(tab[t].vals) = Len(shapes[tab[t].shape].keys)
        /\ Len(shapes[tab[t].shape].keys) \in Nat /\ Len(shapes) \in Nat
        /\ tab[t].own \in BOOLEAN
    BY TableTypes DEF KeysOf
  <2>6. MovesShapes(t)
    BY <2>3, <2>5 DEF MovesShapes, Layout
  <2>7. MovesTable(t)
    BY <2>3, <2>5 DEF MovesTable, Extends
  <2> QED BY <2>4, <2>6, <2>7 DEF Moves, MovesSite
<1> QED BY <1>1, <1>2, <1>3 DEF RawSet
-----------------------------------------------------------------------------
(* The fields of the tables, in this state and in the next. *)
LEMMA FieldsNow ==
  /\ Fields = [t \in Tables |-> [n \in Names |-> At(KeysOf(t), tab[t].vals, n)]]
  /\ Fields' = [t \in Tables |-> [n \in Names |-> At(KeysOf(t)', tab'[t].vals, n)]]
  BY DEF Fields, At, KeysOf

(* The other tables keep their keys and values. *)
LEMMA OthersKept ==
  ASSUME Layout, NEW t \in Tables, Moves(t)
  PROVE  \A u \in Tables : u # t => tab'[u] = tab[u] /\ KeysOf(u)' = KeysOf(u)
<1> SUFFICES ASSUME NEW u \in Tables, u # t PROVE tab'[u] = tab[u] /\ KeysOf(u)' = KeysOf(u)
  OBVIOUS
<1>1. tab'[u] = tab[u]
  BY DEF Moves, MovesTable
<1>2. tab[u].shape # tab[t].shape \/ ~tab[t].own
  BY DEF Layout, OwnedIsPrivate
<1>3. tab[u].shape \in 1..Len(shapes)
  BY TableTypes
<1>4. shapes'[tab[u].shape].keys = shapes[tab[u].shape].keys
  BY <1>2, <1>3 DEF Moves, MovesShapes
<1> QED BY <1>1, <1>4 DEF KeysOf

(* A move that changes one value is what the program asked for. *)
LEMMA StoreSeen ==
  ASSUME Layout, FieldsAsStored, NEW t \in Tables, NEW k \in AllKeys, NEW v,
         Moves(t), Stores(t, k, v), mem' = [mem EXCEPT ![t][Name(k)] = v]
  PROVE  FieldsAsStored'
<1>1. Name(k) \in Names
  BY DEF Names
<1>2. /\ mem = [u \in Tables |-> [n \in Names |-> At(KeysOf(u), tab[u].vals, n)]]
      /\ Fields' = [u \in Tables |-> [n \in Names |-> At(KeysOf(u)', tab'[u].vals, n)]]
  BY FieldsNow DEF FieldsAsStored
<1>3. mem' = [u \in Tables |-> [n \in Names |-> IF u = t /\ n = Name(k) THEN v ELSE mem[u][n]]]
  BY <1>1, <1>2
<1>4. ASSUME NEW u \in Tables, NEW n \in Names
      PROVE  At(KeysOf(u)', tab'[u].vals, n) = IF u = t /\ n = Name(k) THEN v ELSE mem[u][n]
  <2>1. CASE u = t
    BY <2>1, <1>2 DEF Stores
  <2>2. CASE u # t
    BY <2>2, <1>2, OthersKept
  <2> QED BY <2>1, <2>2
<1>5. ASSUME NEW u \in Tables
      PROVE  [n \in Names |-> At(KeysOf(u)', tab'[u].vals, n)]
               = [n \in Names |-> IF u = t /\ n = Name(k) THEN v ELSE mem[u][n]]
  BY <1>4
<1>6. Fields' = mem'
  BY <1>2, <1>3, <1>5, ZenonT(30)
<1> QED BY <1>6 DEF FieldsAsStored

(* A step that touches no table and no shape. *)
LEMMA StutterEvolves ==
  ASSUME Layout, shapes' = shapes, tab' = tab, cshape' = cshape
  PROVE  Evolves
<1>1. \A p \in 1..Len(shapes) : (Alive(p)' <=> Alive(p)) /\ (Owned(p)' <=> Owned(p))
  BY DEF Alive, Owned, Offered, ShapeIds
<1>2. \A p \in 1..Len(shapes) : Len(shapes[p].keys) \in Nat
  BY DEF Layout, Tree, ShapeRec
<1>3. Len(shapes) \in Nat
  BY DEF Layout, Tree
<1> QED BY <1>1, <1>2, <1>3 DEF Evolves, Extends

(* Caches that are not touched hold what they held. *)
LEMMA CachesSame ==
  /\ FieldCaches /\ ic' = ic =>
       /\ ic' \in [FieldSites -> FieldRec(Len(shapes))]
       /\ \A s \in FieldSites : KeyAt(ic'[s].shape, ic'[s].pos, s)
  /\ MethodCaches /\ mic' = mic =>
       /\ mic' \in [MethodSites -> MethodRec(Len(shapes))]
       /\ \A s \in MethodSites : CachesMethod(s, mic'[s])
  BY DEF FieldCaches, MethodCaches

(* $ic_fill caches a key where it is. *)
LEMMA FilledHolds ==
  ASSUME Layout, FieldCaches, NEW s \in FieldSites, NEW t \in Tables, ic' = [ic EXCEPT ![s] = Filled(s, t)]
  PROVE  /\ ic' \in [FieldSites -> FieldRec(Len(shapes))]
         /\ \A z \in FieldSites : KeyAt(ic'[z].shape, ic'[z].pos, z)
<1>0. /\ tab[t].shape \in 1..Len(shapes) /\ Len(shapes) \in Nat /\ Len(KeysOf(t)) \in Nat
      /\ ic \in [FieldSites -> FieldRec(Len(shapes))]
      /\ KeyAt(ic[s].shape, ic[s].pos, s)
  BY TableTypes DEF FieldCaches
<1>1. Filled(s, t) \in FieldRec(Len(shapes))
      /\ KeyAt(Filled(s, t).shape, Filled(s, t).pos, s)
  <2>1. CASE Pos(t, s) = 0
    BY <2>1, <1>0 DEF Filled
  <2>2. CASE Pos(t, s) # 0
    <3>1. Pos(t, s) \in 1..Len(KeysOf(t)) /\ Name(KeysOf(t)[Pos(t, s)]) = Name(s)
      BY <2>2, FindKey DEF Pos
    <3>2. Filled(s, t) = [shape |-> tab[t].shape, pos |-> Pos(t, s)]
      BY <2>2 DEF Filled
    <3> QED BY <3>1, <3>2, <1>0 DEF KeyAt, KeysOf, FieldRec
  <2> QED BY <2>1, <2>2
<1>2. ic'[s] = Filled(s, t) /\ \A z \in FieldSites : z # s => ic'[z] = ic[z]
  BY <1>0
<1>3. ic' \in [FieldSites -> FieldRec(Len(shapes))]
  BY <1>0, <1>1
<1> QED BY <1>1, <1>2, <1>3 DEF FieldCaches

(* $lua_index_ic keeps the invariant. *)
LEMMA ReadFieldStep ==
  ASSUME IInv, NEW s \in FieldSites, NEW t \in Tables, ReadField(s, t)
  PROVE  IInv'
<1>0. Layout /\ FieldCaches /\ MethodCaches /\ FieldsAsStored
  BY DEF IInv
<1>1. shapes' = shapes /\ tab' = tab /\ mic' = mic /\ cshape' = cshape /\ mem' = mem
      /\ ic' = [ic EXCEPT ![s] = Filled(s, t)]
  BY DEF ReadField
<1>2. Evolves
  BY <1>0, <1>1, StutterEvolves
<1>3. Layout' /\ FieldsAsStored'
  <2>1. Layout'
    BY <1>0, <1>1 DEF Layout, KeysOf, OwnedIsPrivate, Offered, ShapeIds
  <2>2. Fields' = Fields
    BY <1>1 DEF Fields, KeysOf
  <2> QED BY <1>0, <1>1, <2>1, <2>2 DEF FieldsAsStored
<1>4. FieldCaches'
  BY <1>0, <1>1, <1>2, FilledHolds, FieldCachesKept
<1>5. MethodCaches'
  BY <1>0, <1>1, <1>2, CachesSame, MethodCachesKept
<1> QED BY <1>3, <1>4, <1>5 DEF IInv

(* $lua_tabset_ic keeps the invariant, on a hit and on a miss. *)
LEMMA WriteFieldStep ==
  ASSUME IInv, NEW s \in FieldSites, NEW t \in Tables, NEW v \in Values, WriteField(s, t, v)
  PROVE  IInv'
<1>0. Layout /\ FieldCaches /\ MethodCaches /\ FieldsAsStored /\ s \in AllKeys
  BY KeysAssumption DEF IInv, AllKeys
<1>1. mic' = mic /\ cshape' = cshape /\ mem' = [mem EXCEPT ![t][Name(s)] = v]
  BY DEF WriteField
<1>2. Moves(t) /\ Stores(t, s, v)
  <2>1. CASE HitStores(s, t) /\ SetAt(t, ic[s].pos, v)
    <3>1. ic[s].shape = tab[t].shape /\ tab[t].shape \in 1..Len(shapes)
      BY <2>1, <1>0, TableTypes DEF HitStores, Hit
    <3>2. Alive(tab[t].shape)
      BY DEF Alive
    <3>3. ic[s].pos \in 1..Len(KeysOf(t)) /\ Name(KeysOf(t)[ic[s].pos]) = Name(s)
      BY <3>1, <3>2, <1>0 DEF FieldCaches, KeyAt, None, KeysOf
    <3> QED BY <2>1, <3>3, <1>0, <1>1, SetAtMoves
  <2>2. CASE RawSet(t, s, v)
    BY <2>2, <1>0, <1>1, RawSetMoves
  <2> QED BY <2>1, <2>2 DEF WriteField
<1>3. Layout' /\ Evolves /\ FieldsAsStored'
  BY <1>0, <1>1, <1>2, LayoutKept, MovesEvolve, StoreSeen
<1>4. FieldCaches'
  <2>1. CASE ic' = ic
    BY <2>1, <1>0, <1>3, CachesSame, FieldCachesKept
  <2>2. CASE ic' = [ic EXCEPT ![s] = Filled(s, t)]
    BY <2>2, <1>0, <1>3, FilledHolds, FieldCachesKept
  <2> QED BY <2>1, <2>2 DEF WriteField
<1>5. MethodCaches'
  BY <1>0, <1>1, <1>3, CachesSame, MethodCachesKept
<1> QED BY <1>3, <1>4, <1>5 DEF IInv

(* A store under a computed key keeps the invariant. *)
LEMMA WriteKeyStep ==
  ASSUME IInv, NEW t \in Tables, NEW k \in AllKeys, NEW v \in Values, WriteKey(t, k, v)
  PROVE  IInv'
<1>0. Layout /\ FieldCaches /\ MethodCaches /\ FieldsAsStored
  BY DEF IInv
<1>1. ic' = ic /\ mic' = mic /\ cshape' = cshape /\ mem' = [mem EXCEPT ![t][Name(k)] = v]
      /\ RawSet(t, k, v)
  BY DEF WriteKey
<1>2. Moves(t) /\ Stores(t, k, v)
  BY <1>0, <1>1, RawSetMoves
<1>3. Layout' /\ Evolves /\ FieldsAsStored'
  BY <1>0, <1>1, <1>2, LayoutKept, MovesEvolve, StoreSeen
<1>4. FieldCaches' /\ MethodCaches'
  BY <1>0, <1>1, <1>3, CachesSame, FieldCachesKept, MethodCachesKept
<1> QED BY <1>3, <1>4 DEF IInv

(* A constructor keeps the invariant. *)
LEMMA ConstructStep ==
  ASSUME IInv, NEW t \in Tables, NEW v1 \in Values, NEW v2 \in Values, Construct(t, v1, v2)
  PROVE  IInv'
<1> DEFINE n1 == Name(CtorKeys[1])
           n2 == Name(CtorKeys[2])
<1>0. Layout /\ FieldCaches /\ MethodCaches /\ FieldsAsStored
  BY DEF IInv
<1>1. ic' = ic /\ mic' = mic /\ mem' = [mem EXCEPT ![t][n1] = v1, ![t][n2] = v2]
  BY Zenon DEF Construct
<1>2. /\ Moves(t)
      /\ \A n : At(KeysOf(t)', tab'[t].vals, n) = IF n = n1 THEN v1 ELSE IF n = n2 THEN v2 ELSE Nil
      /\ \A n : At(KeysOf(t), tab[t].vals, n) = Nil
  BY <1>0, ConstructMoves
<1>3. Layout' /\ Evolves
  BY <1>0, <1>2, LayoutKept, MovesEvolve
<1>4. FieldsAsStored'
  <2>1. n1 \in Names /\ n2 \in Names /\ n1 # n2
    BY KeysAssumption DEF Names, AllKeys, Name
  <2>2. /\ mem = [u \in Tables |-> [n \in Names |-> At(KeysOf(u), tab[u].vals, n)]]
        /\ Fields' = [u \in Tables |-> [n \in Names |-> At(KeysOf(u)', tab'[u].vals, n)]]
    BY <1>0, FieldsNow DEF FieldsAsStored
  <2> HIDE DEF n1, n2
  <2>3. mem' = [u \in Tables |-> [n \in Names |->
                  IF u = t /\ n = n1 THEN v1 ELSE IF u = t /\ n = n2 THEN v2 ELSE mem[u][n]]]
    <3> DEFINE m1 == [mem EXCEPT ![t][n1] = v1]
    <3>1. m1 = [u \in Tables |-> [n \in Names |-> IF u = t /\ n = n1 THEN v1 ELSE mem[u][n]]]
      BY <2>1, <2>2
    <3>2. mem' = [m1 EXCEPT ![t][n2] = v2]
      BY <1>1
    <3> HIDE DEF m1
    <3>3. mem' = [u \in Tables |-> [n \in Names |-> IF u = t /\ n = n2 THEN v2 ELSE m1[u][n]]]
      BY <2>1, <3>1, <3>2
    <3>4. ASSUME NEW u \in Tables, NEW n \in Names
          PROVE  (IF u = t /\ n = n2 THEN v2 ELSE m1[u][n])
                   = IF u = t /\ n = n1 THEN v1 ELSE IF u = t /\ n = n2 THEN v2 ELSE mem[u][n]
      BY <2>1, <3>1
    <3>5. ASSUME NEW u \in Tables
          PROVE  [n \in Names |-> IF u = t /\ n = n2 THEN v2 ELSE m1[u][n]]
                   = [n \in Names |-> IF u = t /\ n = n1 THEN v1 ELSE IF u = t /\ n = n2 THEN v2 ELSE mem[u][n]]
      BY <3>4
    <3> QED BY <3>3, <3>5, Zenon
  <2>4. ASSUME NEW u \in Tables, NEW n \in Names
        PROVE  At(KeysOf(u)', tab'[u].vals, n)
                 = IF u = t /\ n = n1 THEN v1 ELSE IF u = t /\ n = n2 THEN v2 ELSE mem[u][n]
    <3>1. CASE u = t
      BY <3>1, <1>2, <2>2
    <3>2. CASE u # t
      BY <3>2, <1>0, <1>2, <2>2, OthersKept
    <3> QED BY <3>1, <3>2
  <2>5. ASSUME NEW u \in Tables
        PROVE  [n \in Names |-> At(KeysOf(u)', tab'[u].vals, n)]
                 = [n \in Names |-> IF u = t /\ n = n1 THEN v1 ELSE IF u = t /\ n = n2 THEN v2 ELSE mem[u][n]]
    BY <2>4
  <2>6. Fields' = mem'
    BY <2>2, <2>3, <2>5, Zenon
  <2> QED BY <2>6 DEF FieldsAsStored
<1>5. FieldCaches' /\ MethodCaches'
  BY <1>0, <1>1, <1>3, CachesSame, FieldCachesKept, MethodCachesKept
<1> QED BY <1>3, <1>4, <1>5 DEF IInv

(* $set_metatable keeps the invariant: no layout depends on a metatable. *)
LEMMA SetMetatableStep ==
  ASSUME IInv, NEW t \in Tables, NEW m \in Metas \cup {Nil}, SetMetatable(t, m)
  PROVE  IInv'
<1>0. /\ Layout /\ FieldCaches /\ MethodCaches /\ FieldsAsStored
      /\ tab \in [Tables -> TableRec(Len(shapes))] /\ tab[t] \in TableRec(Len(shapes))
      /\ Uniq(shapes[tab[t].shape].keys) /\ Len(tab[t].vals) = Len(shapes[tab[t].shape].keys)
      /\ Len(shapes[tab[t].shape].keys) \in Nat /\ Len(shapes) \in Nat
      /\ tab[t].own \in BOOLEAN
  <2>1. Layout /\ FieldCaches /\ MethodCaches /\ FieldsAsStored
    BY DEF IInv
  <2> QED BY <2>1, TableTypes DEF KeysOf
<1>1. shapes' = shapes /\ ic' = ic /\ mic' = mic /\ cshape' = cshape /\ mem' = mem
  BY DEF SetMetatable
<1>2. tab' = [u \in Tables |-> tab'[u]] /\ \A u \in Tables : u # t => tab'[u] = tab[u]
  BY <1>0 DEF SetMetatable
<1>3. /\ tab'[t].shape = tab[t].shape /\ tab'[t].vals = tab[t].vals /\ tab'[t].own = tab[t].own
      /\ tab'[t] \in TableRec(Len(shapes))
  <2>1. m \in Tables \cup {Nil}
    BY TablesAssumption
  <2> QED BY <1>0, <2>1 DEF SetMetatable, TableRec
<1>4. MovesShapes(t)
  BY <1>0, <1>1 DEF MovesShapes, Layout
<1>5. MovesTable(t)
  BY <1>0, <1>1, <1>2, <1>3 DEF MovesTable, Extends
<1>6. Moves(t)
  BY <1>1, <1>4, <1>5 DEF Moves, MovesSite
<1>7. Layout' /\ Evolves
  BY <1>0, <1>6, LayoutKept, MovesEvolve
<1>8. FieldsAsStored'
  <2>1. \A u \in Tables : KeysOf(u)' = KeysOf(u) /\ tab'[u].vals = tab[u].vals
    BY <1>1, <1>2, <1>3 DEF KeysOf
  <2>2. Fields' = Fields
    BY <2>1, FieldsNow
  <2> QED BY <1>0, <1>1, <2>2 DEF FieldsAsStored
<1>9. FieldCaches' /\ MethodCaches'
  BY <1>0, <1>1, <1>7, CachesSame, FieldCachesKept, MethodCachesKept
<1> QED BY <1>7, <1>8, <1>9 DEF IInv

(* What $lua_method_ic_miss caches holds when it caches it. *)
LEMMA CallMethodStep ==
  ASSUME IInv, NEW s \in MethodSites, NEW r \in Receivers, CallMethod(s, r)
  PROVE  IInv'
<1> DEFINE m == MetaOf(r)
           c == Get(m, IndexKey)
           e == [s1 |-> IF r = Nil THEN None ELSE tab[r].shape,
                 ms |-> tab[m].shape, mp |-> Pos(m, IndexKey),
                 c |-> c, cs |-> tab[c].shape, cp |-> Pos(c, s)]
<1>0. Layout /\ FieldCaches /\ MethodCaches /\ FieldsAsStored /\ Len(shapes) \in Nat
  BY DEF IInv, Layout, Tree
<1>1. shapes' = shapes /\ tab' = tab /\ ic' = ic /\ cshape' = cshape /\ mem' = mem
      /\ mic' = [mic EXCEPT ![s] = e] /\ MethodCacheable(s, r)
  BY DEF CallMethod
<1>2. Evolves
  BY <1>0, <1>1, StutterEvolves
<1>3. Layout' /\ FieldsAsStored'
  <2>1. Layout'
    BY <1>0, <1>1 DEF Layout, KeysOf, OwnedIsPrivate, Offered, ShapeIds
  <2>2. Fields' = Fields
    BY <1>1 DEF Fields, KeysOf
  <2> QED BY <1>0, <1>1, <2>1, <2>2 DEF FieldsAsStored
<1>4. FieldCaches'
  BY <1>0, <1>1, <1>2, CachesSame, FieldCachesKept
<1>5. m \in Tables /\ c \in Tables
  <2>1. r = Nil => m \in Tables
    BY TablesAssumption DEF MetaOf
  <2>2. r # Nil => r \in Tables
    BY DEF Receivers
  <2>3. r # Nil => m \in Tables \cup {Nil}
    BY <2>2, <1>0, TableTypes DEF MetaOf
  <2>4. m # Nil /\ c \in Tables
    BY <1>1, Zenon DEF MethodCacheable
  <2> QED BY <2>1, <2>3, <2>4
<1>6. c # Nil /\ Get(c, s) # Nil /\ (r # Nil => r \in Tables /\ ~tab[r].own /\ Pos(r, s) = 0)
  BY <1>1, <1>5, ValuesAssumption DEF MethodCacheable, Receivers
<1> HIDE DEF m, c
<1>7. Absent(e.s1, s)
  <2>1. CASE r = Nil
    BY <2>1 DEF Absent
  <2>2. CASE r # Nil
    <3>1. e.s1 = tab[r].shape
      BY <2>2
    <3>2. ~Owned(tab[r].shape)
      BY <2>2, <1>0, <1>6 DEF Owned, Layout, OwnedIsPrivate
    <3>3. Lacks(shapes[tab[r].shape].keys, Name(s))
      BY <2>2, <1>6, FindKey DEF Pos, KeysOf
    <3> HIDE DEF e
    <3> QED BY <3>1, <3>2, <3>3 DEF Absent
  <2> QED BY <2>1, <2>2
<1>8. ASSUME NEW t \in Tables, NEW k, Get(t, k) # Nil
      PROVE  /\ tab[t].shape \in 1..Len(shapes) /\ Pos(t, k) \in Nat
             /\ KeyAt(tab[t].shape, Pos(t, k), k)
  <2>1. Pos(t, k) # 0
    BY <1>8 DEF Get
  <2>2. Pos(t, k) \in 1..Len(KeysOf(t)) /\ Name(KeysOf(t)[Pos(t, k)]) = Name(k)
    BY <2>1, FindKey DEF Pos
  <2>3. tab[t].shape \in 1..Len(shapes) /\ Len(KeysOf(t)) \in Nat
    BY <1>0, TableTypes
  <2> QED BY <2>2, <2>3 DEF KeyAt, KeysOf
<1>9. /\ tab[m].shape \in 1..Len(shapes) /\ Pos(m, IndexKey) \in Nat /\ KeyAt(tab[m].shape, Pos(m, IndexKey), IndexKey)
      /\ tab[c].shape \in 1..Len(shapes) /\ Pos(c, s) \in Nat /\ KeyAt(tab[c].shape, Pos(c, s), s)
  BY <1>5, <1>6, <1>8 DEF c
<1>10. e \in MethodRec(Len(shapes)) /\ CachesMethod(s, e)
  <2>1. e.s1 \in 0..Len(shapes)
    BY <1>0, <1>6, TableTypes DEF None
  <2>2. e \in MethodRec(Len(shapes))
    BY <2>1, <1>0, <1>5, <1>9 DEF MethodRec
  <2>3. e.ms = tab[m].shape /\ e.mp = Pos(m, IndexKey) /\ e.c = c /\ e.cs = tab[c].shape /\ e.cp = Pos(c, s)
    OBVIOUS
  <2> HIDE DEF e
  <2> QED BY <2>2, <2>3, <1>5, <1>7, <1>9 DEF CachesMethod
<1> HIDE DEF e
<1>11. mic' \in [MethodSites -> MethodRec(Len(shapes))] /\ \A z \in MethodSites : CachesMethod(z, mic'[z])
  BY <1>0, <1>1, <1>10 DEF MethodCaches
<1>12. MethodCaches'
  BY <1>0, <1>2, <1>11, MethodCachesKept
<1> QED BY <1>3, <1>4, <1>12 DEF IInv

(* The invariant holds when the program starts. *)
LEMMA InitInv == Init => IInv
<1> SUFFICES ASSUME Init PROVE IInv
  OBVIOUS
<1> DEFINE a == NewShape(<<>>, 0)
           b == NewShape(<<IndexKey>>, 1)
<1>1. IndexKey \in StrKeys /\ IndexKey \in AllKeys
  BY KeysAssumption DEF AllKeys
<1>2. /\ a \in ShapeRec /\ a.keys = <<>> /\ a.kids = NoKids
      /\ b \in ShapeRec /\ b.keys = <<IndexKey>> /\ b.kids = NoKids
  <2>1. <<>> \in Seq(AllKeys \cup {Nil}) /\ <<IndexKey>> \in Seq(AllKeys \cup {Nil}) /\ 0 \in Nat /\ 1 \in Nat
    BY <1>1
  <2> QED BY <2>1, NewShapeType
<1>3. shapes = <<a, b>>
  BY DEF Init
<1> HIDE DEF a, b
<1>4. shapes \in Seq(ShapeRec) /\ Len(shapes) = 2 /\ shapes[1] = a /\ shapes[2] = b
  BY <1>2, <1>3
<1>5. \A p \in 1..Len(shapes), s \in Slots : shapes[p].kids[s] = [key |-> Nil, kid |-> None]
  BY <1>2, <1>4 DEF NoKids
<1>6. Tree(shapes)
  <2>1. shapes[Root].keys = <<>>
    BY <1>2, <1>4 DEF Root
  <2>2. \A p \in 1..Len(shapes), s \in Slots : GoodKid(shapes, p, shapes[p].kids[s])
    BY <1>5 DEF GoodKid
  <2>3. Len(shapes) >= 1
    BY <1>4
  <2> QED BY <1>4, <2>1, <2>2, <2>3 DEF Tree
<1>7. /\ EmptyTable \in TableRec(2) /\ EmptyTable.shape = 1 /\ EmptyTable.vals = <<>> /\ ~EmptyTable.own
  BY DEF EmptyTable, TableRec, Root
<1> DEFINE mt == [shape |-> 2, vals |-> <<StrLib>>, own |-> TRUE, meta |-> Nil]
<1>8. mt \in TableRec(2) /\ mt.shape = 2 /\ mt.vals = <<StrLib>> /\ mt.own
  <2>1. StrLib \in Values
    BY TablesAssumption DEF Values
  <2>2. <<StrLib>> \in Seq(Values)
    BY <2>1
  <2> QED BY <2>2 DEF TableRec
<1> HIDE DEF mt
<1>9. tab = [t \in Tables |-> IF t = StrMt THEN mt ELSE EmptyTable]
  BY DEF Init, mt
<1>10. tab \in [Tables -> TableRec(Len(shapes))]
  BY <1>4, <1>7, <1>8, <1>9
<1>11. /\ \A t \in Tables : t # StrMt => /\ tab[t].shape = 1 /\ tab[t].vals = <<>> /\ ~tab[t].own
                                        /\ KeysOf(t) = <<>>
       /\ tab[StrMt].shape = 2 /\ tab[StrMt].vals = <<StrLib>> /\ tab[StrMt].own
       /\ KeysOf(StrMt) = <<IndexKey>>
  BY <1>2, <1>4, <1>7, <1>8, <1>9, TablesAssumption DEF KeysOf
<1>12. Uniq(<<>>) /\ Uniq(<<IndexKey>>) /\ \A n : Lacks(<<>>, n)
  BY DEF Uniq, Lacks
<1>13. \A t \in Tables : Len(tab[t].vals) = Len(KeysOf(t)) /\ Uniq(KeysOf(t))
  BY <1>11, <1>12
<1>14. cshape = None /\ ~Offered(2)
  BY <1>4, <1>5 DEF Init, Offered, ShapeIds, Root, None
<1>15. OwnedIsPrivate
  BY <1>11, <1>14 DEF OwnedIsPrivate
<1>16. Layout
  BY <1>2, <1>4, <1>6, <1>10, <1>11, <1>13, <1>14, <1>15 DEF Layout, None
<1>17. FieldCaches
  BY <1>4 DEF Init, FieldCaches, FieldRec, KeyAt, None
<1>18. MethodCaches
  BY <1>4 DEF Init, MethodCaches, MethodRec, CachesMethod, KeyAt, Absent, None
<1>19. FieldsAsStored
  <2> DEFINE f(t, n) == IF t = StrMt /\ n = Name(IndexKey) THEN StrLib ELSE Nil
  <2>1. ASSUME NEW t \in Tables, NEW n PROVE At(KeysOf(t), tab[t].vals, n) = f(t, n)
    <3>1. CASE t # StrMt
      BY <3>1, <1>11, <1>12, AtNone
    <3>2. CASE t = StrMt /\ n = Name(IndexKey)
      <4> DEFINE ks == <<IndexKey>>
                 vs == <<StrLib>>
      <4>1. 1 \in 1..Len(ks) /\ Name(ks[1]) = n /\ vs[1] = StrLib /\ Uniq(ks)
        BY <3>2, <1>12
      <4> HIDE DEF ks, vs
      <4>2. At(ks, vs, n) = StrLib
        BY <4>1, AtKey
      <4> QED BY <4>2, <3>2, <1>11 DEF ks, vs
    <3>3. CASE t = StrMt /\ n # Name(IndexKey)
      <4>1. Lacks(<<IndexKey>>, n)
        BY <3>3 DEF Lacks
      <4> QED BY <4>1, <3>3, <1>11, AtNone
    <3> QED BY <3>1, <3>2, <3>3
  <2>2. mem = [t \in Tables |-> [n \in Names |-> f(t, n)]]
    BY DEF Init
  <2> HIDE DEF f
  <2>3. ASSUME NEW t \in Tables
        PROVE  [n \in Names |-> At(KeysOf(t), tab[t].vals, n)] = [n \in Names |-> f(t, n)]
    BY <2>1
  <2>4. Fields = mem
    BY <2>2, <2>3, FieldsNow, Zenon
  <2> QED BY <2>4 DEF FieldsAsStored
<1> QED BY <1>16, <1>17, <1>18, <1>19 DEF IInv

(* Every step keeps the invariant. *)
LEMMA NextInv == IInv /\ [Next]_vars => IInv'
<1> SUFFICES ASSUME IInv, [Next]_vars PROVE IInv'
  OBVIOUS
<1>1. CASE \E s \in FieldSites, t \in Tables : ReadField(s, t)
  BY <1>1, ReadFieldStep
<1>2. CASE \E s \in FieldSites, t \in Tables, v \in Values : WriteField(s, t, v)
  BY <1>2, WriteFieldStep
<1>3. CASE \E t \in Tables, k \in AllKeys, v \in Values : WriteKey(t, k, v)
  BY <1>3, WriteKeyStep
<1>4. CASE \E t \in Tables, v1, v2 \in Values : Construct(t, v1, v2)
  BY <1>4, ConstructStep
<1>5. CASE \E t \in Tables, m \in Metas \cup {Nil} : SetMetatable(t, m)
  BY <1>5, SetMetatableStep
<1>6. CASE \E s \in MethodSites, r \in Receivers : CallMethod(s, r)
  BY <1>6, CallMethodStep
<1>7. CASE UNCHANGED vars
  <2>1. shapes' = shapes /\ tab' = tab /\ ic' = ic /\ mic' = mic /\ cshape' = cshape /\ mem' = mem
    BY <1>7 DEF vars
  <2>2. Evolves /\ Layout /\ FieldCaches /\ MethodCaches /\ FieldsAsStored
    BY <2>1, StutterEvolves DEF IInv
  <2>3. FieldCaches' /\ MethodCaches'
    BY <2>1, <2>2, CachesSame, FieldCachesKept, MethodCachesKept
  <2>4. Layout'
    BY <2>1, <2>2 DEF Layout, KeysOf, OwnedIsPrivate, Offered, ShapeIds
  <2>5. Fields' = Fields
    BY <2>1 DEF Fields, KeysOf
  <2> QED BY <2>1, <2>2, <2>3, <2>4, <2>5 DEF IInv, FieldsAsStored
<1> QED BY <1>1, <1>2, <1>3, <1>4, <1>5, <1>6, <1>7 DEF Next

(* The invariant implies that the layouts and the field caches are sound. *)
LEMMA InvLayouts == IInv => LayoutsSound
<1> SUFFICES ASSUME IInv PROVE LayoutsSound
  OBVIOUS
<1>0. Layout /\ FieldCaches
  BY DEF IInv
<1>1. TypeOK
  <2>1. shapes \in Seq([keys : Seq(AllKeys \cup {Nil}), sized : Nat,
                        kids : [Slots -> [key : StrKeys \cup {Nil}, kid : Nat]]])
    BY <1>0, Zenon DEF Layout, Tree, ShapeRec, KidRec
  <2>2. tab \in [Tables -> [shape : ShapeIds, vals : Seq(Values), own : BOOLEAN, meta : Tables \cup {Nil}]]
    BY <1>0 DEF Layout, TableRec, ShapeIds
  <2>3. ic \in [FieldSites -> [shape : 0..Len(shapes), pos : Nat]]
    BY <1>0 DEF FieldCaches, FieldRec
  <2> QED BY <1>0, <2>1, <2>2, <2>3 DEF TypeOK, Layout
<1>2. TransitionsExact
  BY <1>0 DEF Layout, Tree, GoodKid, TransitionsExact, ShapeIds
<1>3. CachedPositionHolds
  <2> SUFFICES ASSUME NEW s \in FieldSites, NEW t \in Tables, Hit(s, t)
               PROVE  ic[s].pos = Pos(t, s) /\ ic[s].pos # 0
    BY DEF CachedPositionHolds
  <2>1. tab[t].shape \in 1..Len(shapes) /\ Uniq(KeysOf(t)) /\ Alive(tab[t].shape)
    BY <1>0, TableTypes DEF Alive
  <2>2. ic[s].pos \in 1..Len(KeysOf(t)) /\ Name(KeysOf(t)[ic[s].pos]) = Name(s)
    BY <1>0, <2>1 DEF Hit, FieldCaches, KeyAt, None, KeysOf
  <2> QED BY <2>1, <2>2, FindKey DEF Pos
<1>4. OwnedIsPrivate
  BY <1>0 DEF Layout
<1> QED BY <1>1, <1>2, <1>3, <1>4 DEF LayoutsSound

(* The invariant implies that a hit of a method cache is right. *)
LEMMA InvMethods == IInv => MethodCacheSound
<1> SUFFICES ASSUME IInv, NEW s \in MethodSites, NEW r \in Receivers, MethodHit(s, r)
             PROVE  /\ r # Nil => Get(r, s) = Nil
                    /\ Get(MetaOf(r), IndexKey) = mic[s].c
                    /\ Get(mic[s].c, s) = MethodValue(s)
  BY DEF MethodCacheSound
<1> DEFINE m == MetaOf(r)
           e == mic[s]
<1>0. Layout /\ CachesMethod(s, e)
  BY DEF IInv, MethodCaches
<1>1. /\ r # Nil => tab[r].shape = e.s1
      /\ m # Nil /\ tab[m].shape = e.ms /\ tab[m].vals[e.mp] = e.c /\ tab[e.c].shape = e.cs
  BY DEF MethodHit
<1> HIDE DEF m, e
<1>2. m \in Tables
  <2>1. r = Nil => m \in Tables
    BY TablesAssumption DEF MetaOf, m
  <2>2. r # Nil => m \in Tables \cup {Nil}
    BY <1>0, TableTypes DEF MetaOf, m, Receivers
  <2> QED BY <1>1, <2>1, <2>2
<1>3. ASSUME NEW t \in Tables, NEW p, NEW k, KeyAt(tab[t].shape, p, k)
      PROVE  Get(t, k) = tab[t].vals[p]
  <2>1. tab[t].shape \in 1..Len(shapes) /\ Uniq(KeysOf(t)) /\ Alive(tab[t].shape)
    BY <1>0, TableTypes DEF Alive
  <2>2. p \in 1..Len(KeysOf(t)) /\ Name(KeysOf(t)[p]) = Name(k)
    BY <1>3, <2>1 DEF KeyAt, None, KeysOf
  <2>3. Pos(t, k) = p /\ p # 0
    BY <2>1, <2>2, FindKey DEF Pos
  <2> QED BY <2>3 DEF Get
<1>4. ASSUME r # Nil PROVE Get(r, s) = Nil
  <2>1. r \in Tables
    BY <1>4 DEF Receivers
  <2>2. tab[r].shape \in 1..Len(shapes) /\ Alive(tab[r].shape) /\ tab[r].shape = e.s1
    BY <2>1, <1>0, <1>1, <1>4, TableTypes DEF Alive
  <2>3. Lacks(KeysOf(r), Name(s))
    BY <2>2, <1>0 DEF CachesMethod, Absent, None, KeysOf
  <2>4. Pos(r, s) = 0
    BY <2>3, FindKey DEF Pos
  <2> QED BY <2>4 DEF Get
<1>5. Get(m, IndexKey) = e.c
  BY <1>0, <1>1, <1>2, <1>3 DEF CachesMethod
<1>6. Get(e.c, s) = tab[e.c].vals[e.cp]
  <2>1. e.ms # None
    BY <1>0, <1>1, <1>2, TableTypes DEF None
  <2>2. e.c \in Tables
    BY <2>1, <1>0 DEF CachesMethod
  <2> QED BY <2>2, <1>0, <1>1, <1>3 DEF CachesMethod
<1> QED BY <1>4, <1>5, <1>6 DEF m, e, MethodValue

(* The invariant always holds. *)
LEMMA Invariant == Spec => []IInv
<1> QED BY InitInv, NextInv, PTL DEF Spec
-----------------------------------------------------------------------------
(* For every set of tables, keys, access sites and cache slots: cached      *)
(* transitions of $shape_child lead where they say, a shape that a table    *)
(* extends in place is its alone, and when a table has the shape a `t.k`    *)
(* site cached, the key is at the cached position.                          *)
THEOREM LayoutsAlwaysSound == Spec => []LayoutsSound
<1> QED BY Invariant, InvLayouts, PTL

(* A hit of the three shape checks of $lua_method_ic returns what the       *)
(* lookup through the receiver, its metatable and the class would.          *)
THEOREM MethodCachesAlwaysSound == Spec => []MethodCacheSound
<1> QED BY Invariant, InvMethods, PTL

(* Every table holds what the program stored in it, whichever layout each   *)
(* store, constructor or compaction gives it and whoever shares that layout.*)
THEOREM FieldsAlwaysAsStored == Spec => []FieldsAsStored
<1>1. IInv => FieldsAsStored
  BY DEF IInv
<1> QED BY Invariant, <1>1, PTL
=============================================================================
