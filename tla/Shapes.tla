------------------------------- MODULE Shapes -------------------------------
(***************************************************************************)
(* The key layouts of tables (runtime/prelude/tables.wat) and the inline   *)
(* caches over them (runtime/prelude/index.wat).  A table's hash part      *)
(* keeps its keys in a $Shape.  Shared shapes form a tree: adding a string *)
(* key moves a table to the child shape found through the parent's         *)
(* transition cache.  A table with other keys, or too many, owns a private *)
(* shape that it extends in place and replaces when it compacts.  Access   *)
(* sites cache (shape, position) pairs and skip the lookup when a table's  *)
(* shape is the cached one.                                                *)
(*                                                                         *)
(* Abstractions.  Shapes are numbered in allocation order and never reused *)
(* (the engine's collector cannot free one that is referenced); a key is   *)
(* found where it stands in the key sequence (the index is the subject of  *)
(* HashIndex).  Integer keys that live in the hash part, and keys of other *)
(* types, are PlainKeys.  No __newindex; __index is a table or no table.   *)
(*                                                                         *)
(* A definition named X_y is a faulty variant of X, as in TableParts.      *)
(***************************************************************************)
EXTENDS HashOps, FiniteSets

CONSTANTS Tables,      \* the program's tables
          StrMt,       \* the string metatable, one of them
          StrLib,      \* the string library, another
          StrKeys,     \* string objects used as keys
          NameOf,      \* the bytes of a string object
          SlotOf,      \* the transition-cache slot its hash selects
          IndexKey,    \* the object "__index"
          FieldSites,  \* the keys k of `t.k` sites
          MethodSites, \* the keys k of `r:k()` sites
          CtorKeys,    \* the two keys of a constructor site {k1 = v1, k2 = v2}
          PlainKeys,   \* keys that are not strings
          Plain,       \* values that are not tables
          Linked,      \* tables stored as values
          Metas,       \* tables used as metatables
          Nil,
          MaxShapes    \* bound: shapes ever allocated

ASSUME TablesAssumption == StrMt \in Tables /\ StrLib \in Tables /\ StrMt # StrLib
                            /\ StrLib \in Linked /\ Linked \subseteq Tables
                            /\ Metas \subseteq Tables
ASSUME KeysAssumption ==
  /\ IndexKey \in StrKeys /\ FieldSites \subseteq StrKeys /\ MethodSites \subseteq StrKeys
  /\ StrKeys \cap PlainKeys = {}
  /\ \A k \in StrKeys : NameOf[k] \notin PlainKeys
  /\ CtorKeys \in StrKeys \X StrKeys /\ NameOf[CtorKeys[1]] # NameOf[CtorKeys[2]]
ASSUME ValuesAssumption == Nil \notin Plain \cup Tables \cup StrKeys
ASSUME MaxShapesAssumption == MaxShapes \in Nat \ {0, 1}

VARIABLES shapes,  \* the shapes allocated so far, by number
          tab,     \* [shape, vals, own, meta] of each table
          ic,      \* the $IC of each field-access site
          mic,     \* the $MIC of each method-call site
          cshape,  \* the constructor site's cached shape
          mem      \* history: the fields as the program stored them

vars == <<shapes, tab, ic, mic, cshape, mem>>

AllKeys == StrKeys \cup PlainKeys
Values == Plain \cup Linked \cup {Nil}
Root == 1        \* $g_root_shape
None == 0        \* no shape
Slots == {SlotOf[k] : k \in StrKeys}

(* Keys are equal by bytes, or by identity when they are not strings. *)
Name(k) == IF k \in StrKeys THEN NameOf[k] ELSE k
Names == {Name(k) : k \in AllKeys}

(* $tab_find, $tab_find_str: a key's position, 0 when the shape lacks it. *)
Find(ks, k) == IF \E i \in 1..Len(ks) : Name(ks[i]) = Name(k)
               THEN CHOOSE i \in 1..Len(ks) : Name(ks[i]) = Name(k) ELSE 0

KeysOf(t) == shapes[tab[t].shape].keys
Pos(t, k) == Find(KeysOf(t), k)
Get(t, k) == IF Pos(t, k) = 0 THEN Nil ELSE tab[t].vals[Pos(t, k)]
-----------------------------------------------------------------------------
NoKids == [s \in Slots |-> [key |-> Nil, kid |-> None]]
NewShape(ks, n) == [keys |-> ks, sized |-> n, kids |-> NoKids]

(* An index has the size that n keys call for; it is the same for as long    *)
(* as it is extended in place or copied.                                    *)
Full(t) == HalfFull(Len(KeysOf(t)), IndexSize(shapes[tab[t].shape].sized))

Child_bySlot(shs, sh, k) ==
  LET e == shs[sh].kids[SlotOf[k]]
      ks == Append(shs[sh].keys, k)
      new == Len(shs) + 1
  IN  IF e.kid # None
      THEN [shapes |-> shs, at |-> e.kid]
      ELSE [shapes |-> Append([shs EXCEPT ![sh].kids[SlotOf[k]] = [key |-> k, kid |-> new]],
                              NewShape(ks, Len(ks))),
            at |-> new]

(* $shape_child: the cached child of shape sh for this key object, else a   *)
(* new one, cached in place of whatever had the slot.                       *)
Child(shs, sh, k) ==
  LET e == shs[sh].kids[SlotOf[k]]
      ks == Append(shs[sh].keys, k)
      new == Len(shs) + 1
  IN  IF e.key = k
      THEN [shapes |-> shs, at |-> e.kid]
      ELSE [shapes |-> Append([shs EXCEPT ![sh].kids[SlotOf[k]] = [key |-> k, kid |-> new]],
                              NewShape(ks, Len(ks))),
            at |-> new]

(* $tab_insert_new on a shared shape that can stay shared. *)
Shareable(t, k) == ~tab[t].own /\ k \in StrKeys /\ Len(KeysOf(t)) < ShareMax
InsertShared(t, k, v) ==
  LET c == Child(shapes, tab[t].shape, k)
  IN  /\ Len(c.shapes) <= MaxShapes
      /\ shapes' = c.shapes
      /\ tab' = [tab EXCEPT ![t].shape = c.at, ![t].vals = Append(@, v)]

(* The positions of a table's live entries, in order (one such function):   *)
(* what compaction keeps.                                                   *)
Live(t) == {i \in 1..Len(tab[t].vals) : tab[t].vals[i] # Nil}
LiveOrders(t, n) == {at \in [1..n -> Live(t)] :
                       /\ \A i, j \in 1..n : i < j => at[i] < at[j]
                       /\ \A p \in Live(t) : \E j \in 1..n : at[j] = p}

(* $tab_own, then $tab_insert_owned.  A private shape with room is extended *)
(* in place.                                                                *)
ExtendInPlace(t, k, v) ==
  /\ tab[t].own /\ ~Full(t)
  /\ shapes' = [shapes EXCEPT ![tab[t].shape].keys = Append(@, k)]
  /\ tab' = [tab EXCEPT ![t].vals = Append(@, v)]

(* A shared one with room is copied first. *)
CopyAndExtend(t, k, v) ==
  /\ ~tab[t].own /\ ~Full(t)
  /\ Len(shapes) < MaxShapes
  /\ shapes' = Append(shapes, NewShape(Append(KeysOf(t), k), shapes[tab[t].shape].sized))
  /\ tab' = [tab EXCEPT ![t].shape = Len(shapes) + 1, ![t].own = TRUE,
                        ![t].vals = Append(@, v)]

Compact_sameShape(t, k, v) ==
  /\ Full(t) /\ Len(shapes) < MaxShapes
  /\ \E n \in 0..Len(tab[t].vals) : \E at \in LiveOrders(t, n) :
       LET new == NewShape(Append([j \in 1..n |-> KeysOf(t)[at[j]]], k), n)
       IN  /\ shapes' = IF tab[t].own THEN [shapes EXCEPT ![tab[t].shape] = new] ELSE Append(shapes, new)
           /\ tab' = [tab EXCEPT ![t].shape = IF tab[t].own THEN @ ELSE Len(shapes) + 1,
                                 ![t].own = TRUE,
                                 ![t].vals = Append([j \in 1..n |-> @[at[j]]], v)]

(* A half-full one is compacted into a new shape ($tab_index_rebuild).  The *)
(* old private shape's key array is overwritten in doing so.                *)
Overwritten(t) == IF tab[t].own THEN [shapes EXCEPT ![tab[t].shape].keys = [i \in DOMAIN @ |-> Nil]]
                  ELSE shapes
Compact(t, k, v) ==
  /\ Full(t) /\ Len(shapes) < MaxShapes
  /\ \E n \in 0..Len(tab[t].vals) : \E at \in LiveOrders(t, n) :
       /\ shapes' = Append(Overwritten(t), NewShape(Append([j \in 1..n |-> KeysOf(t)[at[j]]], k), n))
       /\ tab' = [tab EXCEPT ![t].shape = Len(shapes) + 1, ![t].own = TRUE,
                             ![t].vals = Append([j \in 1..n |-> @[at[j]]], v)]

(* $tab_insert_new *)
InsertNew(t, k, v) ==
  \/ Shareable(t, k) /\ InsertShared(t, k, v)
  \/ /\ ~Shareable(t, k)
     /\ ExtendInPlace(t, k, v) \/ CopyAndExtend(t, k, v) \/ Compact(t, k, v)

(* $tab_set_hash, $tab_set_hash_str: update or delete at the key's position, *)
(* or insert.                                                               *)
SetAt(t, i, v) == /\ tab' = [tab EXCEPT ![t].vals[i] = v]
                  /\ UNCHANGED shapes
RawSet(t, k, v) ==
  \/ Pos(t, k) # 0 /\ SetAt(t, Pos(t, k), v)
  \/ Pos(t, k) = 0 /\ v # Nil /\ InsertNew(t, k, v)
  \/ Pos(t, k) = 0 /\ v = Nil /\ UNCHANGED <<tab, shapes>>
-----------------------------------------------------------------------------
(* $ic_fill *)
Filled(s, t) == IF Pos(t, s) = 0 THEN ic[s]
                ELSE [shape |-> tab[t].shape, pos |-> Pos(t, s)]

Hit(s, t) == ic[s].shape = tab[t].shape

(* $lua_index_ic: `t.s`.  A hit on a present value changes nothing. *)
ReadField(s, t) ==
  /\ Hit(s, t) => tab[t].vals[ic[s].pos] = Nil
  /\ ic' = [ic EXCEPT ![s] = Filled(s, t)]
  /\ UNCHANGED <<shapes, tab, mic, cshape, mem>>

(* $lua_tabset_ic: `t.s = v`.  A hit overwrites at the cached position when *)
(* the key is present or there is no metatable; else the cache is refilled  *)
(* (from the shape before the store) and $lua_tabset_sk stores.             *)
HitStores(s, t) == Hit(s, t) /\ (tab[t].meta = Nil \/ tab[t].vals[ic[s].pos] # Nil)
WriteField(s, t, v) ==
  /\ \/ HitStores(s, t) /\ SetAt(t, ic[s].pos, v) /\ UNCHANGED ic
     \/ /\ ~HitStores(s, t)
        /\ ic' = [ic EXCEPT ![s] = Filled(s, t)]
        /\ RawSet(t, s, v)
  /\ mem' = [mem EXCEPT ![t][Name(s)] = v]
  /\ UNCHANGED <<mic, cshape>>

(* $tab_set_hash: `t[k] = v` with a key that is not a constant string. *)
WriteKey(t, k, v) == /\ RawSet(t, k, v)
                     /\ mem' = [mem EXCEPT ![t][Name(k)] = v]
                     /\ UNCHANGED <<ic, mic, cshape>>

(* A constructor {k1 = v1, k2 = v2} evaluated into t, a table nothing       *)
(* refers to yet: the layout is found once ($shape_for_keys) and cached at  *)
(* the site ($tab_new_shaped, $tab_put_pos).                                *)
EmptyTable == [shape |-> Root, vals |-> <<>>, own |-> FALSE, meta |-> Nil]
Unused(t) == /\ tab[t] = EmptyTable
             /\ \A u \in Tables : /\ tab[u].meta # t
                                  /\ \A i \in 1..Len(tab[u].vals) : tab[u].vals[i] # t
             /\ \A s \in MethodSites : mic[s].c # t
Construct(t, v1, v2) ==
  LET one == Child(shapes, Root, CtorKeys[1])
      two == Child(one.shapes, one.at, CtorKeys[2])
      built == IF cshape # None THEN [shapes |-> shapes, at |-> cshape] ELSE two
  IN  /\ Unused(t)
      /\ Len(built.shapes) <= MaxShapes
      /\ shapes' = built.shapes
      /\ cshape' = built.at
      /\ tab' = [tab EXCEPT ![t].shape = built.at, ![t].vals = <<v1, v2>>]
      /\ mem' = [mem EXCEPT ![t][Name(CtorKeys[1])] = v1, ![t][Name(CtorKeys[2])] = v2]
      /\ UNCHANGED <<ic, mic>>

(* $set_metatable *)
SetMetatable(t, m) == /\ tab' = [tab EXCEPT ![t].meta = m]
                      /\ UNCHANGED <<shapes, ic, mic, cshape, mem>>
-----------------------------------------------------------------------------
(* Method calls `r:s(...)`.  A receiver is a table or a string (Nil), whose *)
(* metatable is StrMt.                                                      *)
Receivers == Tables \cup {Nil}
MetaOf(r) == IF r = Nil THEN StrMt ELSE tab[r].meta

(* The shape checks of $lua_method_ic, and the value it then returns. *)
MethodHit(s, r) ==
  LET m == MetaOf(r)
      e == mic[s]
  IN  /\ r # Nil => tab[r].shape = e.s1
      /\ m # Nil
      /\ tab[m].shape = e.ms
      /\ tab[m].vals[e.mp] = e.c
      /\ tab[e.c].shape = e.cs
MethodValue(s) == tab[mic[s].c].vals[mic[s].cp]

MethodCacheable_owned(s, r) ==
  LET m == MetaOf(r)
      c == Get(m, IndexKey)
  IN  /\ r # Nil => Pos(r, s) = 0
      /\ m # Nil
      /\ c \in Tables
      /\ Get(c, s) # Nil

(* $lua_method_ic_miss: what has to hold to cache a lookup.  Absence is a   *)
(* property of a shared shape only.                                         *)
MethodCacheable(s, r) ==
  LET m == MetaOf(r)
      c == Get(m, IndexKey)
  IN  /\ r # Nil => ~tab[r].own /\ Pos(r, s) = 0
      /\ m # Nil
      /\ c \in Tables
      /\ Get(c, s) # Nil

CallMethod(s, r) ==
  LET m == MetaOf(r)
      c == Get(m, IndexKey)
  IN  /\ ~(MethodHit(s, r) /\ MethodValue(s) # Nil)
      /\ MethodCacheable(s, r)
      /\ mic' = [mic EXCEPT ![s] =
                   [s1 |-> IF r = Nil THEN None ELSE tab[r].shape,
                    ms |-> tab[m].shape, mp |-> Pos(m, IndexKey),
                    c |-> c, cs |-> tab[c].shape, cp |-> Pos(c, s)]]
      /\ UNCHANGED <<shapes, tab, ic, cshape, mem>>
-----------------------------------------------------------------------------
(* Every table starts empty on the root shape; the string metatable was     *)
(* built by $get_string_mt, with a private shape.                           *)
Init ==
  /\ shapes = <<NewShape(<<>>, 0), NewShape(<<IndexKey>>, 1)>>
  /\ tab = [t \in Tables |->
              IF t = StrMt THEN [shape |-> 2, vals |-> <<StrLib>>, own |-> TRUE, meta |-> Nil]
              ELSE EmptyTable]
  /\ ic = [s \in FieldSites |-> [shape |-> None, pos |-> 0]]
  /\ mic = [s \in MethodSites |-> [s1 |-> None, ms |-> None, mp |-> 0,
                               c |-> Nil, cs |-> None, cp |-> 0]]
  /\ cshape = None
  /\ mem = [t \in Tables |-> [n \in Names |->
              IF t = StrMt /\ n = Name(IndexKey) THEN StrLib ELSE Nil]]

Next ==
  \/ \E s \in FieldSites, t \in Tables : ReadField(s, t)
  \/ \E s \in FieldSites, t \in Tables, v \in Values : WriteField(s, t, v)
  \/ \E t \in Tables, k \in AllKeys, v \in Values : WriteKey(t, k, v)
  \/ \E t \in Tables, v1, v2 \in Values : Construct(t, v1, v2)
  \/ \E t \in Tables, m \in Metas \cup {Nil} : SetMetatable(t, m)
  \/ \E s \in MethodSites, r \in Receivers : CallMethod(s, r)

Spec == Init /\ [][Next]_vars
-----------------------------------------------------------------------------
ShapeIds == 1..Len(shapes)

(* Types; a table has one value per key of its shape. *)
TypeOK ==
  /\ shapes \in Seq([keys : Seq(AllKeys \cup {Nil}), sized : Nat,
                     kids : [Slots -> [key : StrKeys \cup {Nil}, kid : Nat]]])
  /\ tab \in [Tables -> [shape : ShapeIds, vals : Seq(Values), own : BOOLEAN,
                         meta : Tables \cup {Nil}]]
  /\ \A t \in Tables : Len(tab[t].vals) = Len(KeysOf(t))
  /\ ic \in [FieldSites -> [shape : 0..Len(shapes), pos : Nat]]
  /\ cshape \in 0..Len(shapes)

(* Shapes the transition tree or a constructor site can hand out. *)
Offered(sh) == \/ sh = Root \/ sh = cshape
               \/ \E p \in ShapeIds, s \in Slots : shapes[p].kids[s].kid = sh

(* A private shape is one table's alone: no other table has it and none can *)
(* be given it, so extending it in place disturbs nobody.                   *)
OwnedIsPrivate ==
  \A t \in Tables : tab[t].own =>
     /\ ~Offered(tab[t].shape)
     /\ \A u \in Tables \ {t} : tab[u].shape # tab[t].shape

(* "Tables built by adding the same string keys in the same order": a       *)
(* cached transition leads to the parent's keys and the cached key.         *)
TransitionsExact ==
  \A p \in ShapeIds, s \in Slots :
     LET e == shapes[p].kids[s]
     IN  e.kid # None => /\ e.kid \in ShapeIds
                         /\ shapes[e.kid].keys = Append(shapes[p].keys, e.key)

(* "table.shape == cached shape proves the key sits at $pos" ($IC). *)
CachedPositionHolds ==
  \A s \in FieldSites, t \in Tables : Hit(s, t) => ic[s].pos = Pos(t, s) /\ ic[s].pos # 0

(* A method-cache hit returns what the lookup would: the receiver lacks the *)
(* method, its metatable's __index is the cached class, and the class has   *)
(* the method at the cached position.                                       *)
MethodCacheSound ==
  \A s \in MethodSites, r \in Receivers : MethodHit(s, r) =>
     /\ r # Nil => Get(r, s) = Nil
     /\ Get(MetaOf(r), IndexKey) = mic[s].c
     /\ Get(mic[s].c, s) = MethodValue(s)

(* What the program reads: the fields of every table. *)
Fields == [t \in Tables |-> [n \in Names |->
             LET at == {i \in 1..Len(KeysOf(t)) : Name(KeysOf(t)[i]) = n}
             IN  IF at = {} THEN Nil ELSE tab[t].vals[CHOOSE i \in at : TRUE]]]

(* Every table holds what the program stored in it: a store, cached or not,  *)
(* changes that field of that table and no other field of any table,        *)
(* whoever shares the shape, owns a copy of it or is compacted.             *)
FieldsAsStored == Fields = mem

(* What the caches are valid under: transitions lead where they say, shapes  *)
(* a table owns are its alone, and a field-cache hit is at the key.         *)
LayoutsSound == TypeOK /\ TransitionsExact /\ OwnedIsPrivate /\ CachedPositionHolds
=============================================================================
