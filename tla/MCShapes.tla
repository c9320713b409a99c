------------------------------ MODULE MCShapes ------------------------------
(***************************************************************************)
(* Shapes for TLC: the string keys "__index" and a name, used as a method   *)
(* and as a field, and a second object with the name's bytes, all in one    *)
(* cache slot.                                                             *)
(***************************************************************************)
EXTENDS Shapes, TLC

CONSTANTS ix, nm, nm2

MCStrKeys == {ix, nm, nm2}
MCNameOf == (ix :> "__index") @@ (nm :> "m") @@ (nm2 :> "m")
MCSlotOf == (ix :> 1) @@ (nm :> 1) @@ (nm2 :> 1)
MCCtorKeys == <<nm, ix>>

(* The search covers programs about methods and programs about fields: with *)
(* metatables or a filled method cache there is no field access through a    *)
(* cache and no second object; without them the string metatable is left as  *)
(* it was built.                                                            *)
NoMethods == /\ \A s \in MethodSites : mic[s].s1 = None /\ mic[s].ms = None
             /\ \A t \in Tables : tab[t].meta = Nil
             /\ Len(tab[StrMt].vals) = 1
NoFields == /\ \A s \in FieldSites : ic[s].shape = None
            /\ \A n \in ShapeIds : \A i \in DOMAIN shapes[n].keys : shapes[n].keys[i] # nm2
Focus == NoMethods \/ NoFields
=============================================================================
