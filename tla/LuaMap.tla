------------------------------- MODULE LuaMap -------------------------------
(***************************************************************************)
(* What a Lua table promises to raw access (no metamethods): a partial     *)
(* function from keys to values, where storing Nil deletes.  This is the   *)
(* abstract specification that the two-part table of the runtime           *)
(* (TableParts) is shown to implement.                                     *)
(***************************************************************************)
EXTENDS LuaMapOps

VARIABLE map

Init == \E vs \in Lists : map = MapOfList(vs)

Set(k, v) == map' = [map EXCEPT ![k] = v]

Insert(n, pos, v) == /\ IsBorderOf(map, n)
                     /\ map' = Inserted(map, n, pos, v)

Remove(n, pos) == /\ IsBorderOf(map, n)
                  /\ map' = Removed(map, n, pos)

Move(f, cnt, t) == map' = Moved(map, f, cnt, t)

Next ==
  \/ \E k \in Keys, v \in ValOrNil : Set(k, v)
  \/ \E n \in 0..(MaxInt - 1), v \in ValOrNil :
       \E pos \in 1..(n + 1) : Insert(n, pos, v)
  \/ \E n \in 1..MaxInt : \E pos \in 1..n : Remove(n, pos)
  \/ \E f, t \in 1..MaxInt, cnt \in 1..MaxInt :
       /\ f + cnt - 1 <= MaxInt
       /\ t + cnt - 1 <= MaxInt
       /\ Move(f, cnt, t)

Spec == Init /\ [][Next]_map
=============================================================================
