------------------------------ MODULE MCScopes ------------------------------
EXTENDS Scopes

CONSTANTS x, y, l, none

MCLists == {<<<<n>>, <<a>>>> : n \in {x}, a \in {"none", "const"}}
           \cup {<<<<x, y>>, <<"close", a>>>> : a \in {"none", "close"}}

(* The search covers programs about names and programs about jumps: in a     *)
(* program with gotos or labels the declarations are plain locals and uses  *)
(* of names resolve to nothing but them.                                    *)
Plain(f) == \A i \in DOMAIN Decls(f) : Decls(f)[i].name = y \/ Decls(f)[i].attrib = "none"
Focus == IF gotos = <<>> /\ seen = {} THEN Cardinality(assigned) <= 1
         ELSE /\ Len(funcs) + Depth <= 2 /\ reached = {} /\ assigned = {} /\ globals = {}
              /\ \A f \in DOMAIN frames : Plain(f)
=============================================================================
