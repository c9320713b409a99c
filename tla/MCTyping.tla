------------------------------ MODULE MCTyping ------------------------------
(***************************************************************************)
(* Typing for TLC.  The main chunk declares f, x and y; f(n) has z, a      *)
(* nested function g and a variable w; x and f are upvalues of f and g, w  *)
(* and g itself of g.  The bodies are drawn from menus.                    *)
(***************************************************************************)
EXTENDS Typing, TLC

MCParent == <<0, 1>>
MCNParams == (0 :> 0) @@ (1 :> 1) @@ (2 :> 1)
MCNLocals == (0 :> 3) @@ (1 :> 4) @@ (2 :> 1)
Ref(src, idx) == [src |-> src, idx |-> idx]
MCUpvals == <<<<Ref("local", 1), Ref("local", 2)>>,
              <<Ref("upval", 2), Ref("local", 3), Ref("local", 4), Ref("upval", 1)>>>>

IntLit == <<[t |-> "int"]>>
FloatLit == <<[t |-> "float"]>>
Other == <<[t |-> "any"]>>
Fn(g) == <<[t |-> "fn", f |-> g]>>
Var(v) == <<[t |-> "var", v |-> v]>>
(* b's nodes come after a's: their operands move up by Len(a). *)
Up1(nd, k) == CASE nd.t = "bin" -> [nd EXCEPT !.l = @ + k, !.r = @ + k]
                [] nd.t = "call" -> [nd EXCEPT !.args = [j \in 1..Len(@) |-> @[j] + k]]
                [] OTHER -> nd
Bin(o, a, b) == a \o [j \in 1..Len(b) |-> Up1(b[j], Len(a))]
                  \o <<[t |-> "bin", op |-> o, l |-> Len(a), r |-> Len(a) + Len(b)]>>
Call(v, a) == a \o <<[t |-> "call", fn |-> v, args |-> <<Len(a)>>, paren |-> FALSE]>>

Stmt(o, ts, es) == [op |-> o, targets |-> ts, vals |-> es, close |-> {}]
Let(v, e) == Stmt("local", <<v>>, <<e>>)
Assign(v, e) == Stmt("assign", <<v>>, <<e>>)
Return(e) == Stmt("return", <<>>, <<e>>)
Eval(e) == Stmt("expr", <<>>, <<e>>)

\* The main chunk's variables.
f == Local(1)
x == Local(2)
y == Local(3)
MainBodies ==
  LET i == <<IntLit, FloatLit>>
      a == <<Let(y, Call(f, IntLit)), Let(y, Call(f, FloatLit)), Stmt("local", <<y>>, <<>>)>>
      b == <<Assign(x, Call(f, Var(y))), Assign(y, Var(x)), Assign(x, Var(y)),
             Stmt("assign", <<f, y>>, <<Other, IntLit>>), Stmt("fornum", <<y>>, <<Var(x)>>)>>
  IN  [k \in 1..10 |-> <<Stmt("func", <<f>>, <<Fn(1)>>), Let(x, i[(k % 2) + 1]),
                         a[(k % 3) + 1], b[(k % 5) + 1]>>]

\* The parameter of f, and of g.
n == Var(Local(1))
FBodies ==
  LET a == <<<<>>, <<Let(Local(4), IntLit)>>, <<Let(Local(4), n)>>,
             <<Stmt("forgen", <<Local(2)>>, <<>>), Assign(Up(2), Var(Local(2)))>>,
             <<[Let(Local(2), n) EXCEPT !.close = {1}], Assign(Up(2), n)>>>>
      b == <<<<>>, <<Let(Local(3), Fn(2)), Eval(Call(Local(3), n))>>>>
      r == <<Bin("arith", n, IntLit), Var(Up(2)), Bin("bit", Call(Up(1), n), IntLit),
             Bin("arith", Call(Up(1), Bin("div", n, IntLit)), FloatLit)>>
  IN  [k \in 1..40 |-> a[(k % 5) + 1] \o b[((k \div 5) % 2) + 1] \o <<Return(r[((k \div 10) % 4) + 1])>>]

GBodies ==
  <<<<>>, <<Return(Bin("bit", n, Call(Up(2), n)))>>,
    <<Assign(Up(1), FloatLit)>>, <<Assign(Up(4), Other), Return(n)>>,
    <<Assign(Up(3), n), Return(Var(Up(1)))>>>>

MCBodies == (0 :> MainBodies) @@ (1 :> FBodies) @@ (2 :> GBodies)
=============================================================================
