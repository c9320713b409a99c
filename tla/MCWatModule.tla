---------------------------- MODULE MCWatModule ----------------------------
(***************************************************************************)
(* WatModule for TLC: the forms that the compiler writes.  Functions that   *)
(* name their type repeat its parameters, and ref.func is always folded.    *)
(***************************************************************************)
EXTENDS WatModule

CONSTANTS i, f, g, h, v, w, t, p, x, y, z, none

S0 == [params |-> 0, results |-> 0]
S1 == [params |-> 1, results |-> 0]
S2 == [params |-> 0, results |-> 2]
Ref(op, n) == [op |-> op, name |-> n, folded |-> TRUE, sig |-> S0]
Blk(s) == [Ref("block", none) EXCEPT !.sig = s]
Var(n, ty) == [name |-> n, type |-> ty]

MCTypes == {[params |-> 1, name |-> t]}

Import(ty) == [kind |-> "import", id |-> i, type |-> ty, sig |-> S0]
Func(n, e, ty, s, ps, ls, b) ==
    [kind |-> "func", id |-> n, export |-> e, type |-> ty, sig |-> s, params |-> ps, locals |-> ls, body |-> b]
Global(n, r) == [kind |-> "global", id |-> n, init |-> r]

Entry(b) == Func(f, TRUE, none, S0, <<>>, <<>>, b)
Vars == <<Var(x, "i64"), Var(y, "i64"), Var(z, "f64")>>

MCFields ==
    {Import(none), Import(t)}
    \cup {Entry(b) : b \in {<<Ref("call", g), Blk(S0)>>, <<Ref("ref.func", g)>>, <<Ref("global", v)>>,
                            <<Blk(S2), Ref("call", i)>>, <<Ref("global", w), Blk(S2)>>}}
    \cup {Func(g, FALSE, none, S1, <<Var(p, "i32")>>, Vars, <<Ref("local", y), Ref("local", p), Ref("global", v)>>),
          Func(g, TRUE, t, S1, <<Var(p, "i32")>>, Vars, <<Ref("local", z), Ref("call", f)>>)}
    \cup {Func(h, e, none, S0, <<>>, <<>>, <<Ref(o, g), Blk(S2)>>) : e \in BOOLEAN, o \in {"call", "ref.func"}}
    \cup {Global(v, Ref("ref.func", g)), Global(w, Ref("const", none)), Global(v, Ref("ref.func", f))}
    \cup {[kind |-> "tag", export |-> TRUE, type |-> none, sig |-> S1],
          [kind |-> "elem", func |-> f]}
=============================================================================
