------------------------------- MODULE Exprs -------------------------------
(***************************************************************************)
(* The expression parser (src/parser.c, parse_prec and what it calls) on    *)
(* the tokens the lexer has made.  Parsing an expression changes nothing but *)
(* the position in the tokens, so its functions are operators from a         *)
(* position to a result, and the tree is a function of the lexer's state.   *)
(* Function bodies and the meaning of names are the subject of Scopes.      *)
(*                                                                         *)
(* A node has a kind, the token it comes from, its parts in source order     *)
(* and the mark that parentheses leave on it.                               *)
(***************************************************************************)
EXTENDS Lexer

Bad == [ok |-> FALSE, node |-> "error", at |-> 0]       \* p->ok = 0
Good(n, i) == [ok |-> TRUE, node |-> n, at |-> i]       \* n, and the next position

Node(k, i, kids) == [k |-> k, at |-> i, kids |-> kids, paren |-> FALSE]
Leaf(i) == Node("leaf", i, <<>>)

Peek(i) == toks[IF i > Len(toks) THEN Len(toks) ELSE i]
Spelling(i) == Span(Peek(i).start, Peek(i).len)
Is(i, s) == Peek(i).kind \in {"OP", "KEYWORD"} /\ Spelling(i) = s
IsName(i) == Peek(i).kind = "IDENT"

-----------------------------------------------------------------------------
PrecUnary == 11
PrecOr == 1

(* prec_of *)
PrecOf(i) ==
    CASE Is(i, <<"o", "r">>) -> 1
      [] Is(i, <<"a", "n", "d">>) -> 2
      [] Is(i, <<"=", "=">>) \/ Is(i, <<"~", "=">>) \/ Is(i, <<"<">>) \/ Is(i, <<"<", "=">>)
            \/ Is(i, <<">">>) \/ Is(i, <<">", "=">>) -> 3
      [] Is(i, <<"|">>) -> 4
      [] Is(i, <<"~">>) -> 5
      [] Is(i, <<"&">>) -> 6
      [] Is(i, <<"<", "<">>) \/ Is(i, <<">", ">">>) -> 7
      [] Is(i, <<".", ".">>) -> 8
      [] Is(i, <<"+">>) \/ Is(i, <<"-">>) -> 9
      [] Is(i, <<"*">>) \/ Is(i, <<"/">>) \/ Is(i, <<"/", "/">>) \/ Is(i, <<"%">>) -> 10
      [] Is(i, <<"^">>) -> 12
      [] OTHER -> 0

(* Every operator associates to the left. *)
NextMin_left(i) == PrecOf(i) + 1

(* The least precedence that the right operand may hold unparenthesized. *)
NextMin(i) ==
    IF Is(i, <<".", ".">>) \/ Is(i, <<"^">>) THEN PrecOf(i) ELSE PrecOf(i) + 1

IsUnary(i) == Is(i, <<"-">>) \/ Is(i, <<"#">>) \/ Is(i, <<"~">>) \/ Is(i, <<"n", "o", "t">>)

RECURSIVE ParsePrec(_, _)
ParseExpr(i) == ParsePrec(i, PrecOr)

(* What Use makes of the node of r and the position after it, if r parsed.   *)
After(r, Use(_, _)) ==
    CHOOSE q \in {IF e.ok THEN Use(e.node, e.at) ELSE Bad : e \in {r}} : TRUE

(* r, if the token after it is s. *)
Then(r, s) == After(r, LAMBDA n, j : IF Is(j, s) THEN Good(n, j + 1) ELSE Bad)

(* Expressions separated by commas, after those in acc. *)
RECURSIVE ExprList(_, _)
ExprList(i, acc) ==
    After(ParseExpr(i), LAMBDA n, j :
        IF Is(j, <<",">>) THEN ExprList(j + 1, Append(acc, n)) ELSE Good(Append(acc, n), j))

(* The arguments of a call, after its opening parenthesis. *)
Arguments(i) == IF Is(i, <<")">>) THEN Good(<<>>, i + 1) ELSE Then(ExprList(i, <<>>), <<")">>)

(* An expression as the last of some nodes. *)
Last(nodes, i) == After(ParseExpr(i), LAMBDA n, j : Good(Append(nodes, n), j))
Keyed(i) == Then(Then(ParseExpr(i + 1), <<"]">>), <<"=">>)

(* Takes `name =` for the start of an expression. *)
Entry_noName(i) ==
    IF Is(i, <<"[">>) THEN After(Keyed(i), LAMBDA n, j : Last(<<n>>, j))
    ELSE IF IsName(i) /\ Is(i + 1, <<"=">>) THEN Last(<<>>, i + 2)
    ELSE Last(<<>>, i)

(* One entry of a table constructor: [e] = e, name = e, or e. *)
Entry(i) ==
    IF Is(i, <<"[">>) THEN After(Keyed(i), LAMBDA n, j : Last(<<n>>, j))
    ELSE IF IsName(i) /\ Is(i + 1, <<"=">>) THEN Last(<<Leaf(i)>>, i + 2)
    ELSE Last(<<>>, i)

RECURSIVE Entries(_, _)
Entries(i, acc) ==
    IF Is(i, <<"}">>) \/ Peek(i).kind = "EOF" THEN Then(Good(acc, i), <<"}">>)
    ELSE After(Entry(i), LAMBDA nodes, j :
             IF Is(j, <<",">>) \/ Is(j, <<";">>) THEN Entries(j + 1, acc \o nodes)
             ELSE Then(Good(acc \o nodes, j), <<"}">>))

LiteralWords == {<<"n", "i", "l">>, <<"t", "r", "u", "e">>, <<"f", "a", "l", "s", "e">>}
IsLiteral(i) == Peek(i).kind \in {"INT", "FLOAT", "STRING"} \/ \E w \in LiteralWords : Is(i, w)

ParsePrimary(i) ==
    IF IsLiteral(i) \/ IsName(i) THEN Good(Leaf(i), i + 1)
    ELSE IF Is(i, <<"(">>)
    THEN After(Then(ParseExpr(i + 1), <<")">>), LAMBDA n, j : Good([n EXCEPT !.paren = TRUE], j))
    ELSE IF Is(i, <<"{">>)
    THEN After(Entries(i + 1, <<>>), LAMBDA nodes, j : Good(Node("table", i, nodes), j))
    ELSE Bad

(* The single argument of a call without parentheses. *)
BareArgument(i) == Peek(i).kind = "STRING" \/ Is(i, <<"{">>)
Single(r) == After(r, LAMBDA n, j : Good(<<n>>, j))
CallArguments(i) == IF BareArgument(i) THEN Single(ParsePrimary(i)) ELSE Arguments(i + 1)

(* One link of a prefix chain: a call, a field, an index or a method call,   *)
(* with its kind, its token and its parts besides e.                        *)
ChainAt(i) == \/ Is(i, <<"(">>) \/ Is(i, <<".">>) \/ Is(i, <<"[">>) \/ Is(i, <<":">>)
              \/ BareArgument(i)
Link(i) ==
    CASE Is(i, <<".">>) -> IF IsName(i + 1) THEN Good(<<>>, i + 2) ELSE Bad
      [] Is(i, <<"[">>) -> Single(Then(ParseExpr(i + 1), <<"]">>))
      [] Is(i, <<":">>) -> IF IsName(i + 1) /\ (BareArgument(i + 2) \/ Is(i + 2, <<"(">>))
                           THEN CallArguments(i + 2) ELSE Bad
      [] OTHER -> CallArguments(i)
LinkNode(i, parts) ==
    IF Is(i, <<".">>) \/ Is(i, <<":">>) THEN Node("field", i + 1, parts)
    ELSE Node(IF Is(i, <<"[">>) THEN "index" ELSE "call", i, parts)

(* parse_prefix_chain, with e parsed so far. *)
RECURSIVE Chain(_, _)
Chain(e, i) ==
    IF ChainAt(i) THEN After(Link(i), LAMBDA parts, j : Chain(LinkNode(i, <<e>> \o parts), j))
    ELSE Good(e, i)

ParsePrefixChain(i) == After(ParsePrimary(i), Chain)

ParseUnary(i) ==
    IF IsUnary(i) THEN After(ParsePrec(i + 1, PrecUnary), LAMBDA n, j : Good(Node("un", i, <<n>>), j))
    ELSE ParsePrefixChain(i)

(* The loop of parse_prec, with lhs parsed so far. *)
RECURSIVE Binary(_, _, _)
Binary(lhs, i, min) ==
    IF PrecOf(i) < min THEN Good(lhs, i)
    ELSE After(ParsePrec(i + 1, NextMin(i)),
               LAMBDA rhs, j : Binary(Node("bin", i, <<lhs, rhs>>), j, min))

ParsePrec(i, min) == After(ParseUnary(i), LAMBDA lhs, j : Binary(lhs, j, min))

-----------------------------------------------------------------------------
(* The driver parses what the lexer has not failed on. *)
Tree == IF done /\ ok THEN ParseExpr(1) ELSE Bad

(* The tokens of a tree, in the order of its reading. *)
RECURSIVE Reading(_)
Reading(n) ==
    LET parts[k \in 0..Len(n.kids)] == IF k = 0 THEN <<>> ELSE parts[k - 1] \o Reading(n.kids[k])
        rest == [k \in 1..(Len(n.kids) - 1) |-> n.kids[k + 1]]
        after[k \in 0..Len(rest)] == IF k = 0 THEN <<>> ELSE after[k - 1] \o Reading(rest[k])
    IN  CASE n.k = "leaf" -> <<n.at>>
          [] n.k = "un" -> <<n.at>> \o parts[1]
          [] n.k \in {"bin", "field"} -> Reading(n.kids[1]) \o <<n.at>> \o after[Len(rest)]
          [] OTHER -> parts[Len(n.kids)]

Punctuation == {<<"(">>, <<")">>, <<"[">>, <<"]">>, <<"{">>, <<"}">>, <<",">>, <<";">>, <<":">>, <<"=">>, <<".">>}
Meaningful(n) == SelectSeq([i \in 1..n |-> i], LAMBDA i : ~\E s \in Punctuation : Is(i, s))

(* What the parser consumed it has kept: the names, literals and operators   *)
(* of the text are in the tree once each and in their order, and the end of  *)
(* the tokens is never passed.                                              *)
NothingLost ==
    LET t == Tree
    IN  t.ok => t.at <= Len(toks) /\ Reading(t.node) = Meaningful(t.at - 1)

(* Lua's levels, loosest first: "or < and < comparisons < | < ~ < & < shifts *)
(* < .. < + - < * / // % < unary < ^" (docs/language-features.md).          *)
Levels == << {<<"o", "r">>}, {<<"a", "n", "d">>},
             {<<"<">>, <<">">>, <<"<", "=">>, <<">", "=">>, <<"~", "=">>, <<"=", "=">>},
             {<<"|">>}, {<<"~">>}, {<<"&">>}, {<<"<", "<">>, <<">", ">">>}, {<<".", ".">>},
             {<<"+">>, <<"-">>}, {<<"*">>, <<"/">>, <<"/", "/">>, <<"%">>}, {}, {<<"^">>} >>
UnaryLevel == 11
LevelOf(n) == IF n.k = "un" THEN UnaryLevel ELSE CHOOSE v \in DOMAIN Levels : Spelling(n.at) \in Levels[v]
RightAssociative(n) == Spelling(n.at) \in {<<".", ".">>, <<"^">>}
Operation(n) == n.k \in {"bin", "un"} /\ ~n.paren

(* Is n, and everything in it, grouped as the levels say? *)
RECURSIVE Grouped(_)
Grouped(n) ==
    /\ \A k \in DOMAIN n.kids : Grouped(n.kids[k])
    /\ n.k = "bin" =>
          /\ Operation(n.kids[1]) =>
                \/ LevelOf(n.kids[1]) > LevelOf(n)
                \/ LevelOf(n.kids[1]) = LevelOf(n) /\ ~RightAssociative(n)
          /\ Operation(n.kids[2]) =>
                \/ n.kids[2].k = "un"
                \/ LevelOf(n.kids[2]) > LevelOf(n)
                \/ LevelOf(n.kids[2]) = LevelOf(n) /\ RightAssociative(n)
    /\ n.k = "un" => ~(n.kids[1].k = "bin" /\ ~n.kids[1].paren) \/ LevelOf(n.kids[1]) > UnaryLevel
    /\ n.k \in {"call", "field", "index"} => ~Operation(n.kids[1])

(* Without parentheses an expression groups by level, `..` and `^` to the    *)
(* right and the others to the left, a unary operator looser than `^` on     *)
(* its right and tighter than the rest, and calls and fields tightest.      *)
GroupedByLevel == LET t == Tree IN t.ok => Grouped(t.node)
=============================================================================
