------------------------------ MODULE MCExprs ------------------------------
(***************************************************************************)
(* Texts for the front end.  They are built from pieces, so that short ones *)
(* reach every case of the lexer, every pair and many triples of operators,  *)
(* and every postfix form.                                                  *)
(***************************************************************************)
EXTENDS Exprs

Join(pieces) == LET cat[k \in 0..Len(pieces)] ==
                        IF k = 0 THEN <<>> ELSE cat[k - 1] \o pieces[k]
                IN  cat[Len(pieces)]

CodePieces ==
    {<<"a">>, <<"o", "r">>, <<"1">>, <<"1", "9">>, <<"0", "x">>, <<"F", "9">>, <<"e">>, <<"p", "+">>,
     <<".">>, <<"<">>, <<"=">>, <<"#">>, <<" ">>, <<"\n">>, <<"\r", "\n">>, <<"-">>, <<"-", "-">>,
     <<"[", "[">>, <<"[", "=", "[">>, <<"[", "=">>, <<"]", "]">>, <<"]", "=", "]">>, <<"@">>,
     <<"[", "[", "\n">>}
StringPieces ==
    {<<"a">>, <<"\\", "z">>, <<"\n">>, <<"\r">>, <<"\\", "\n">>, <<"\\", "\r">>, <<"\\", "u", "{">>,
     <<"7", "F", "F", "F", "F", "F", "F">>, <<"0">>, <<"9">>, <<"}">>, <<"\\">>, <<"\\", "x">>, <<"\"">>, <<"'">>}

Name1 == <<"a">>
Unaries == {<<>>, <<"-">>, <<" ", "n", "o", "t", " ">>}
AllBinaries == {<<" ", "o", "r", " ">>, <<" ", "a", "n", "d", " ">>, <<"=", "=">>, <<"<">>, <<"|">>, <<"~">>,
                <<"&">>, <<"<", "<">>, <<".", ".">>, <<"+">>, <<"*">>, <<"/", "/">>, <<"^">>}
Binaries == {<<" ", "o", "r", " ">>, <<".", ".">>, <<"*">>, <<"^">>}
OpTexts == {Join(<<u, Name1, b, v, Name1, c, w, Name1>>) :
               u \in Unaries, b \in AllBinaries, v \in Unaries, c \in AllBinaries, w \in {<<>>, <<"#">>}}
           \cup {Join(<<u, Name1, b, v, Name1, c, w, Name1, d, Name1>>) :
               u \in Unaries, b \in Binaries, v \in Unaries, c \in Binaries, w \in Unaries, d \in Binaries}
PostfixPieces == {<<"a">>, <<"(">>, <<")">>, <<"[">>, <<"]">>, <<"{">>, <<"}">>, <<",">>, <<".">>, <<":">>,
                  <<"=">>, <<"^">>, <<"'", "1", "'">>}
Brackets == {<<<<"(">>, <<")">>>>, <<<<"[">>, <<"]">>>>, <<<<"{">>, <<"}">>>>, <<<<":", "a", "(">>, <<")">>>>}
PostfixTexts == {Name1 \o a \o b \o c : a, b, c \in PostfixPieces \cup {<<>>}}
                \cup {u \o Name1 \o b[1] \o t \o e \o b[2] :
                         u \in Unaries, b \in Brackets, t, e \in PostfixPieces \cup {<<>>, <<";">>, <<"a", "=">>}}

Three(S) == {a \o b \o c : a, b, c \in S \cup {<<>>}}
Four(S) == {a \o b \o c \o d : a, b, c, d \in S \cup {<<>>}}
MCTexts == Three(CodePieces) \cup {<<"\"">> \o t : t \in Four(StringPieces)}
           \cup OpTexts \cup PostfixTexts
MCKeywords == {<<"o", "r">>, <<"a", "n", "d">>, <<"n", "o", "t">>}
=============================================================================
