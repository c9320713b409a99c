------------------------------- MODULE Lexer -------------------------------
(***************************************************************************)
(* The lexer (src/lexer.c).  A text is a sequence of characters; one step   *)
(* takes one token, one run of blanks, one comment or, inside a quoted      *)
(* string, one character or escape.  Numbers have WordBits bits (64 in the  *)
(* code), and the alphabet is the characters the scanner tells apart.       *)
(***************************************************************************)
EXTENDS Integers, Sequences, FiniteSets

CONSTANTS
    Texts,      \* the source texts
    Keywords,   \* KEYWORDS, as spellings
    WordBits    \* width of a Lua integer

ASSUME LexerAssumption == WordBits \in Nat \ {0}

VARIABLES
    src,        \* the source, NUL-terminated in the code
    p,          \* L.p, as a position
    line,       \* L.line
    ok,         \* L.ok
    toks,       \* the tokens pushed so far
    str,        \* locals of read_string while it runs; NoString outside it
    done        \* lex() has returned

vars == <<src, p, line, ok, toks, str, done>>

Eof == "EOF"
Digits == {"0", "1", "7", "9"}
HexDigits == Digits \cup {"a", "e", "F"}
Letters == {"a", "d", "e", "F", "n", "o", "p", "r", "t", "u", "x", "z", "_"}
Blanks == {" ", "\r", "\n"}
Quotes == {"'", "\""}

(* One-, two- and three-character operators, in the order the switch tests *)
(* them: for each first character the longer spellings first.              *)
Ones == {"(", ")", "{", "}", "[", "]", ",", ";", "+", "-", "*", "%", "^", "#", "&", "|", "/", ":", "=",
         "~", "<", ">", "."}
Twos == {<<"/", "/">>, <<":", ":">>, <<"=", "=">>, <<"~", "=">>, <<"<", "=">>, <<"<", "<">>,
         <<">", "=">>, <<">", ">">>, <<".", ".">>}
Threes == {<<".", ".", ".">>}

At(i) == IF i \in 1..Len(src) THEN src[i] ELSE Eof
Span(i, n) == [k \in 1..n |-> At(i + k - 1)]
IsMin(j, S) == j \in S /\ \A k \in S : j <= k
ScanWhile(i, C) == CHOOSE j \in i..(Len(src) + 1) : At(j) \notin C /\ \A k \in i..(j - 1) : At(k) \in C
LineEnd(i) == CHOOSE j \in i..(Len(src) + 1) :
                 At(j) \in {"\n", Eof} /\ \A k \in i..(j - 1) : At(k) # "\n"
NewlinesIn(i, j) == Cardinality({k \in i..(j - 1) : At(k) = "\n"})

NoString == [q |-> Eof, start |-> 0, line |-> 0, cap |-> 0, len |-> 0]

-----------------------------------------------------------------------------
(* Numbers: how far a literal reaches, and what it denotes.                 *)

Exponent(i, marks) ==
    IF At(i) \notin marks THEN i
    ELSE ScanWhile(IF At(i + 1) \in {"+", "-"} THEN i + 2 ELSE i + 1, Digits)

Fraction(i, C) == IF At(i) = "." THEN ScanWhile(i + 1, C) ELSE i

IsHexLiteral(i) == At(i) = "0" /\ At(i + 1) = "x"

IntegerEnd(i) == IF IsHexLiteral(i) THEN ScanWhile(i + 2, HexDigits) ELSE ScanWhile(i, Digits)

NumberEnd(i) ==
    IF IsHexLiteral(i) THEN Exponent(Fraction(IntegerEnd(i), HexDigits), {"p"})
                       ELSE Exponent(Fraction(IntegerEnd(i), Digits), {"e"})

DigitValue(c) == CASE c = "0" -> 0 [] c = "1" -> 1 [] c = "7" -> 7 [] c = "9" -> 9
                   [] c = "a" -> 10 [] c = "e" -> 14 [] c = "F" -> 15

(* The digits i..j-1 taken one by one: Step makes a value from the value so *)
(* far and the next digit.                                                  *)
Accumulate(i, j, Step(_, _)) ==
    LET acc[k \in (i - 1)..(j - 1)] ==
            IF k < i THEN 0 ELSE Step(acc[k - 1], DigitValue(At(k)))
    IN  acc[j - 1]

MaxInteger == 2 ^ (WordBits - 1) - 1
AsSigned(u) == IF u > MaxInteger THEN u - 2 ^ WordBits ELSE u

HexValue(i, j) == AsSigned(Accumulate(i + 2, j, LAMBDA v, d : (v * 16 + d) % (2 ^ WordBits)))

(* strtoll saturates and sets ERANGE; the literal is then read as a float.  *)
DecimalValue(i, j) ==
    Accumulate(i, j, LAMBDA v, d : IF v * 10 + d > MaxInteger THEN MaxInteger + 1 ELSE v * 10 + d)

NumberToken_saturating(i) ==
    LET j == NumberEnd(i)
        float == j # IntegerEnd(i)
    IN  [kind  |-> IF float THEN "FLOAT" ELSE "INT",
         start |-> i, len |-> j - i, line |-> line,
         val   |-> IF float THEN 0
                   ELSE IF IsHexLiteral(i) THEN HexValue(i, j) ELSE DecimalValue(i, j)]

NumberToken(i) ==
    LET j == NumberEnd(i)
        float == j # IntegerEnd(i)
        big == ~IsHexLiteral(i) /\ DecimalValue(i, j) > MaxInteger
    IN  [kind  |-> IF float \/ big THEN "FLOAT" ELSE "INT",
         start |-> i, len |-> j - i, line |-> line,
         val   |-> IF float \/ big THEN 0
                   ELSE IF IsHexLiteral(i) THEN HexValue(i, j) ELSE DecimalValue(i, j)]

-----------------------------------------------------------------------------
(* Long brackets.                                                           *)

Level(i) == ScanWhile(i + 1, {"="}) - (i + 1)
OpensLong(i) == At(i) = "[" /\ At(i + 1 + Level(i)) = "["
ClosesLong(j, n) == At(j) = "]" /\ Level(j) = n /\ At(j + 1 + n) = "]"

(* After the opener and the newline that may follow it. *)
LongBody(i) == LET b == i + 2 + Level(i) IN IF At(b) = "\n" THEN b + 1 ELSE b

LongCloser(i, n) ==
    LET C == {j \in i..Len(src) : ClosesLong(j, n)}
    IN  IF C = {} THEN 0 ELSE CHOOSE j \in C : IsMin(j, C)

-----------------------------------------------------------------------------
Token(kind, i, n) == [kind |-> kind, start |-> i, len |-> n, line |-> line, val |-> 0]

Init ==
    /\ src \in Texts
    /\ p = IF At(1) = "#" THEN LineEnd(1) ELSE 1
    /\ line = 1 /\ ok = TRUE /\ toks = <<>> /\ str = NoString /\ done = FALSE

Running == ok /\ ~done /\ str = NoString /\ At(p) # Eof
Push(t) == toks' = Append(toks, t) /\ p' = t.start + t.len
Fail == ok' = FALSE

Newline == /\ Running /\ At(p) = "\n"
           /\ line' = line + 1 /\ p' = p + 1
           /\ UNCHANGED <<src, ok, toks, str, done>>

Blank_space == /\ Running /\ At(p) = " "
               /\ p' = p + 1
               /\ UNCHANGED <<src, line, ok, toks, str, done>>

Blank == /\ Running /\ At(p) \in Blanks \ {"\n"}
         /\ p' = p + 1
         /\ UNCHANGED <<src, line, ok, toks, str, done>>

IsComment == At(p) = "-" /\ At(p + 1) = "-"

LineComment ==
    /\ Running /\ IsComment /\ ~OpensLong(p + 2)
    /\ p' = LineEnd(p + 2)
    /\ UNCHANGED <<src, line, ok, toks, str, done>>

(* try_open_long_bracket, then read_long_body, from the bracket at i: where  *)
(* the body or the text ends, and the line there.                           *)
ReadLong(i) ==
    LET b == LongBody(i)
        e == LongCloser(b, Level(i))
        last == IF e = 0 THEN Len(src) + 1 ELSE e
    IN  [closed |-> e # 0,
         to     |-> IF e = 0 THEN last ELSE e + 2 + Level(i),
         line   |-> line + NewlinesIn(i, last)]

Unclosed(r) == ~r.closed /\ Fail /\ p' = r.to /\ UNCHANGED toks

LongComment ==
    /\ Running /\ IsComment /\ OpensLong(p + 2)
    /\ LET r == ReadLong(p + 2)
       IN  /\ line' = r.line
           /\ \/ r.closed /\ p' = r.to /\ UNCHANGED <<ok, toks>>
              \/ Unclosed(r)
    /\ UNCHANGED <<src, str, done>>

LongString ==
    /\ Running /\ OpensLong(p)
    /\ LET r == ReadLong(p)
       IN  /\ line' = r.line
           /\ \/ r.closed /\ Push(Token("STRING", p, r.to - p)) /\ UNCHANGED ok
              \/ Unclosed(r)
    /\ UNCHANGED <<src, str, done>>

Number ==
    /\ Running /\ At(p) \in Digits
    /\ Push(NumberToken(p))
    /\ UNCHANGED <<src, line, ok, str, done>>

(* `.5`: the point is read by the operator switch. *)
PointNumber ==
    /\ Running /\ At(p) = "." /\ At(p + 1) \in Digits
    /\ Push(Token("FLOAT", p, Exponent(ScanWhile(p + 1, Digits), {"e"}) - p))
    /\ UNCHANGED <<src, line, ok, str, done>>

Name ==
    /\ Running /\ At(p) \in Letters
    /\ LET n == ScanWhile(p, Letters \cup Digits) - p
       IN  Push(Token(IF Span(p, n) \in Keywords THEN "KEYWORD" ELSE "IDENT", p, n))
    /\ UNCHANGED <<src, line, ok, str, done>>

OperatorLength(i) ==
    IF Span(i, 3) \in Threes THEN 3 ELSE IF Span(i, 2) \in Twos THEN 2 ELSE 1

Operator ==
    /\ Running /\ At(p) \in Ones
    /\ ~IsComment /\ ~OpensLong(p) /\ ~(At(p) = "." /\ At(p + 1) \in Digits)
    /\ Push(Token("OP", p, OperatorLength(p)))
    /\ UNCHANGED <<src, line, ok, str, done>>

Unexpected ==
    /\ Running /\ At(p) \notin Ones \cup Digits \cup Letters \cup Blanks \cup Quotes
    /\ Fail /\ p' = p + 1
    /\ UNCHANGED <<src, line, toks, str, done>>

-----------------------------------------------------------------------------
(* read_string.  A first scan to the closing quote counts an escape as one  *)
(* character; the bytes decoded later go into a buffer of that size plus 4. *)

(* Stops at a newline, although `\z` skips over newlines. *)
PreScan_line(i, q) ==
    LET cap[j \in i..(Len(src) + 2)] ==
            IF At(j) \in {Eof, q, "\n"} THEN 0
            ELSE 1 + cap[IF At(j) = "\\" /\ At(j + 1) # Eof THEN j + 2 ELSE j + 1]
    IN  cap[i]

PreScan(i, q) ==
    LET cap[j \in i..(Len(src) + 2)] ==
            IF At(j) \in {Eof, q} THEN 0
            ELSE 1 + cap[IF At(j) = "\\" /\ At(j + 1) # Eof THEN j + 2 ELSE j + 1]
    IN  cap[i]

InString == ok /\ ~done /\ str # NoString

OpenString ==
    /\ Running /\ At(p) \in Quotes
    /\ str' = [q |-> At(p), start |-> p, line |-> line, cap |-> PreScan(p + 1, At(p)), len |-> 0]
    /\ p' = p + 1
    /\ UNCHANGED <<src, line, ok, toks, done>>

Decoded(n, q) == str' = [str EXCEPT !.len = @ + n] /\ p' = q
(* After an error only the message is used: where p stopped is left out. *)
BadString == Fail /\ UNCHANGED <<src, p, line, toks, str, done>>

PlainChar ==
    /\ InString /\ At(p) \notin {Eof, str.q, "\n", "\\"}
    /\ Decoded(1, p + 1)
    /\ UNCHANGED <<src, line, ok, toks, done>>

RawNewline == InString /\ At(p) = "\n" /\ BadString
Unterminated == InString /\ At(p) = Eof /\ BadString

Escape(C) == InString /\ At(p) = "\\" /\ At(p + 1) \in C

SimpleEscape ==
    /\ Escape({"n", "r", "a", "\\"} \cup Quotes)
    /\ Decoded(1, p + 2)
    /\ UNCHANGED <<src, line, ok, toks, done>>

HexEscape ==
    /\ Escape({"x"})
    /\ IF {At(p + 2), At(p + 3)} \subseteq HexDigits
       THEN Decoded(1, p + 4) /\ UNCHANGED <<src, line, ok, toks, done>>
       ELSE BadString

SkipBlanks ==
    /\ Escape({"z"})
    /\ LET q == ScanWhile(p + 2, Blanks)
       IN  Decoded(0, q) /\ line' = line + NewlinesIn(p + 2, q)
    /\ UNCHANGED <<src, ok, toks, done>>

LineBreakEscape ==
    /\ Escape({"\n", "\r"})
    /\ Decoded(1, IF {At(p + 1), At(p + 2)} = {"\n", "\r"} THEN p + 3 ELSE p + 2)
    /\ line' = line + 1
    /\ UNCHANGED <<src, ok, toks, done>>

(* Bytes of a code point in UTF-8, up to 0x7FFFFFFF. *)
Utf8Length(cp) == IF cp < 128 THEN 1 ELSE IF cp < 2048 THEN 2 ELSE IF cp < 65536 THEN 3
                  ELSE IF cp < 2097152 THEN 4 ELSE IF cp < 67108864 THEN 5 ELSE 6

TooLarge == 2 ^ 27      \* the next digit would push this past 2^31 - 1

UnicodeEscape ==
    /\ Escape({"u"})
    /\ LET e == ScanWhile(p + 3, HexDigits)
           prefix == Accumulate(p + 3, e - 1,
                         LAMBDA v, d : IF v >= TooLarge \div 16 THEN TooLarge ELSE v * 16 + d)
       IN  IF At(p + 2) = "{" /\ e > p + 3 /\ At(e) = "}" /\ prefix < TooLarge
           THEN /\ Decoded(Utf8Length(prefix * 16 + DigitValue(At(e - 1))), e + 1)
                /\ UNCHANGED <<src, line, ok, toks, done>>
           ELSE BadString

DecimalEscape ==
    /\ Escape(Digits)
    /\ LET e == CHOOSE j \in (p + 2)..(p + 4) :
                   /\ \A k \in (p + 1)..(j - 1) : At(k) \in Digits
                   /\ j = p + 4 \/ At(j) \notin Digits
       IN  IF Accumulate(p + 1, e, LAMBDA v, d : v * 10 + d) <= 255
           THEN Decoded(1, e) /\ UNCHANGED <<src, line, ok, toks, done>>
           ELSE BadString

UnknownEscape ==
    /\ InString /\ At(p) = "\\"
    /\ At(p + 1) \notin Digits \cup Quotes \cup {"n", "r", "a", "\\", "x", "z", "u", "\n", "\r"}
    /\ BadString

CloseString ==
    /\ InString /\ At(p) = str.q
    /\ Push([Token("STRING", str.start, p + 1 - str.start) EXCEPT !.line = str.line])
    /\ str' = NoString
    /\ UNCHANGED <<src, line, ok, done>>

(* The loop ends at NUL or at an error, and an EOF token is pushed. *)
Finish ==
    /\ ~done /\ (~ok \/ (str = NoString /\ At(p) = Eof))
    /\ toks' = Append(toks, Token("EOF", p, 0))
    /\ done' = TRUE
    /\ UNCHANGED <<src, p, line, ok, str>>

Next == \/ Newline \/ Blank \/ LineComment \/ LongComment \/ LongString \/ Number \/ PointNumber
        \/ Name \/ Operator \/ Unexpected \/ OpenString \/ PlainChar \/ RawNewline \/ Unterminated
        \/ SimpleEscape \/ HexEscape \/ SkipBlanks \/ LineBreakEscape \/ UnicodeEscape
        \/ DecimalEscape \/ UnknownEscape \/ CloseString \/ Finish

(* lex() is one loop of one thread: while a step is possible one is taken. *)
Spec == Init /\ [][Next]_vars /\ WF_vars(Next)

-----------------------------------------------------------------------------
(* Every variable has its type; positions stay within the text and its NUL. *)
TypeOK ==
    /\ p \in 1..(Len(src) + 1) /\ line \in 1..(Len(src) + 1)
    /\ ok \in BOOLEAN /\ done \in BOOLEAN
    /\ \A i \in DOMAIN toks : toks[i].start \in 1..(Len(src) + 1) /\ toks[i].len \in 0..Len(src)

(* read_string's first scan bounds what its second writes: the decoded      *)
(* bytes never outgrow the count that sized the buffer.                     *)
BufferSuffices == str.len <= str.cap

(* Lines are counted in five places (the main loop, long brackets and their *)
(* first newline, `\z`, a continued line); together they count every        *)
(* newline once, so each token has the line it starts on.  Texts with a     *)
(* carriage return that is not part of a line break are left aside.         *)
CarriageReturnsPaired ==
    \A i \in DOMAIN src : src[i] = "\r" => At(i + 1) = "\n" \/ (i > 1 /\ At(i - 1) = "\n")
LinesExact ==
    CarriageReturnsPaired =>
        \A i \in DOMAIN toks : toks[i].line = 1 + NewlinesIn(1, toks[i].start)

(* No operator token is a proper prefix of a longer operator in the text,   *)
(* and tokens neither overlap nor swallow text that belongs to no token.    *)
LongestMatch ==
    \A i \in DOMAIN toks :
        /\ toks[i].kind = "OP" =>
              LET n == toks[i].len
              IN  /\ n < 3 => Span(toks[i].start, 3) \notin Threes
                  /\ n < 2 => Span(toks[i].start, 2) \notin Twos
        /\ i > 1 => toks[i - 1].start + toks[i - 1].len <= toks[i].start

(* An integer token denotes its digits: exactly in decimal (a literal that  *)
(* does not fit is a float), modulo 2^WordBits in hexadecimal.              *)
LiteralsExact ==
    \A i \in DOMAIN toks : toks[i].kind = "INT" =>
        LET s == toks[i].start
            e == s + toks[i].len
            exact(from, base) == Accumulate(from, e, LAMBDA v, d : v * base + d)
        IN  IF IsHexLiteral(s) THEN (exact(s + 2, 16) - toks[i].val) % (2 ^ WordBits) = 0
                               ELSE exact(s, 10) = toks[i].val

(* The tokens of a text: where they are, on which line, how long and which   *)
(* integer.                                                                 *)
TokensExact == TypeOK /\ LinesExact /\ LongestMatch /\ LiteralsExact

(* Every text is lexed in finitely many steps, well formed or not. *)
Terminates == <>done
=============================================================================
