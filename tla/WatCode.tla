------------------------------ MODULE WatCode ------------------------------
(***************************************************************************)
(* The instruction encoder of the assembler (src/wat2wasm.c, encode_instr,  *)
(* encode_plain, encode_seq, encode_block_body).  A step reads one piece of  *)
(* the text of a function body, in any order the grammar allows: the start  *)
(* or the end of a folded instruction, a clause of `if` and `try_table`, a   *)
(* plain instruction.  The immediates that name functions, globals and      *)
(* types are WatModule's subject; this module has labels and constants.     *)
(* id, kids and want are history: they name the source construct.           *)
(***************************************************************************)
EXTENDS Integers, Sequences, FiniteSets

CONSTANTS
    Labels,     \* label names ($id)
    Numeric,    \* numeric labels used in branches
    Values,     \* literals of i32.const, as unsigned words
    WordBits,   \* width of such a literal: 32 in the code
    Anonymous,  \* a block without a label
    MaxOpen, MaxIds     \* bounds of the search: nesting, instructions

ASSUME WatCodeAssumption ==
    Anonymous \notin Labels /\ Numeric \subseteq Nat /\ WordBits \in Nat \ {0}

VARIABLES
    open,       \* the activations of encode_instr and encode_seq, innermost last
    labels,     \* f->labels
    out,        \* the code emitted so far
    nextId,
    err, done

vars == <<open, labels, out, nextId, err, done>>

Front(s, n) == SubSeq(s, 1, n)
Top == open[Len(open)]

(* What the opcode is, as far as control is concerned. *)
Simple == {"op", "br", "br_if", "return"}
Branches == {"br", "br_if"}
Structured == {"block", "loop", "if", "try"}

-----------------------------------------------------------------------------
(* buf_sleb: seven bits a byte, least significant first, the    *)
(* high bit set on every byte but the last.                                 *)

(* Stops as soon as the rest is zero or minus one, sign bit or not. *)
Sleb_short(v) ==
    LET enc[n \in 0..WordBits] ==
            LET byte == (v \div 2^(7 * n)) % 128
                rest == v \div 2^(7 * n + 7)
            IN  IF rest \in {0, -1} THEN <<byte>> ELSE <<byte + 128>> \o enc[n + 1]
    IN  enc[0]

Sleb(v) ==
    LET enc[n \in 0..WordBits] ==
            LET byte == (v \div 2^(7 * n)) % 128
                rest == v \div 2^(7 * n + 7)
            IN  IF (rest = 0 /\ byte < 64) \/ (rest = -1 /\ byte >= 64)
                THEN <<byte>> ELSE <<byte + 128>> \o enc[n + 1]
    IN  enc[0]

(* (int64_t)(int32_t)(uint32_t): a literal is the word it denotes. *)
AsSigned(u) == IF u >= 2^(WordBits - 1) THEN u - 2^WordBits ELSE u

-----------------------------------------------------------------------------
(* resolve_label: the distance to the innermost label of that name.  A       *)
(* number is taken as it is.                                                *)

(* Finds the outermost label of the name. *)
ResolveLabel_outermost(l) ==
    IF l \in Numeric THEN l
    ELSE LET S == {i \in DOMAIN labels : labels[i] = l}
         IN  IF S = {} THEN -1 ELSE Len(labels) - CHOOSE i \in S : \A j \in S : i <= j

ResolveLabel(l) ==
    IF l \in Numeric THEN l
    ELSE LET S == {i \in DOMAIN labels : labels[i] = l}
         IN  IF S = {} THEN -1 ELSE Len(labels) - CHOOSE i \in S : \A j \in S : j <= i

(* The construct the text means: labels are visible in bodies, not in the    *)
(* condition of their own `if` nor in the clauses of their own `try_table`. *)
Visible == SelectSeq(open, LAMBDA f : f.op \in Structured /\ f.part \in {"body", "then", "else"})
Meant(l) ==
    IF l \in Numeric
    THEN IF l < Len(Visible) THEN Visible[Len(Visible) - l].id ELSE 0
    ELSE LET S == {i \in DOMAIN Visible : Visible[i].label = l}
         IN  IF S = {} THEN 0 ELSE Visible[CHOOSE i \in S : \A j \in S : j <= i].id

-----------------------------------------------------------------------------
Form(op, part, label) ==
    [op |-> op, part |-> part, label |-> label, id |-> nextId, kids |-> <<>>,
     depth |-> 0, want |-> 0,
     last |-> FALSE,        \* flow_unreachable of the last instruction encode_seq has seen
     lastKid |-> FALSE]     \* flow_unreachable of the last node of the list

Init ==
    /\ open = <<[op |-> "func", part |-> "body", label |-> Anonymous, id |-> 0, kids |-> <<>>,
                 depth |-> 0, want |-> 0, last |-> FALSE, lastKid |-> FALSE]>>
    /\ labels = <<>> /\ out = <<>> /\ nextId = 1 /\ err = FALSE /\ done = FALSE

Running == ~err /\ ~done
InSeq == Top.part \in {"body", "then", "else", "cond"}      \* encode_seq
Room == nextId <= MaxIds
Emit(code) == out' = out \o code
Entry(f) == [k |-> f.op, id |-> f.id, kids |-> f.kids, depth |-> f.depth, want |-> f.want,
             bytes |-> <<>>]
Mark(k) == <<[k |-> k, bytes |-> <<>>]>>
(* fail: a longjmp out of the assembler, which gives up what it has built. *)
Fail == err' = TRUE /\ open' = Front(open, 1) /\ labels' = <<>> /\ out' = <<>> /\ nextId' = 1 /\ done' = FALSE

(* Treats a block like a loop. *)
FlowUnreachable_block(f) ==
    \/ f.op \in {"br", "return"}
    \/ f.op \in {"loop", "block"} /\ f.lastKid

(* flow_unreachable, of a folded instruction that has just been read. *)
FlowUnreachable(f) ==
    \/ f.op \in {"br", "return"}
    \/ f.op = "loop" /\ f.lastKid

(* The list f ends, as a child of the form below it. *)
Finished(f) ==
    LET n == Len(open) - 1
        flow == FlowUnreachable(f)
    IN  open' = [Front(open, n) EXCEPT ![n].kids = Append(@, f.id), ![n].last = flow, ![n].lastKid = flow]

Push(f) == open' = Append(open, f) /\ nextId' = nextId + 1

(* Folded instruction with operands: the label is resolved on the way in. *)
OpenInstr(op, l) ==
    /\ Running /\ Top.part # "catches" /\ Len(open) < MaxOpen /\ Room
    /\ \/ op \in Branches /\ ResolveLabel(l) < 0 /\ Fail
       \/ /\ op \in Branches => ResolveLabel(l) >= 0
          /\ LET f == Form(op, "operands", Anonymous)
             IN  Push(IF op \in Branches THEN [f EXCEPT !.depth = ResolveLabel(l), !.want = Meant(l)]
                                         ELSE f)
          /\ UNCHANGED <<labels, out, err, done>>

(* The opcode comes after its operands (encode_operands, buf_byte). *)
CloseInstr ==
    /\ Running /\ Top.op \in Simple
    /\ Emit(<<Entry(Top)>>)
    /\ Finished(Top)
    /\ UNCHANGED <<labels, nextId, err, done>>

(* A constant has an immediate and no operands. *)
Const(v) ==
    /\ Running /\ Top.part # "catches" /\ Room
    /\ Emit(<<[Entry(Form("op", "operands", Anonymous)) EXCEPT
                  !.want = v, !.bytes = Sleb(AsSigned(v))]>>)
    /\ open' = [open EXCEPT ![Len(open)].kids = Append(@, nextId), ![Len(open)].last = FALSE,
                            ![Len(open)].lastKid = FALSE]
    /\ nextId' = nextId + 1
    /\ UNCHANGED <<labels, err, done>>

(* encode_plain: a flat instruction, its immediates in the sibling nodes.   *)
(* Structured control has no plain form, and operands must be folded.       *)
Plain(op, l) ==
    /\ Running /\ Top.part # "catches" /\ Room
    /\ LET bad == ~InSeq \/ op \in Structured \/ (op \in Branches /\ ResolveLabel(l) < 0)
           f == [Form(op, "operands", Anonymous) EXCEPT
                    !.depth = IF op \in Branches THEN ResolveLabel(l) ELSE 0,
                    !.want = IF op \in Branches THEN Meant(l) ELSE 0]
           flow == op \in {"br", "return"}
       IN  \/ bad /\ Fail
           \/ /\ ~bad
              /\ Emit(<<Entry(f)>>)
              /\ open' = [open EXCEPT ![Len(open)].kids = Append(@, f.id), ![Len(open)].last = flow,
                                      ![Len(open)].lastKid = flow /\ op \notin Branches]
              /\ nextId' = nextId + 1
              /\ UNCHANGED <<labels, err, done>>

-----------------------------------------------------------------------------
(* encode_block_body: a trap after a body whose end cannot be reached. *)
BodyEnd(f) == IF f.last THEN Mark("trap") ELSE <<>>

OpenBlock(op, label) ==
    /\ Running /\ Top.part # "catches" /\ Len(open) < MaxOpen /\ Room
    /\ LET f == Form(op, "body", label) IN Push(f) /\ Emit(<<Entry(f)>>)
    /\ labels' = Append(labels, label)
    /\ UNCHANGED <<err, done>>

CloseBlock ==
    /\ Running /\ Top.op \in {"block", "loop", "try"} /\ Top.part = "body"
    /\ Emit(BodyEnd(Top) \o Mark("end"))
    /\ labels' = Front(labels, Len(labels) - 1)
    /\ Finished(Top)
    /\ UNCHANGED <<nextId, err, done>>

(* `if`: the condition is encoded before the opcode, outside its label. *)
OpenIf(label) ==
    /\ Running /\ Top.part # "catches" /\ Len(open) < MaxOpen /\ Room
    /\ Push(Form("if", "cond", label))
    /\ UNCHANGED <<labels, out, err, done>>

Reset(f, part) == [f EXCEPT !.part = part, !.last = FALSE, !.lastKid = FALSE]

Then ==
    /\ Running /\ Top.part = "cond"
    /\ Emit(<<Entry(Top)>>)
    /\ labels' = Append(labels, Top.label)
    /\ open' = [open EXCEPT ![Len(open)] = [Reset(@, "then") EXCEPT !.kids = <<>>]]
    /\ UNCHANGED <<nextId, err, done>>

Else ==
    /\ Running /\ Top.part = "then"
    /\ Emit(BodyEnd(Top) \o Mark("else"))
    /\ open' = [open EXCEPT ![Len(open)] = Reset(@, "else")]
    /\ UNCHANGED <<labels, nextId, err, done>>

CloseIf ==
    /\ Running /\ Top.op = "if"
    /\ \/ Top.part = "cond" /\ Fail
       \/ /\ Top.part \in {"then", "else"}
          /\ Emit(BodyEnd(Top) \o Mark("end"))
          /\ labels' = Front(labels, Len(labels) - 1)
          /\ Finished(Top)
          /\ UNCHANGED <<nextId, err, done>>

(* try_table: its catch clauses name labels around it, so that its own is    *)
(* pushed after them.                                                       *)
OpenTry(label) ==
    /\ Running /\ Top.part # "catches" /\ Len(open) < MaxOpen /\ Room
    /\ LET f == Form("try", "catches", label) IN Push(f) /\ Emit(<<Entry(f)>>)
    /\ UNCHANGED <<labels, err, done>>

Catch(l) ==
    /\ Running /\ Top.part = "catches" /\ Room
    /\ \/ ResolveLabel(l) < 0 /\ Fail
       \/ /\ ResolveLabel(l) >= 0
          /\ Emit(<<[Entry(Form("catch", "operands", Anonymous)) EXCEPT
                        !.depth = ResolveLabel(l), !.want = Meant(l)]>>)
          /\ nextId' = nextId + 1
          /\ UNCHANGED <<open, labels, err, done>>

TryBody ==
    /\ Running /\ Top.part = "catches"
    /\ labels' = Append(labels, Top.label)
    /\ open' = [open EXCEPT ![Len(open)] = Reset(@, "body")]
    /\ UNCHANGED <<out, nextId, err, done>>

Finish ==
    /\ Running /\ Len(open) = 1
    /\ Emit(BodyEnd(Top) \o Mark("end"))
    /\ done' = TRUE
    /\ UNCHANGED <<open, labels, nextId, err>>

Next ==
    \/ CloseInstr \/ CloseBlock \/ Then \/ Else \/ CloseIf \/ TryBody \/ Finish
    \/ \E v \in Values : Const(v)
    \/ \E op \in Simple, l \in Labels \cup Numeric : OpenInstr(op, l) \/ Plain(op, l)
    \/ \E op \in Structured, l \in Labels : Plain(op, l)
    \/ \E l \in Labels \cup {Anonymous} : \/ \E op \in {"block", "loop"} : OpenBlock(op, l)
                                          \/ OpenIf(l) \/ OpenTry(l)
    \/ \E l \in Labels \cup Numeric : Catch(l)

Spec == Init /\ [][Next]_vars

-----------------------------------------------------------------------------
(* The reader of the code, as WebAssembly defines it: a stack of control     *)
(* frames.  A frame knows whether a live branch leads to its end, whether    *)
(* it was entered alive, and the values made since; live is whether control *)
(* can get to this point.                                                   *)

Frame(op, id, live, vals) ==
    [op |-> op, id |-> id, entered |-> live, exit |-> FALSE, vals |-> vals]

Branch(cs, d, live) ==
    IF d < Len(cs) /\ cs[Len(cs) - d].op # "loop"
    THEN [cs EXCEPT ![Len(cs) - d].exit = @ \/ live] ELSE cs

Read(st, e) ==
    LET n == Len(st.cs)
        top == st.cs[n]
        pop(k) == Front(st.vals, Len(st.vals) - Len(e.kids))
        value(st2) == [st2 EXCEPT !.vals = Append(pop(e), e.id)]
    IN  CASE e.k \in {"block", "loop", "try"} ->
                [st EXCEPT !.cs = Append(@, Frame(e.k, e.id, st.live, st.vals)), !.vals = <<>>]
          [] e.k = "if" ->
                [st EXCEPT !.cs = Append(@, Frame("if", e.id, st.live, pop(e))), !.vals = <<>>]
          [] e.k = "catch" -> [st EXCEPT !.cs = Append(Branch(Front(st.cs, n - 1), e.depth, st.live), top)]
          [] e.k = "else" ->
                [st EXCEPT !.live = top.entered, !.vals = <<>>,
                           !.cs[n] = [top EXCEPT !.op = "else", !.exit = @ \/ st.live]]
          [] e.k = "end" ->
                [cs |-> Front(st.cs, n - 1), vals |-> Append(top.vals, top.id),
                 live |-> st.live \/ top.exit \/ (top.op = "if" /\ top.entered)]
          [] e.k = "trap" -> [st EXCEPT !.live = FALSE]
          [] e.k = "return" -> [value(st) EXCEPT !.live = FALSE]
          [] e.k = "br" -> [value(st) EXCEPT !.live = FALSE, !.cs = Branch(@, e.depth, st.live)]
          [] e.k = "br_if" -> [value(st) EXCEPT !.cs = Branch(@, e.depth, st.live)]
          [] e.k = "op" -> value(st)

(* The reader's state before each entry of the code. *)
Reader ==
    LET r[i \in 1..(Len(out) + 1)] ==
            IF i = 1 THEN [cs |-> <<Frame("func", 0, TRUE, <<>>)>>, vals |-> <<>>, live |-> TRUE]
                     ELSE Read(r[i - 1], out[i - 1])
    IN  r

(* Every open construct but the condition of an `if` and the clauses of a    *)
(* `try_table` has its label on the stack, and a body ended leaves none.    *)
TypeOK ==
    /\ labels = [i \in DOMAIN Visible |-> Visible[i].label]
    /\ done => Len(open) = 1
    /\ \A i \in DOMAIN out : out[i].k \in Branches \cup {"catch"} => out[i].depth >= 0

(* A branch or a catch clause, read from the code with WebAssembly's rules,  *)
(* leads to the construct its label names in the text.                      *)
BranchesHitTheirLabel ==
    LET r == Reader
    IN  \A i \in DOMAIN out : out[i].k \in Branches \cup {"catch"} =>
            LET cs == IF out[i].k = "catch" THEN Front(r[i].cs, Len(r[i].cs) - 1) ELSE r[i].cs
            IN  out[i].depth < Len(cs) => cs[Len(cs) - out[i].depth].id = out[i].want

(* The trap that closes a body is never reached: it is only put where no     *)
(* path of the program arrives.                                             *)
TrapsAreDead ==
    LET r == Reader IN \A i \in DOMAIN out : out[i].k = "trap" => ~r[i].live

(* A folded instruction finds the values of its own operands, in order, on   *)
(* the stack of the machine.                                                *)
OperandsInOrder ==
    LET r == Reader
    IN  \A i \in DOMAIN out : out[i].k \in Simple \cup {"if"} =>
            LET v == r[i].vals
                n == Len(out[i].kids)
            IN  n <= Len(v) /\ SubSeq(v, Len(v) - n + 1, Len(v)) = out[i].kids

(* What an engine decodes from the bytes of a constant. *)
Decoded(b) ==
    LET sum[n \in 0..Len(b)] == IF n = 0 THEN 0 ELSE sum[n - 1] + (b[n] % 128) * 2^(7 * (n - 1))
        raw == sum[Len(b)]
    IN  IF b[Len(b)] >= 64 THEN raw - 2^(7 * Len(b)) ELSE raw

(* A constant is decoded to the word its literal denotes, and every byte but *)
(* the last says that more follow.                                          *)
ConstantsExact ==
    \A i \in DOMAIN out : out[i].bytes # <<>> =>
        LET b == out[i].bytes
        IN  /\ (Decoded(b) - out[i].want) % 2^WordBits = 0
            /\ Decoded(b) \in (-(2^(WordBits - 1)))..(2^(WordBits - 1) - 1)
            /\ \A j \in DOMAIN b : b[j] >= 128 <=> j < Len(b)

(* The code, read as structured control, is the instructions of the text.   *)
ControlExact == TypeOK /\ BranchesHitTheirLabel /\ OperandsInOrder
=============================================================================
