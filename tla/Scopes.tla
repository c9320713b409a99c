------------------------------- MODULE Scopes -------------------------------
(***************************************************************************)
(* Scope analysis of the parser (src/parser.c): declarations, name          *)
(* resolution with upvalues, <const>, and the rules for goto.  A step is a   *)
(* statement, the start or the end of a block or function, or an expression *)
(* that uses a name; a program is any sequence of steps the grammar allows. *)
(* Identities (id, ids, path, bid, owners, jumps) are history: they tell    *)
(* declarations and blocks apart where the code has numbers that it reuses. *)
(***************************************************************************)
EXTENDS Integers, Sequences, FiniteSets

CONSTANTS
    Names, LabelNames,
    Builtins,       \* names of library functions
    EnvName,        \* _ENV, never a free name
    MaxLocals, MaxUpvals, MaxDepth, MaxFuncs, MaxGlobals,   \* limits of the code
    Param,          \* the name that parameters, loop variables and functions get
    Lists,          \* attributed name lists of local statements: <<names, attributes>>
    MaxNamed, MaxDecls, MaxBlocks, MaxGotos, MaxLabels                 \* bounds of the search

ASSUME ScopesAssumption ==
    /\ Builtins \subseteq Names /\ Param \in Names
    /\ {MaxLocals, MaxUpvals, MaxDepth, MaxFuncs, MaxGlobals} \subseteq Nat \ {0}

VARIABLES
    frames,     \* p.frames[0..frame_depth]
    open,       \* blocks being parsed: what parse_block and its callers keep in locals
    labels,     \* p.labels: the visible labels
    gotos,      \* p.gotos: forward gotos of the functions being parsed
    blk,        \* p.blk_gotos, p.blk_nactvar
    fn,         \* p.fn_labels, p.fn_gotos
    globals,    \* names with an entry in p.globals
    funcs,      \* finished functions, as LuaFunc
    tail,       \* what the lookahead of a label promised about the rest of its block
    err,        \* the first error
    nextId, reached, assigned, jumps, seen      \* history

vars == <<frames, open, labels, gotos, blk, fn, globals, funcs, tail, err,
          nextId, reached, assigned, jumps, seen>>
jumpVars == <<labels, gotos, blk, fn, jumps, seen>>

Attribs == {"none", "const", "close"}
ASSUME ListsAssumption ==
    \A l \in Lists : l[1] \in Seq(Names) /\ l[2] \in Seq(Attribs) /\ Len(l[1]) = Len(l[2])

Depth == Len(frames)
Cur == frames[Depth]
Decls(f) == frames[f].decls
Active == Len(Cur.decls)
Block == open[Len(open)]
Front(s, n) == SubSeq(s, 1, n)
Greatest(S) == CHOOSE n \in S : \A m \in S : m <= n
IdsOf(decls) == [i \in DOMAIN decls |-> decls[i].id]

EmptyFrame == [decls |-> <<>>, next |-> 0, upvals |-> <<>>, captured |-> {}, vararg |-> FALSE,
               owners |-> {}]

-----------------------------------------------------------------------------
(* frame_declare, frame_declare_global.  A slot is never given out twice.   *)

DeclareLocal(f, name, attrib, id) ==
    [f EXCEPT !.decls = Append(@, [name |-> name, kind |-> "local", slot |-> f.next,
                                   attrib |-> attrib, id |-> id]),
              !.next = @ + 1,
              !.owners = @ \cup {<<f.next, id>>}]

DeclareGlobal(f, name, kind, attrib, id) ==
    [f EXCEPT !.decls = Append(@, [name |-> name, kind |-> kind, slot |-> -1,
                                   attrib |-> attrib, id |-> id])]

-----------------------------------------------------------------------------
(* Name resolution.  frame_search finds the innermost declaration of the    *)
(* name in a frame, resolve_in_frame the innermost frame that has one.      *)

Search(f, name) ==
    LET S == {i \in DOMAIN Decls(f) : Decls(f)[i].kind # "all" /\ Decls(f)[i].name = name}
    IN  IF S = {} THEN 0 ELSE Greatest(S)

OwnerFrame(name) ==
    LET S == {f \in 1..Depth : Search(f, name) # 0} IN IF S = {} THEN 0 ELSE Greatest(S)

Declaration(name) == LET f == OwnerFrame(name) IN Decls(f)[Search(f, name)]

(* FreeNames, after a search that found nothing. *)
Collectives == {c \in (1..Depth) \X (1..MaxLocals) :
                   c[2] \in DOMAIN Decls(c[1]) /\ Decls(c[1])[c[2]].kind = "all"}
InnermostCollective == CHOOSE c \in Collectives :
                          \A d \in Collectives : d[1] < c[1] \/ (d[1] = c[1] /\ d[2] <= c[2])
Voided == \E f \in 1..Depth : \E i \in DOMAIN Decls(f) : Decls(f)[i].kind = "global"

NotDeclared(name) == OwnerFrame(name) = 0 /\ name # EnvName /\ Collectives = {} /\ Voided

FreeIsReadOnly(name) ==
    /\ name # EnvName /\ Collectives # {}
    /\ Decls(InnermostCollective[1])[InnermostCollective[2]].attrib = "const"

(* frame_add_upvalue: the upvalues with this one, and its index. *)
AddUpvalue(uv, src, idx, id) ==
    LET S == {i \in DOMAIN uv : uv[i].src = src /\ uv[i].idx = idx}
    IN  IF S # {} THEN [uv |-> uv, ix |-> CHOOSE i \in S : TRUE]
        ELSE [uv |-> Append(uv, [src |-> src, idx |-> idx, id |-> id]), ix |-> Len(uv) + 1]

(* Every frame takes the slot from its parent, as if that owned it. *)
Chain_direct(owner, d) ==
    LET c[f \in (owner + 1)..Depth] == AddUpvalue(frames[f].upvals, "local", d.slot, d.id)
    IN  c

(* Every frame between the owner of a local and the current one captures it *)
(* from its parent: the owner's local first, then upvalue by upvalue.       *)
Chain(owner, d) ==
    LET c[f \in (owner + 1)..Depth] ==
            IF f = owner + 1 THEN AddUpvalue(frames[f].upvals, "local", d.slot, d.id)
                             ELSE AddUpvalue(frames[f].upvals, "upval", c[f - 1].ix, d.id)
    IN  c

Unbound == [kind |-> "error", idx |-> 0, ro |-> FALSE, id |-> 0, frames |-> frames,
            globals |-> globals]

(* resolve_global: library names first, then the table of globals. *)
AsGlobal(name, ro) ==
    IF name \in Builtins THEN [Unbound EXCEPT !.kind = "builtin", !.ro = ro]
    ELSE IF name \in globals \/ Cardinality(globals) < MaxGlobals
         THEN [Unbound EXCEPT !.kind = "global", !.ro = ro, !.globals = @ \cup {name}]
         ELSE Unbound

(* Marks a local captured only for functions nested directly in its own. *)
AsUpvalue_near(owner, d) ==
    LET c == Chain(owner, d)
    IN  IF \E f \in DOMAIN c : Len(c[f].uv) > MaxUpvals THEN Unbound
        ELSE [Unbound EXCEPT !.kind = "upval", !.idx = c[Depth].ix, !.id = d.id,
                             !.frames = [f \in DOMAIN frames |->
                                 IF f = owner /\ f + 1 = Depth
                                 THEN [frames[f] EXCEPT !.captured = @ \cup {d.slot}]
                                 ELSE IF f > owner THEN [frames[f] EXCEPT !.upvals = c[f].uv]
                                 ELSE frames[f]]]

AsUpvalue(owner, d) ==
    LET c == Chain(owner, d)
    IN  IF \E f \in DOMAIN c : Len(c[f].uv) > MaxUpvals THEN Unbound
        ELSE [Unbound EXCEPT !.kind = "upval", !.idx = c[Depth].ix, !.id = d.id,
                             !.frames = [f \in DOMAIN frames |->
                                 IF f = owner THEN [frames[f] EXCEPT !.captured = @ \cup {d.slot}]
                                 ELSE IF f > owner THEN [frames[f] EXCEPT !.upvals = c[f].uv]
                                 ELSE frames[f]]]

ResolveName(name) ==
    LET o == OwnerFrame(name)
        d == Declaration(name)
    IN  IF NotDeclared(name) THEN Unbound
        ELSE IF o = 0 THEN AsGlobal(name, FreeIsReadOnly(name))
        ELSE IF d.kind = "global" THEN AsGlobal(name, d.attrib = "const")
        ELSE IF o = Depth THEN [Unbound EXCEPT !.kind = "local", !.idx = d.slot, !.id = d.id]
        ELSE AsUpvalue(o, d)

(* frame_local_attrib_by_slot, upval_is_const, check_assignable. *)
AttribBySlot(f, slot) ==
    LET S == {i \in DOMAIN Decls(f) : Decls(f)[i].slot = slot}
    IN  IF S = {} THEN "missing" ELSE Decls(f)[Greatest(S)].attrib

(* The frame and slot that upvalue ix of frame f leads to, in the frames fs. *)
Origin(fs, f, ix) ==
    LET at[g \in 1..f] == IF g = f THEN ix
                          ELSE IF at[g + 1] = 0 \/ fs[g + 1].upvals[at[g + 1]].src = "local" THEN 0
                          ELSE fs[g + 1].upvals[at[g + 1]].idx
        first == CHOOSE g \in 2..f : at[g] # 0 /\ fs[g].upvals[at[g]].src = "local"
    IN  [frame |-> first - 1, slot |-> fs[first].upvals[at[first]].idx]

(* Looks only at the immediate parent. *)
UpvalIsConst_parent(r) ==
    LET u == r.frames[Depth].upvals[r.idx]
    IN  u.src = "local" /\ AttribBySlot(Depth - 1, u.idx) = "const"

UpvalIsConst(r) ==
    LET o == Origin(r.frames, Depth, r.idx) IN AttribBySlot(o.frame, o.slot) = "const"

Assignable(r) ==
    CASE r.kind = "local" -> AttribBySlot(Depth, r.idx) # "const"
      [] r.kind = "upval" -> ~UpvalIsConst(r)
      [] OTHER            -> ~r.ro

-----------------------------------------------------------------------------
Chunk == [kind |-> "chunk", mark |-> 0, labels |-> 0, blk |-> [gotos |-> 0, nact |-> 0],
          fn |-> [labels |-> 0, gotos |-> 0], bid |-> 1]

(* The library tables that parse() enters first are not among the names of  *)
(* the model: MaxGlobals is the room they leave in the table.               *)
Init ==
    /\ frames = <<EmptyFrame>>
    /\ open = <<Chunk>>
    /\ labels = <<>> /\ gotos = <<>>
    /\ blk = Chunk.blk /\ fn = Chunk.fn
    /\ globals = {} /\ funcs = <<>> /\ tail = "free" /\ err = "none"
    /\ nextId = 2 /\ reached = {} /\ assigned = {} /\ jumps = {} /\ seen = {}

Ok == err = "none"
Room(n) == nextId + n <= 2 + IF gotos = <<>> /\ seen = {} THEN MaxNamed ELSE MaxDecls
InBlock == Ok /\ Block.kind # "until" /\ tail # "ends"     \* a statement may come next

(* After the first error parse() gives up what it has built. *)
Discard ==
    /\ frames' = <<EmptyFrame>> /\ open' = <<Chunk>> /\ labels' = <<>> /\ gotos' = <<>>
    /\ blk' = Chunk.blk /\ fn' = Chunk.fn
    /\ globals' = {} /\ funcs' = <<>> /\ tail' = "free"
    /\ nextId' = 2 /\ reached' = {} /\ assigned' = {} /\ seen' = {}
Raise(e) == err' = e /\ jumps' = {} /\ Discard

Reach(r) == reached' = IF r.kind = "upval" THEN reached \cup {r.id} ELSE reached

(* An expression that names a variable (parse_primary). *)
Use(name) ==
    /\ Ok /\ tail # "ends"
    /\ LET r == ResolveName(name)
       IN  \/ r.kind = "error" /\ Raise("name")
           \/ /\ r.kind # "error"
              /\ frames' = r.frames /\ globals' = r.globals /\ Reach(r)
              /\ tail' = "free"
              /\ UNCHANGED <<open, funcs, err, nextId, assigned>> /\ UNCHANGED jumpVars

(* A name as the target of an assignment (parse_ident_stmt). *)
Assign(name) ==
    /\ InBlock
    /\ LET r == ResolveName(name)
       IN  \/ (r.kind = "error" \/ ~Assignable(r)) /\ Raise("assign")
           \/ /\ r.kind # "error" /\ Assignable(r)
              /\ frames' = r.frames /\ globals' = r.globals /\ Reach(r)
              /\ assigned' = assigned \cup ({r.id} \ {0})
              /\ tail' = "free"
              /\ UNCHANGED <<open, funcs, err, nextId>> /\ UNCHANGED jumpVars

(* `local n1 <a1>, n2 <a2> = rhs` (parse_local): the values are resolved    *)
(* before the names are declared; at most one name is to be closed.         *)
Local(ns, as, rhs) ==
    /\ InBlock
    /\ LET r == ResolveName(rhs)
           decl[k \in 0..Len(ns)] == IF k = 0 THEN r.frames[Depth]
                                     ELSE DeclareLocal(decl[k - 1], ns[k], as[k], nextId + k - 1)
       IN  \/ /\ \/ Cardinality({k \in DOMAIN as : as[k] = "close"}) > 1
                 \/ r.kind = "error"
                 \/ Active + Len(ns) > MaxLocals
              /\ Raise("local")
           \/ /\ Cardinality({k \in DOMAIN as : as[k] = "close"}) <= 1
              /\ r.kind # "error"
              /\ Active + Len(ns) <= MaxLocals /\ Room(Len(ns))
              /\ frames' = [r.frames EXCEPT ![Depth] = decl[Len(ns)]]
              /\ globals' = r.globals /\ Reach(r)
              /\ nextId' = nextId + Len(ns) /\ tail' = "free"
              /\ UNCHANGED <<open, funcs, err, assigned>> /\ UNCHANGED jumpVars

(* `global name <a>` and `global *` (parse_global).  A name is entered in   *)
(* the table of globals, and then declared in the scope.                    *)
Global(name, kind, attrib) ==
    /\ InBlock
    /\ LET full == kind = "global" /\ name \notin globals /\ Cardinality(globals) >= MaxGlobals
       IN  \/ (attrib = "close" \/ full \/ Active >= MaxLocals) /\ Raise("global")
           \/ /\ attrib # "close" /\ ~full /\ Active < MaxLocals /\ Room(1)
              /\ frames' = [frames EXCEPT ![Depth] = DeclareGlobal(@, name, kind, attrib, nextId)]
              /\ globals' = IF kind = "global" THEN globals \cup {name} ELSE globals
              /\ nextId' = nextId + 1 /\ tail' = "free"
              /\ UNCHANGED <<open, funcs, err, reached, assigned>> /\ UNCHANGED jumpVars

(* parse_block, on entry and at its end. *)
Enter(kind, mark, active) ==
    /\ open' = Append(open, [kind |-> kind, mark |-> mark, labels |-> Len(labels), blk |-> blk,
                             fn |-> fn, bid |-> nextId'])
    /\ blk' = [gotos |-> Len(gotos), nact |-> active]
    /\ tail' = "free"

Leave == labels' = Front(labels, Block.labels) /\ blk' = Block.blk

(* A pending goto keeps the declarations it had when its block ends. *)
Clamp_none(gs, mark) == gs

(* scope_rewind: a pending goto moves out with its scope. *)
Clamp(gs, mark) == [i \in DOMAIN gs |->
    IF i > fn.gotos /\ gs[i].nact > mark THEN [gs[i] EXCEPT !.nact = mark] ELSE gs[i]]

ScopeRewind(mark) ==
    /\ frames' = [frames EXCEPT ![Depth].decls = Front(@, mark)]
    /\ gotos' = Clamp(gotos, mark)

OpenBlock(kind) ==
    /\ InBlock /\ Len(open) < MaxBlocks
    /\ Room(1) /\ nextId' = nextId + 1
    /\ Enter(kind, Active, Active)
    /\ UNCHANGED <<frames, labels, gotos, fn, globals, funcs, err, reached, assigned, jumps, seen>>

(* parse_for: the control variable is read-only. *)
OpenFor(name) ==
    /\ InBlock /\ Len(open) < MaxBlocks
    /\ \/ Active >= MaxLocals /\ Raise("local")
       \/ /\ Active < MaxLocals /\ Room(1)
          /\ nextId' = nextId + 1
          /\ frames' = [frames EXCEPT ![Depth] = DeclareLocal(@, name, "const", nextId)]
          /\ Enter("do", Active, Active + 1)
          /\ UNCHANGED <<labels, gotos, fn, globals, funcs, err, reached, assigned, jumps, seen>>

(* `end`, `else`, `elseif`: the block's scope ends with it. *)
CloseBlock ==
    /\ Ok /\ tail # "more" /\ Block.kind = "do"
    /\ Leave /\ ScopeRewind(Block.mark)
    /\ open' = Front(open, Len(open) - 1) /\ tail' = "free"
    /\ UNCHANGED <<fn, globals, funcs, err, nextId, reached, assigned, jumps, seen>>

(* `until`: the body's labels are gone, its declarations are not. *)
Until ==
    /\ Ok /\ Block.kind = "repeat"
    /\ Leave
    /\ open' = [open EXCEPT ![Len(open)].kind = "until"] /\ tail' = "free"
    /\ UNCHANGED <<frames, gotos, fn, globals, funcs, err, nextId, reached, assigned, jumps, seen>>

EndUntil ==
    /\ Ok /\ Block.kind = "until"
    /\ ScopeRewind(Block.mark)
    /\ open' = Front(open, Len(open) - 1) /\ tail' = "free"
    /\ UNCHANGED <<labels, blk, fn, globals, funcs, err, nextId, reached, assigned, jumps, seen>>

-----------------------------------------------------------------------------
(* parse_function_body_ex, in the frames fs and with the globals gs left by *)
(* the name of the function, if it has one; it takes ids identities.        *)
FunctionBody(fs, gs, ids, param, vararg, uses, writes) ==
    \/ (Len(funcs) + Depth > MaxFuncs \/ Depth >= MaxDepth) /\ Raise("function")
    \/ /\ Len(funcs) + Depth <= MaxFuncs /\ Depth < MaxDepth
       /\ Len(open) < MaxBlocks /\ Room(ids)
       /\ nextId' = nextId + ids
       /\ LET f == [EmptyFrame EXCEPT !.vararg = vararg # "no"]
              attrib == IF vararg = "named" THEN "const" ELSE "none"
          IN  frames' = Append(fs, DeclareLocal(f, param, attrib, nextId))
       /\ globals' = gs
       /\ reached' = reached \cup uses /\ assigned' = assigned \cup writes
       /\ Enter("function", 0, 1)
       /\ fn' = [labels |-> Len(labels), gotos |-> Len(gotos)]
       /\ UNCHANGED <<labels, gotos, funcs, err, jumps, seen>>

(* A function expression: nothing is resolved or declared outside it. *)
FunctionExpr(param, vararg) ==
    /\ Ok /\ tail # "ends"
    /\ FunctionBody(frames, globals, 1, param, vararg, {}, {})

(* `local function name`, `global function name`: the name is visible in    *)
(* the body (parse_local, parse_global).                                    *)
DeclaredFunction(name, kind, param, vararg) ==
    /\ InBlock
    /\ LET full == kind = "global" /\ name \notin globals /\ Cardinality(globals) >= MaxGlobals
           fr == IF kind = "local" THEN DeclareLocal(Cur, name, "none", nextId + 1)
                                   ELSE DeclareGlobal(Cur, name, "global", "none", nextId + 1)
           gs == IF kind = "global" THEN globals \cup {name} ELSE globals
       IN  \/ (Active >= MaxLocals \/ full) /\ Raise("local")
           \/ /\ Active < MaxLocals /\ ~full
              /\ FunctionBody([frames EXCEPT ![Depth] = fr], gs, 2, param, vararg, {}, {})

(* `function name` assigns the name, `function name.field` only reads it    *)
(* (parse_function_stmt).                                                   *)
FunctionStmt(name, field, param, vararg) ==
    /\ InBlock
    /\ LET r == ResolveName(name)
           fine == r.kind # "error" /\ (field \/ Assignable(r))
       IN  \/ ~fine /\ Raise("assign")
           \/ /\ fine
              /\ FunctionBody(r.frames, r.globals, 1, param, vararg,
                              IF r.kind = "upval" THEN {r.id} ELSE {},
                              IF field THEN {} ELSE {r.id} \ {0})

CloseFunction ==
    /\ Ok /\ tail # "more" /\ Block.kind = "function"
    /\ funcs' = Append(funcs, [upvals |-> Cur.upvals, nlocals |-> Cur.next, captured |-> Cur.captured,
                               owners |-> Cur.owners])
    /\ frames' = Front(frames, Depth - 1)
    /\ Leave
    /\ gotos' = Front(gotos, fn.gotos)      \* what is unmatched is reported by codegen
    /\ fn' = Block.fn
    /\ open' = Front(open, Len(open) - 1) /\ tail' = "free"
    /\ UNCHANGED <<globals, err, nextId, reached, assigned, jumps, seen>>

(* `...` outside a vararg function. *)
Vararg ==
    /\ Ok /\ tail # "ends" /\ ~Cur.vararg
    /\ Raise("vararg")

-----------------------------------------------------------------------------
(* goto and labels.                                                         *)

(* The blocks of the current function that are open. *)
Enclosing == {open[i].bid : i \in {k \in DOMAIN open : \A j \in (k + 1)..Len(open) : open[j].kind # "function"}}

LabelVisible(name) == \E i \in DOMAIN labels : i > fn.labels /\ labels[i].name = name

Goto(name) ==
    /\ InBlock /\ Len(gotos) < MaxGotos
    /\ gotos' = IF LabelVisible(name) THEN gotos
                ELSE Append(gotos, [name |-> name, nact |-> Active, resolved |-> FALSE,
                                    ids |-> IdsOf(Cur.decls),
                                    path |-> Enclosing])
    /\ tail' = "free"
    /\ UNCHANGED <<frames, open, labels, blk, fn, globals, funcs, err, nextId, reached, assigned,
                   jumps, seen>>

(* label_ends_block: do only labels follow in the block?  The answer is a   *)
(* promise that the steps after it keep; `until` never counts as the end.   *)
LabelEnds(ends) ==
    /\ ends => Block.kind # "repeat" /\ tail # "more"
    /\ tail = "ends" => ends

LabelNact(ends) == IF ends THEN blk.nact ELSE Active

Matches(i, name) == i > blk.gotos /\ ~gotos[i].resolved /\ gotos[i].name = name

Label(name, ends) ==
    /\ Ok /\ Block.kind # "until" /\ Cardinality(seen) < MaxLabels /\ LabelEnds(ends)
    /\ LET nact == LabelNact(ends)
           M == {i \in DOMAIN gotos : Matches(i, name)}
           bad == {i \in M : gotos[i].nact < nact}
           scope == IF ends THEN Front(IdsOf(Cur.decls), blk.nact) ELSE IdsOf(Cur.decls)
           jump(i) == [from |-> gotos[i].ids, to |-> scope, path |-> gotos[i].path,
                       bid |-> Block.bid, accepted |-> i \notin bad]
       IN  /\ jumps' = jumps \cup {jump(i) : i \in M}
           /\ \/ bad # {} /\ err' = "jump" /\ Discard
              \/ /\ bad = {}
                 /\ gotos' = [i \in DOMAIN gotos |-> [gotos[i] EXCEPT !.resolved = @ \/ i \in M]]
                 /\ labels' = Append(labels, [name |-> name, nact |-> nact])
                 /\ seen' = seen \cup {<<name, Block.bid>>}
                 /\ tail' = IF Block.kind = "repeat" THEN "free" ELSE IF ends THEN "ends" ELSE "more"
                 /\ UNCHANGED <<frames, open, blk, fn, globals, funcs, err, nextId, reached, assigned>>

Next ==
    \/ \E n \in Names : Use(n) \/ Assign(n) \/ \E field \in BOOLEAN : FunctionStmt(n, field, Param, "no")
    \/ \E l \in Lists, rhs \in Names : Local(l[1], l[2], rhs)
    \/ OpenFor(Param) \/ CloseBlock \/ Until \/ EndUntil \/ CloseFunction \/ Vararg
    \/ \E k \in {"do", "repeat"} : OpenBlock(k)
    \/ \E k \in {"global", "all"}, a \in Attribs : Global(Param, k, a)
    \/ \E k \in {"local", "global"} : DeclaredFunction(Param, k, Param, "no")
    \/ \E v \in {"no", "named"} : FunctionExpr(Param, v)
    \/ \E l \in LabelNames : Goto(l) \/ \E ends \in BOOLEAN : Label(l, ends)

Spec == Init /\ [][Next]_vars

-----------------------------------------------------------------------------
(* The limits of the code hold: MAX_FN_DEPTH frames, MAX_LOCALS_PER_FN      *)
(* active declarations, MAX_UPVALS, the table of globals.                   *)
TypeOK ==
    /\ Depth \in 1..MaxDepth
    /\ \A f \in DOMAIN frames :
          /\ Len(Decls(f)) <= MaxLocals /\ Len(frames[f].upvals) <= MaxUpvals
          /\ \A i \in DOMAIN Decls(f) : Decls(f)[i].slot < frames[f].next
    /\ Cardinality(globals) <= MaxGlobals
    /\ blk.nact \in 0..MaxLocals /\ blk.gotos \in 0..Len(gotos)
    /\ tail \in {"free", "ends", "more"}

(* A slot belongs to one declaration of its function for good, although     *)
(* declarations come and go: codegen's map from slots to functions and the  *)
(* upvalues of closures rely on it (frame_rewind).                          *)
SlotsNeverShared ==
    \A f \in DOMAIN frames : \A a, b \in frames[f].owners : a[1] = b[1] => a = b

(* An upvalue, followed frame by frame to the local where it starts, is the *)
(* variable that the name it was made for denotes, and that local is still  *)
(* in scope.                                                                *)
UpvaluesKeepMeaning ==
    \A f \in 2..Depth : \A i \in DOMAIN frames[f].upvals :
        LET o == Origin(frames, f, i)
        IN  \E k \in DOMAIN Decls(o.frame) :
               Decls(o.frame)[k].slot = o.slot /\ Decls(o.frame)[k].id = frames[f].upvals[i].id

(* captured[s] holds exactly for the slots that some inner function uses,   *)
(* in functions being parsed and in finished ones.                          *)
CapturedExact ==
    LET exact(f) == f.captured = {o[1] : o \in {w \in f.owners : w[2] \in reached}}
    IN  /\ \A f \in DOMAIN frames : exact(frames[f])
        /\ \A i \in DOMAIN funcs : exact(funcs[i])

(* No accepted assignment has a <const> variable as its target, wherever it *)
(* was declared: not through any number of function boundaries either.      *)
ConstsNeverAssigned ==
    \A f \in DOMAIN frames : \A i \in DOMAIN Decls(f) :
        Decls(f)[i].attrib = "const" => Decls(f)[i].id \notin assigned

(* A forward goto is accepted exactly when every declaration in scope at    *)
(* its label was in scope at the goto: counts of active declarations, moved *)
(* as scopes close, decide it as the declarations themselves would.         *)
JumpsEnterNoScope ==
    \A j \in jumps : j.accepted <=>
        Len(j.to) <= Len(j.from) /\ \A i \in DOMAIN j.to : j.to[i] = j.from[i]

(* A goto is matched only with a label of a block that encloses it, and a   *)
(* goto still pending has no such label behind it.                          *)
JumpsSeeTheirLabel ==
    /\ \A j \in jumps : j.bid \in j.path
    /\ \A i \in DOMAIN gotos : gotos[i].resolved \/
                \A s \in seen : ~(s[1] = gotos[i].name /\ s[2] \in gotos[i].path)

(* What the code generator takes from a function: tables within their       *)
(* limits, one variable per slot, and a box for just the captured ones.     *)
FramesExact == TypeOK /\ SlotsNeverShared /\ CapturedExact

(* A goto goes where Lua lets it go: to a visible label, into no scope.      *)
JumpsLegal == JumpsEnterNoScope /\ JumpsSeeTheirLabel
=============================================================================
