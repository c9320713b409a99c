----------------------------- MODULE WatModule -----------------------------
(***************************************************************************)
(* The module level of the assembler (src/wat2wasm.c, assemble): declared   *)
(* types, the fields of the module, index spaces, dead-code elimination,    *)
(* synthesized signatures and the sections of the binary.  The text is any   *)
(* sequence of fields from Types and Fields.  Indices count from zero.       *)
(* Instructions are the ones that refer to something; `who` and `want` are   *)
(* history: the entity itself, where the code has an index.                 *)
(***************************************************************************)
EXTENDS Integers, Sequences, FiniteSets, Functions

CONSTANTS
    Types,      \* type fields: [name, params]
    Fields,     \* the other fields of a module
    NoName,     \* no (type $t), or no $id
    MaxTypes, MaxFields     \* bounds of the search

Variables == UNION {Range(f.params) \cup Range(f.locals) : f \in {x \in Fields : x.kind = "func"}}
Instructions == UNION {Range(f.body) : f \in {x \in Fields : x.kind = "func"}}

(* A signature counts the parameters it was made from; a tag has no other    *)
(* type than its signature (parse_tag).                                     *)
ASSUME WatModuleAssumption ==
    /\ MaxTypes \in Nat /\ MaxFields \in Nat
    /\ \A t \in Types : t.params \in Nat
    /\ \A f \in Fields :
          /\ f.kind \in {"import", "func", "global", "tag", "elem"}
          /\ f.kind = "func" => /\ f.params \in Seq(Variables) /\ f.locals \in Seq(Variables)
                                /\ f.body \in Seq(Instructions) /\ f.export \in BOOLEAN
                                /\ f.type = NoName => f.sig.params = Len(f.params)
          /\ f.kind = "tag" => f.type = NoName

VARIABLES
    dce,        \* the flag given to wat_assemble
    phase,      \* "types", "fields", "mark", "prune", "emit", "done"
    decls,      \* c->decls
    imports, funcs, globals, tags, elems,
    sigs,       \* the table of synthesized signatures
    reach,      \* the entities marked so far, in one index space
    work,       \* the worklist; the code takes the newest, here any
    remap,      \* c->func_remap, c->global_remap, c->sig_remap
    out,        \* the sections
    err

source == <<dce, decls, imports, funcs, globals, tags, elems>>
vars == <<dce, phase, decls, imports, funcs, globals, tags, elems, sigs, reach, work, remap, out, err>>

Least(S) == CHOOSE i \in S : \A j \in S : i <= j
Dropped == -1       \* 0xffffffff
None == -2          \* a name that is not found
NoRemap == [func |-> <<>>, global |-> <<>>, sig |-> <<>>]

-----------------------------------------------------------------------------
(* Index spaces.  resolve_type, resolve_index: the first entry of that name. *)

IndexOf(names, n) ==
    LET S == {i \in DOMAIN names : names[i] = n} IN IF S = {} THEN None ELSE Least(S) - 1

FuncNames == [i \in 1..(Len(imports) + Len(funcs)) |->
                 IF i <= Len(imports) THEN imports[i].id ELSE funcs[i - Len(imports)].id]
AllFuncs == Len(imports) + Len(funcs)
ResolveType(n) == IndexOf([i \in DOMAIN decls |-> decls[i].name], n)
ResolveFunc(n) == IndexOf(FuncNames, n)
ResolveGlobal(n) == IndexOf([i \in DOMAIN globals |-> globals[i].id], n)

(* sig_intern: the table with the signature, and its index. *)
Interned(t, s) == IF s \in Range(t) THEN t ELSE Append(t, s)
SigIndex(t, s) == IndexOf(Interned(t, s), s)

TypeIndex(f) == IF f.type # NoName THEN ResolveType(f.type) ELSE Len(decls) + SigIndex(sigs, f.sig)
Unknown(f) == f.type # NoName /\ ResolveType(f.type) = None
Known(f) == IF f.type = NoName THEN Interned(sigs, f.sig) ELSE sigs

-----------------------------------------------------------------------------
Init ==
    /\ dce \in BOOLEAN /\ phase = "types"
    /\ decls = <<>> /\ imports = <<>> /\ funcs = <<>> /\ globals = <<>> /\ tags = <<>> /\ elems = {}
    /\ sigs = <<>> /\ reach = {} /\ work = {} /\ remap = NoRemap
    /\ out = [kind |-> "none"] /\ err = FALSE

(* A failure is a longjmp to wat_assemble. *)
Fail ==
    /\ err' = TRUE /\ phase' = "done"
    /\ UNCHANGED <<sigs, reach, work, remap, out>> /\ UNCHANGED source

(* Pass A: declared types, alone or in a group (parse_decltype). *)
ReadType(t) ==
    /\ phase = "types" /\ Len(decls) < MaxTypes
    /\ ResolveType(t.name) = None
    /\ decls' = Append(decls, t)
    /\ UNCHANGED <<dce, phase, imports, funcs, globals, tags, elems, sigs, reach, work, remap, out, err>>

EndTypes ==
    /\ phase = "types" /\ phase' = "fields"
    /\ UNCHANGED <<sigs, reach, work, remap, out, err>> /\ UNCHANGED source

(* Pass B, one field.  The names of a text are distinct. *)
NumFields == AllFuncs + Len(globals) + Len(tags) + Cardinality(elems)
Field(f, kind) == phase = "fields" /\ NumFields < MaxFields /\ f.kind = kind

ReadImport(f) ==
    /\ Field(f, "import") /\ ResolveFunc(f.id) = None
    /\ \/ Unknown(f) /\ Fail
       \/ /\ ~Unknown(f)
          /\ imports' = Append(imports, [id |-> f.id, type |-> TypeIndex(f), src |-> f])
          /\ sigs' = Known(f)
          /\ UNCHANGED <<dce, phase, decls, funcs, globals, tags, elems, reach, work, remap, out, err>>

(* parse_func: the locals of a function are its parameters, then its        *)
(* declared locals.  When it names a type and repeats no parameters, entries *)
(* for those are added, after the declared locals.                          *)
Placeholders(f) ==
    IF f.type # NoName /\ f.params = <<>> THEN decls[ResolveType(f.type) + 1].params ELSE 0
(* Puts the declared locals before the parameters. *)
FuncLocals_first(f) ==
    f.locals \o f.params \o [i \in 1..Placeholders(f) |-> [name |-> NoName, type |-> "i32"]]

FuncLocals(f) ==
    f.params \o f.locals \o [i \in 1..Placeholders(f) |-> [name |-> NoName, type |-> "i32"]]

ReadFunc(f) ==
    /\ Field(f, "func") /\ ResolveFunc(f.id) = None
    /\ \/ Unknown(f) /\ Fail
       \/ /\ ~Unknown(f)
          /\ funcs' = Append(funcs, [id |-> f.id, export |-> f.export, type |-> TypeIndex(f),
                                     locals |-> FuncLocals(f),
                                     nparams |-> Len(f.params) + Placeholders(f),
                                     body |-> f.body, src |-> f])
          /\ sigs' = Known(f)
          /\ UNCHANGED <<dce, phase, decls, imports, globals, tags, elems, reach, work, remap, out, err>>

ReadGlobal(f) ==
    /\ Field(f, "global") /\ ResolveGlobal(f.id) = None
    /\ globals' = Append(globals, [id |-> f.id, init |-> f.init, src |-> f])
    /\ UNCHANGED <<dce, phase, decls, imports, funcs, tags, elems, sigs, reach, work, remap, out, err>>

ReadTag(f) ==
    /\ Field(f, "tag") /\ tags = <<>>
    /\ tags' = Append(tags, [type |-> TypeIndex(f), export |-> f.export, src |-> f])
    /\ sigs' = Interned(sigs, f.sig)
    /\ UNCHANGED <<dce, phase, decls, imports, funcs, globals, elems, reach, work, remap, out, err>>

ReadElem(f) ==
    /\ Field(f, "elem")
    /\ elems' = elems \cup {f.func}
    /\ UNCHANGED <<dce, phase, decls, imports, funcs, globals, tags, sigs, reach, work, remap, out, err>>

-----------------------------------------------------------------------------
(* Dead-code elimination.  Entities are functions, then globals, in one      *)
(* index space.                                                             *)

Entities == 0..(AllFuncs + Len(globals) - 1)
Code(e) == IF e < Len(imports) THEN <<>>
           ELSE IF e < AllFuncs THEN funcs[e - Len(imports) + 1].body
           ELSE <<globals[e - AllFuncs + 1].init>>

(* dce_scan: what an instruction refers to. *)
Target(r) ==
    CASE r.op \in {"call", "ref.func"} -> ResolveFunc(r.name)
      [] r.op = "global"               -> IF ResolveGlobal(r.name) = None THEN None
                                          ELSE AllFuncs + ResolveGlobal(r.name)
      [] OTHER                         -> 0
Refers(r) == r.op \in {"call", "ref.func", "global"}
Refs(e) == {Target(r) : r \in {x \in Range(Code(e)) : Refers(x)}}
Roots == {Len(imports) + i - 1 : i \in {j \in DOMAIN funcs : funcs[j].export}}

MarkRoots ==
    /\ phase = "fields" /\ phase' = IF dce THEN "mark" ELSE "prune"
    /\ reach' = IF dce THEN Roots ELSE Entities
    /\ work' = IF dce THEN Roots ELSE {}
    /\ UNCHANGED <<sigs, remap, out, err>> /\ UNCHANGED source

(* Marks what an entity refers to without following it further. *)
Pop_direct(e) ==
    /\ phase = "mark" /\ e \in work
    /\ None \notin Refs(e)
    /\ reach' = reach \cup Refs(e) /\ work' = work \ {e}
    /\ UNCHANGED <<phase, sigs, remap, out, err>> /\ UNCHANGED source

Pop(e) ==
    /\ phase = "mark" /\ e \in work
    /\ \/ None \in Refs(e) /\ Fail
       \/ /\ None \notin Refs(e)
          /\ reach' = reach \cup Refs(e)
          /\ work' = (work \ {e}) \cup (Refs(e) \ reach)
          /\ UNCHANGED <<phase, sigs, remap, out, err>> /\ UNCHANGED source

EndMark ==
    /\ phase = "mark" /\ work = {} /\ phase' = "prune"
    /\ UNCHANGED <<sigs, reach, work, remap, out, err>> /\ UNCHANGED source

(* The survivors are renumbered; imports always survive. *)
Renumber(n, kept) ==
    [i \in 1..n |-> IF i \in kept THEN Cardinality({j \in kept : j < i}) ELSE Dropped]
FuncKept(i) == i <= Len(imports) \/ i - 1 \in reach
GlobalKept(i) == AllFuncs + i - 1 \in reach

(* Signatures: those of block types are interned before the type section is  *)
(* written, whether or not their function survives (prewalk_instr).         *)
NeedsIndex(s) == s.params > 0 \/ s.results > 1
NamesSig(r) == r.op = "block" /\ NeedsIndex(r.sig)
BlockSigs(body) == {r.sig : r \in {x \in Range(body) : NamesSig(x)}}

Prewalk(t, body) ==
    LET at[k \in 0..Len(body)] == IF k = 0 THEN t
                                  ELSE IF NamesSig(body[k]) THEN Interned(at[k - 1], body[k].sig)
                                  ELSE at[k - 1]
    IN  at[Len(body)]
Prewalked ==
    LET all[i \in 0..Len(funcs)] == IF i = 0 THEN sigs ELSE Prewalk(all[i - 1], funcs[i].body)
    IN  all[Len(funcs)]

LiveFuncs == {i \in DOMAIN funcs : FuncKept(Len(imports) + i)}

SigKept(k, t) ==
    LET idx == Len(decls) + k - 1
    IN  \/ ~dce
        \/ \E i \in DOMAIN imports : imports[i].type = idx
        \/ \E i \in DOMAIN tags : tags[i].type = idx
        \/ \E i \in LiveFuncs : \/ funcs[i].type = idx
                                \/ t[k] \in BlockSigs(funcs[i].body)

Prune ==
    /\ phase = "prune" /\ phase' = "emit"
    /\ sigs' = Prewalked
    /\ remap' = [func   |-> Renumber(AllFuncs, {i \in 1..AllFuncs : FuncKept(i)}),
                 global |-> Renumber(Len(globals), {i \in DOMAIN globals : GlobalKept(i)}),
                 sig    |-> Renumber(Len(Prewalked), {k \in DOMAIN Prewalked : SigKept(k, Prewalked)})]
    /\ UNCHANGED <<reach, work, out, err>> /\ UNCHANGED source

-----------------------------------------------------------------------------
(* Emission, with the remaps applied (map_func, map_global, map_typeidx).    *)

MapFunc(i) == remap.func[i + 1]
MapGlobal(i) == remap.global[i + 1]
(* Leaves out the declared types that come first. *)
MapType_unshifted(t) == IF t < Len(decls) THEN t ELSE remap.sig[t - Len(decls) + 1]

MapType(t) == IF t < Len(decls) THEN t ELSE Len(decls) + remap.sig[t - Len(decls) + 1]

ResolveLocal(f, n) == IndexOf([i \in DOMAIN f.locals |-> f.locals[i].name], n)

(* emit_blocktype: nothing, one result, or a type index. *)
BlockType(s) == IF NeedsIndex(s) THEN MapType(Len(decls) + SigIndex(sigs, s)) ELSE Dropped

EncodeInstr(r, f) ==
    [op |-> r.op, want |-> r,
     index |-> CASE r.op \in {"call", "ref.func"} ->
                        IF ResolveFunc(r.name) = None THEN None ELSE MapFunc(ResolveFunc(r.name))
                 [] r.op = "global" ->
                        IF ResolveGlobal(r.name) = None THEN None ELSE MapGlobal(ResolveGlobal(r.name))
                 [] r.op = "local" -> ResolveLocal(f, r.name)
                 [] r.op = "block" -> BlockType(r.sig)
                 [] OTHER -> Dropped]

Kept(s, K) == LET n == Cardinality(K)
                  nth(k) == CHOOSE i \in K : Cardinality({j \in K : j < i}) = k - 1
              IN  [k \in 1..n |-> s[nth(k)]]

(* encode_code: the declared locals as runs of one type, then the body. *)
LocalTypes(f) == [i \in 1..(Len(f.locals) - f.nparams) |-> f.locals[f.nparams + i].type]
Runs(ts) ==
    LET starts == {i \in DOMAIN ts : i = 1 \/ ts[i - 1] # ts[i]}
        stop(i) == IF \E j \in starts : j > i THEN Least({j \in starts : j > i}) ELSE Len(ts) + 1
    IN  Kept([i \in DOMAIN ts |-> [n |-> stop(i) - i, type |-> ts[i]]], {i \in DOMAIN ts : i \in starts})

EncodeCode(f) == [who |-> f.src, locals |-> Runs(LocalTypes(f)),
                  body |-> [k \in DOMAIN f.body |-> EncodeInstr(f.body[k], f)]]

(* The declarative segment: the operands of ref.func, which must be declared *)
(* to be used (collect_reffunc, over folded instructions only), and what the *)
(* text declares.                                                           *)
FoldedRefs(body) == {r.name : r \in {x \in Range(body) : x.op = "ref.func" /\ x.folded}}

(* Leaves out the initializers of globals. *)
DeclaredNames_bodies == elems \cup UNION {FoldedRefs(Code(e)) : e \in 0..(AllFuncs - 1)}

DeclaredNames == elems \cup UNION {FoldedRefs(Code(e)) : e \in Entities}
Declared == {i \in 1..AllFuncs : FuncNames[i] \in DeclaredNames /\ (dce => i - 1 \in reach)}

Undefined == {n \in DeclaredNames : ResolveFunc(n) = None}
GlobalIds == {i \in DOMAIN globals : remap.global[i] # Dropped}
Exported == {i \in DOMAIN funcs : funcs[i].export}

Sections ==
    [kind    |-> "module",
     types   |-> Kept(sigs, {k \in DOMAIN sigs : remap.sig[k] # Dropped}),
     imports |-> [i \in DOMAIN imports |-> [type |-> MapType(imports[i].type), who |-> imports[i].src]],
     funcs   |-> Kept([i \in DOMAIN funcs |-> [type |-> MapType(funcs[i].type), who |-> funcs[i].src]],
                      LiveFuncs),
     tags    |-> [i \in DOMAIN tags |-> [type |-> MapType(tags[i].type), who |-> tags[i].src]],
     globals |-> Kept([i \in DOMAIN globals |-> [init |-> EncodeInstr(globals[i].init, <<>>),
                                                 who |-> globals[i].src]], GlobalIds),
     exports |-> Kept([i \in DOMAIN funcs |-> [index |-> MapFunc(Len(imports) + i - 1),
                                               who |-> funcs[i].src]], Exported),
     elems   |-> Kept([i \in 1..AllFuncs |-> MapFunc(i - 1)], Declared),
     code    |-> Kept([i \in DOMAIN funcs |-> EncodeCode(funcs[i])], LiveFuncs)]

Unresolved(s) ==
    \/ Undefined # {}
    \/ \E i \in DOMAIN s.globals : s.globals[i].init.index = None
    \/ \E i \in DOMAIN s.code : \E k \in DOMAIN s.code[i].body : s.code[i].body[k].index = None

Emit ==
    /\ phase = "emit"
    /\ \/ Unresolved(Sections) /\ Fail
       \/ /\ ~Unresolved(Sections)
          /\ out' = Sections /\ phase' = "done"
          /\ UNCHANGED <<sigs, reach, work, remap, err>> /\ UNCHANGED source

Next ==
    \/ \E t \in Types : ReadType(t)
    \/ EndTypes
    \/ \E f \in Fields : ReadImport(f) \/ ReadFunc(f) \/ ReadGlobal(f) \/ ReadTag(f) \/ ReadElem(f)
    \/ MarkRoots \/ (\E e \in work : Pop(e)) \/ EndMark \/ Prune \/ Emit

Spec == Init /\ [][Next]_vars

-----------------------------------------------------------------------------
(* The reader of the binary: what an index of a section denotes.            *)

Written == phase = "done" /\ ~err
FuncAt(i) == IF i < Len(out.imports) THEN out.imports[i + 1].who ELSE out.funcs[i - Len(out.imports) + 1].who
SpaceSize == Len(out.imports) + Len(out.funcs)
SigAt(t) == IF t < Len(decls) THEN decls[t + 1].name ELSE out.types[t - Len(decls) + 1]
TypeMeant(f) == IF f.type # NoName THEN f.type ELSE f.sig

(* Every variable has its type: marks and work stay within the entities.    *)
TypeOK ==
    /\ phase \in {"types", "fields", "mark", "prune", "emit", "done"}
    /\ reach \subseteq Entities /\ work \subseteq reach
    /\ \A i \in DOMAIN funcs : funcs[i].type \in 0..(Len(decls) + Len(sigs) - 1)
    /\ dce \in BOOLEAN /\ err \in BOOLEAN

(* A set of entities that holds the roots and what its members refer to. *)
ClosedUnderRefs(C) == Roots \subseteq C /\ \A e \in C : Refs(e) \subseteq C

(* What is marked when the worklist runs dry is the least closed set: no     *)
(* code that survives refers to something dropped, and nothing is kept that  *)
(* no exported function leads to.                                           *)
MarksExact ==
    phase \in {"prune", "emit"} /\ dce =>
        /\ ClosedUnderRefs(reach)
        /\ \A C \in SUBSET Entities : ClosedUnderRefs(C) => reach \subseteq C

(* In the binary every reference denotes what its name meant in the text:    *)
(* through imports, removal and renumbering, in bodies, initializers and     *)
(* exports.                                                                 *)
RightEntity(x) ==
    CASE x.op \in {"call", "ref.func"} -> x.index \in 0..(SpaceSize - 1) /\ FuncAt(x.index).id = x.want.name
      [] x.op = "global" -> x.index + 1 \in DOMAIN out.globals /\ out.globals[x.index + 1].who.id = x.want.name
      [] OTHER -> TRUE
ReferencesKeepTheirName ==
    Written =>
        /\ \A i \in DOMAIN out.code : \A k \in DOMAIN out.code[i].body : RightEntity(out.code[i].body[k])
        /\ \A i \in DOMAIN out.globals : RightEntity(out.globals[i].init)
        /\ \A i \in DOMAIN out.exports :
              out.exports[i].index \in 0..(SpaceSize - 1) /\ FuncAt(out.exports[i].index) = out.exports[i].who

(* A type index in the binary denotes the type of its import, function, tag  *)
(* or block in the text, although dead signatures are removed from the end  *)
(* of the index space; and every function has its own code.                 *)
TypesKept ==
    Written =>
        /\ \A s \in {out.imports, out.funcs, out.tags} : \A i \in DOMAIN s :
              /\ s[i].type \in 0..(Len(decls) + Len(out.types) - 1)
              /\ SigAt(s[i].type) = TypeMeant(s[i].who)
        /\ \A i \in DOMAIN out.code : \A k \in DOMAIN out.code[i].body :
              LET instr == out.code[i].body[k]
              IN  instr.op = "block" /\ NeedsIndex(instr.want.sig) =>
                      /\ instr.index \in 0..(Len(decls) + Len(out.types) - 1)
                      /\ SigAt(instr.index) = instr.want.sig
        /\ Len(out.code) = Len(out.funcs)
        /\ \A i \in DOMAIN out.code : out.code[i].who = out.funcs[i].who

(* The local a name means is at the index the instruction has: parameters    *)
(* of the function's type first, then the runs of declared locals.          *)
ParamCount(f) == IF f.type # NoName THEN (CHOOSE d \in Range(decls) : d.name = f.type).params ELSE f.sig.params
Expanded(runs) ==
    LET at[k \in 0..Len(runs)] == IF k = 0 THEN <<>>
                                  ELSE at[k - 1] \o [j \in 1..runs[k].n |-> runs[k].type]
    IN  at[Len(runs)]
LocalsKeepTheirPlace ==
    Written => \A i \in DOMAIN out.code :
        LET c == out.code[i]
            np == ParamCount(c.who)
        IN  /\ Expanded(c.locals) = [j \in DOMAIN c.who.locals |-> c.who.locals[j].type]
            /\ \A k \in DOMAIN c.body : c.body[k].op = "local" =>
                  LET n == c.body[k].want.name
                      at == c.body[k].index + 1
                  IN  \/ at \in DOMAIN c.who.params /\ c.who.params[at].name = n
                      \/ at - np \in DOMAIN c.who.locals /\ c.who.locals[at - np].name = n

(* Every operand of ref.func in the binary is declared, as validation asks,  *)
(* and nothing that was dropped is.                                         *)
RefFuncsDeclared ==
    Written =>
        /\ \A i \in DOMAIN out.code : \A k \in DOMAIN out.code[i].body :
              out.code[i].body[k].op = "ref.func" => out.code[i].body[k].index \in Range(out.elems)
        /\ \A i \in DOMAIN out.globals :
              out.globals[i].init.op = "ref.func" => out.globals[i].init.index \in Range(out.elems)
        /\ \A i \in DOMAIN out.elems : out.elems[i] \in 0..(SpaceSize - 1)

(* The indices of the binary are right and may be used where they are.      *)
ReferencesExact == TypeOK /\ ReferencesKeepTheirName /\ RefFuncsDeclared
=============================================================================
