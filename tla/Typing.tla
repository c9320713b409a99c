------------------------------- MODULE Typing -------------------------------
(***************************************************************************)
(* The whole-program analyses of the code generator                        *)
(* (src/codegen/analysis.c, run by codegen_module): which local function a *)
(* variable stably names, which parameters and results of a function are   *)
(* numbers of one type, and which captured variables hold only integers.   *)
(* The emitted code reads and writes what they type as raw i64 and f64,    *)
(* without a check.                                                        *)
(*                                                                         *)
(* Abstractions.  A body is the sequence of its statements, those of       *)
(* nested blocks included: every walk of the analyses visits them all.  It *)
(* ends with a return exactly if every path through it does.  An           *)
(* expression is the sequence of its nodes, operands before operators.     *)
(* Operators are the four classes the typing rules tell apart.  "any" is   *)
(* an expression of no numeric type (a field, a string, an unknown call).  *)
(* A slot analysis drops all contradicted slots of a pass at once; the     *)
(* greatest set it settles on does not depend on the order.                *)
(*                                                                         *)
(* A definition named X_y is a faulty variant of X (README, "Mutants").    *)
(***************************************************************************)
EXTENDS Integers, FiniteSets, SequencesExt

CONSTANTS N,        \* functions 1..N; 0 is the main chunk
          Parent,   \* the function a function is nested in
          NParams,  \* its parameters are slots 1..NParams
          NLocals,  \* its slots, parameters first
          Upvals,   \* its upvalues: [src |-> "local" | "upval", idx]
          Vararg,   \* the functions with `...`
          Bodies    \* for each of 0..N, the bodies it may have in a program

Fns == 1..N
All == 0..N
Main == 0
NoFn == -1
NoSeed == <<>>
NumTys == {"any", "int", "float", "unset"}
Local(i) == [k |-> "local", i |-> i]
Up(i) == [k |-> "upval", i |-> i]

ASSUME ShapeAssumption ==
  /\ N \in Nat \ {0} /\ NParams[Main] = 0 /\ Vararg \subseteq Fns
  /\ \A f \in All : NParams[f] \in Nat /\ NLocals[f] \in Nat /\ NParams[f] <= NLocals[f]
  /\ \A f \in Fns : Parent[f] \in 0..(f - 1)
  /\ \A f \in Fns : Len(Upvals[f]) \in Nat /\ \A u \in 1..Len(Upvals[f]) :
       LET up == Upvals[f][u]
       IN  \/ up.src = "local" /\ up.idx \in 1..NLocals[Parent[f]]
           \/ up.src = "upval" /\ Parent[f] # Main /\ up.idx \in 1..Len(Upvals[Parent[f]])

(* What the parser makes: references resolve, operands come first. *)
Vars(f) == {Local(i) : i \in 1..NLocals[f]}
             \cup {Up(u) : u \in IF f = Main THEN {} ELSE 1..Len(Upvals[f])}
IsNode(f, nd, n) ==
  \/ nd.t \in {"int", "float", "any", "fn"}
  \/ nd.t = "var" /\ nd.v \in Vars(f)
  \/ nd.t = "bin" /\ nd.l \in 1..(n - 1) /\ nd.r \in 1..(n - 1)
  \/ nd.t = "call" /\ nd.fn \in Vars(f) /\ nd.args \in Seq(1..(n - 1))
IsExpr(f, e) == Len(e) \in Nat \ {0} /\ \A n \in 1..Len(e) : IsNode(f, e[n], n)
IsStmt(f, s) ==
  /\ s.op \in {"local", "func", "assign", "fornum", "forgen", "return", "expr"}
  /\ s.targets \in Seq(Vars(f))
  /\ Len(s.vals) \in Nat /\ DOMAIN s.vals = 1..Len(s.vals)
  /\ \A j \in 1..Len(s.vals) : IsExpr(f, s.vals[j])
IsCode(f, code) ==
  /\ Len(code) \in Nat /\ DOMAIN code = 1..Len(code)
  /\ \A n \in 1..Len(code) : IsStmt(f, code[n])
ASSUME BodiesAssumption ==
  \A f \in All : Len(Bodies[f]) \in Nat /\ \A n \in 1..Len(Bodies[f]) : IsCode(f, Bodies[f][n])

VARIABLES prog,     \* the program: which of its bodies each function has
          slotFn,   \* bind_slot: the function a slot stably holds, or NoFn
          upFn,     \* bind_upval: the function an upvalue does
          reass,    \* reass_upval: the <<function, upvalue>> assigned to
          ibox,     \* the <<function, slot>> held in an $IBox
          sigs,     \* FuncSig: parameter types, result type, has_site
          phase,    \* what codegen_module runs next
          at,       \* the body the running pass is at
          changed,  \* this round of the fixpoint has changed something
          dropped,  \* ibox_settle has dropped a candidate
          rounds,   \* history: rounds of the running infer_signatures
          tries     \* history: calls of infer_signatures

vars == <<prog, slotFn, upFn, reass, ibox, sigs, phase, at, changed, dropped, rounds, tries>>

Indexes(seq) == [n \in 1..Len(seq) |-> n]
(* Op over a sequence, from the left. *)
Over(Op(_, _), base, seq) ==
  LET acc[n \in 0..Len(seq)] == IF n = 0 THEN base ELSE Op(acc[n - 1], seq[n])
  IN  acc[Len(seq)]

Code(f) == Bodies[f][prog[f]]
Body(f) == ToSet(Code(f))
(* The slots of a function the functions nested in it capture. *)
Captured == [f \in All |-> {i \in 1..NLocals[f] :
  \E g \in Fns : Parent[g] = f /\ [src |-> "local", idx |-> i] \in ToSet(Upvals[g])}]

(* resolve_upval_origin: the <<function, slot>> upvalue u of f comes from. *)
Origin[f \in Fns] ==
  [u \in 1..Len(Upvals[f]) |->
     IF Upvals[f][u].src = "local" THEN <<Parent[f], Upvals[f][u].idx>>
     ELSE Origin[Parent[f]][Upvals[f][u].idx]]
(* The variable a reference in f stands for. *)
Owner(f, v) == IF v.k = "local" THEN <<f, v.i>> ELSE Origin[f][v.i]
-----------------------------------------------------------------------------
(* bind_visit: what a statement binds a slot to. *)
Binds(s, i, g) ==
  /\ s.op = "func" \/ (s.op = "local" /\ Len(s.vals) = Len(s.targets))
  /\ \E j \in 1..Len(s.targets) : s.targets[j] = Local(i) /\ s.vals[j] = <<[t |-> "fn", f |-> g]>>
Assigns(f, v) == \E s \in Body(f) : s.op = "assign" /\ v \in ToSet(s.targets)

(* compute_func_bindings, pass 1: the bindings of each body, those of       *)
(* slots it assigns to dropped, and the upvalues it assigns to.             *)
BindLocals ==
  slotFn' = [f \in All |-> [i \in 1..NLocals[f] |->
               IF ~Assigns(f, Local(i)) /\ \E g \in Fns, s \in Body(f) : Binds(s, i, g)
               THEN CHOOSE g \in Fns : \E s \in Body(f) : Binds(s, i, g) ELSE NoFn]]

Pass1 ==
  /\ phase = "bind locals"
  /\ BindLocals
  /\ reass' = UNION {{<<f, u>> : u \in {v \in 1..Len(Upvals[f]) : Assigns(f, Up(v))}} : f \in Fns}
  /\ phase' = "bind origins"
  /\ UNCHANGED <<prog, upFn, ibox, sigs, at, changed, dropped, rounds, tries>>

Unstable_direct == {<<Parent[r[1]], Upvals[r[1]][r[2]].idx>> :
                      r \in {q \in reass : Upvals[q[1]][q[2]].src = "local"}}
(* Pass 2: what an upvalue assignment makes unstable, at its origin. *)
Unstable == {Origin[r[1]][r[2]] : r \in reass}

Pass2 ==
  /\ phase = "bind origins"
  /\ slotFn' = [f \in All |-> [i \in 1..NLocals[f] |->
                  IF <<f, i>> \in Unstable THEN NoFn ELSE slotFn[f][i]]]
  /\ phase' = "bind upvalues"
  /\ UNCHANGED <<prog, upFn, reass, ibox, sigs, at, changed, dropped, rounds, tries>>

(* ibox_init: every captured local that is not a parameter. *)
Candidates == UNION {{<<f, i>> : i \in {c \in Captured[f] : c > NParams[f]}} : f \in All}

(* infer_signatures: a parameter assigned to or captured is never unboxed;  *)
(* the others wait for a call site, and results start optimistic.           *)
FreshSigs ==
  [f \in Fns |-> [params |-> [i \in 1..NParams[f] |->
                               IF Assigns(f, Local(i)) \/ i \in Captured[f] THEN "any" ELSE "unset"],
                  ret |-> "int", site |-> FALSE]]

StartInference ==
  /\ sigs' = FreshSigs /\ phase' = "infer" /\ at' = 1 /\ changed' = FALSE
  /\ rounds' = 1 /\ tries' = tries + 1

(* Pass 3: upvalues resolve to what their origins stably hold.  Then        *)
(* ibox_init, and the first infer_signatures begins.                        *)
Pass3 ==
  /\ phase = "bind upvalues"
  /\ upFn' = [f \in Fns |-> [u \in 1..Len(Upvals[f]) |->
                LET o == Origin[f][u] IN slotFn[o[1]][o[2]]]]
  /\ ibox' = Candidates
  /\ StartInference
  /\ UNCHANGED <<prog, slotFn, reass, dropped>>
-----------------------------------------------------------------------------
(* is_multival_tail, of a node *)
IsMulti(nd) == nd.t = "call" /\ ~nd.paren

(* A context c: the code c.code of the body of c.f, what its slots and     *)
(* upvalues stably hold, its int and float slots, under the signatures      *)
(* c.sigs and int boxes c.ib.                                               *)

(* direct_call_target: the function the call at node n of e reaches         *)
(* directly, or NoFn: the one a local stably holds, or c.f itself through   *)
(* an upvalue.                                                              *)
DirectTarget(c, e, n) ==
  LET nd == e[n]
      g == IF nd.fn.k = "local" THEN c.slotFn[nd.fn.i] ELSE c.upFn[nd.fn.i]
  IN  IF /\ g # NoFn /\ (nd.fn.k = "upval" => g = c.f)
         /\ g \notin Vararg /\ Len(nd.args) = NParams[g]
         /\ \A j \in 1..Len(nd.args) : ~IsMulti(e[nd.args[j]])
      THEN g ELSE NoFn

(* direct_args_typed_ok: arguments of types tys can be passed as the        *)
(* parameters are typed.                                                    *)
ArgsTyped(params, tys) ==
  \A j \in 1..Len(tys) : /\ params[j] = "int" => tys[j] = "int"
                         /\ params[j] = "float" => tys[j] \in {"int", "float"}

VarTy(c, v) == IF Owner(c.f, v) \in c.ib \/ (v.k = "local" /\ v.i \in c.ints) THEN "int"
               ELSE IF v.k = "local" /\ v.i \in c.floats THEN "float" ELSE "any"

(* expr_is_int and expr_is_float on an operator: "bit" is closed over the   *)
(* integers and is no float operator (// % & | ~), "arith" is one of + - *, *)
(* "div" is /, "other" any other.                                           *)
OpTy(op, l, r) ==
  CASE l = "any" \/ r = "any" \/ op = "other" -> "any"
    [] op = "div" /\ l # "any" /\ r # "any" -> "float"
    [] op \in {"arith", "bit"} /\ l = "int" /\ r = "int" -> "int"
    [] op = "arith" /\ "float" \in {l, r} /\ "any" \notin {l, r} -> "float"
    [] OTHER -> "any"
(* expr_num_ty of node n, from the types of the nodes before it. *)
NodeTy(c, e, n, tys) ==
  LET nd == e[n]
      g == DirectTarget(c, e, n)
  IN  CASE nd.t \in {"int", "float"} -> nd.t
        [] nd.t = "var" -> VarTy(c, nd.v)
        [] nd.t = "bin" -> OpTy(nd.op, tys[nd.l], tys[nd.r])
        [] nd.t = "call" ->
             IF g # NoFn /\ ArgsTyped(c.sigs[g].params, [j \in 1..Len(nd.args) |-> tys[nd.args[j]]])
             THEN c.sigs[g].ret ELSE "any"
        [] OTHER -> "any"
NodeTys(c, e) == LET tys[n \in 1..Len(e)] == NodeTy(c, e, n, tys) IN tys
NumTy(c, e) == NodeTys(c, e)[Len(e)]
IsInt(c, e) == NumTy(c, e) = "int"
HasTy(c, e, ty) == NumTy(c, e) = ty

(* typed_kill_stmt: the store s makes into its target j is one expression   *)
(* of the type.  A <close> variable, a generic for's and a local function   *)
(* are never typed, and of numeric fors only the integer loop's variable.   *)
Keeps(c, s, j, ty) ==
  \/ /\ s.op = "local" /\ j \notin s.close
     /\ Len(s.vals) = Len(s.targets) /\ HasTy(c, s.vals[j], ty)
  \/ /\ s.op = "assign" /\ Len(s.targets) = 1
     /\ Len(s.vals) = 1 /\ HasTy(c, s.vals[1], ty)
  \/ s.op = "fornum" /\ ty = "int" /\ \A n \in 1..Len(s.vals) : IsInt(c, s.vals[n])
Killed(c, slots, ty) ==
  {i \in slots : \E s \in ToSet(c.code) : \E j \in 1..Len(s.targets) :
                   s.targets[j] = Local(i) /\ ~Keeps(c, s, j, ty)}

(* compute_int_slots and compute_float_slots: a pass drops what is          *)
(* contradicted; as many passes as there are slots settle it.               *)
Taking(c, ty, slots) == IF ty = "int" THEN [c EXCEPT !.ints = slots] ELSE [c EXCEPT !.floats = slots]
Pass(c, ty, was) == was \ Killed(Taking(c, ty, was), was, ty)
SlotsLeft(c, ty, start) ==
  LET left[n \in 0..NLocals[c.f]] == IF n = 0 THEN start ELSE Pass(c, ty, left[n - 1])
  IN  left[NLocals[c.f]]

(* A body before its slots are typed. *)
BodyOf(f, sg, ib) ==
  [f |-> f, code |-> Code(f), slotFn |-> slotFn[f], upFn |-> IF f = Main THEN <<>> ELSE upFn[f],
   ints |-> {}, floats |-> {}, sigs |-> sg, ib |-> ib]
(* Parameters are typed as seeded (an undetermined one as an integer),      *)
(* boxed without a seed; captured slots stay boxed.                         *)
Startable(c, seed, tys) ==
  {i \in (1..NLocals[c.f]) \ Captured[c.f] : i > NParams[c.f] \/ (seed # NoSeed /\ seed[i] \in tys)}
Typed(b, seed) ==
  LET c == [b EXCEPT !.ints = SlotsLeft(b, "int", Startable(b, seed, {"int", "unset"}))]
  IN  [c EXCEPT !.floats = SlotsLeft(c, "float", Startable(b, seed, {"float"}) \ c.ints)]
(* The analysed body of f. *)
Context(f, seed, sg, ib) == Typed(BodyOf(f, sg, ib), seed)
-----------------------------------------------------------------------------
(* num_meet *)
NumMeet(a, b) == CASE a = "unset" -> b [] b = "unset" -> a
                   [] a # "unset" /\ b # "unset" -> IF a = b THEN a ELSE "any"

(* infer_sites_visit: the types of a direct call's arguments, one after the  *)
(* other, are met into its callee's parameters.                             *)
MeetArg(c, e, n, g, j) ==
  [c EXCEPT !.sigs[g].params[j] = NumMeet(@, NodeTys(c, e)[e[n].args[j]])]
MeetArgs(c, e, n, g) == Over(LAMBDA a, j : MeetArg(a, e, n, g, j), c, Indexes(e[n].args))
InferSite(c, e, n) ==
  LET g == DirectTarget(c, e, n)
  IN  IF e[n].t # "call" THEN c
      ELSE IF g = NoFn THEN c
      ELSE MeetArgs([c EXCEPT !.sigs[g].site = TRUE], e, n, g)
(* The calls of an expression, inner ones first, of a statement, of a body. *)
InferExpr(c, e) == Over(LAMBDA a, n : InferSite(a, e, n), c, Indexes(e))
InferStmt(c, s) == Over(InferExpr, c, s.vals)
InferSites(c) == Over(InferStmt, c, c.code)

(* compute_ret_ty: the one type of all returned values, if the body cannot  *)
(* end without a return.                                                    *)
MeetReturn(c, ty, s) ==
  IF s.op # "return" THEN ty
  ELSE NumMeet(ty, IF Len(s.vals) = 1 THEN NumTy(c, s.vals[1]) ELSE "any")
MeetReturns(c) == Over(LAMBDA ty, s : MeetReturn(c, ty, s), "unset", c.code)
RetTy(c) == IF Len(c.code) = 0 \/ Last(c.code).op # "return" THEN "any" ELSE MeetReturns(c)

InferStep_reset(f) ==
  LET sg == IF f = Main THEN sigs ELSE [sigs EXCEPT ![f].ret = "int"]
      c == Context(f, IF f = Main THEN NoSeed ELSE sigs[f].params, sg, ibox)
      d == InferSites(c)
      new == IF f = Main THEN d.sigs ELSE [d.sigs EXCEPT ![f].ret = RetTy(d)]
  IN  /\ sigs' = new
      /\ changed' = (changed \/ new # sg)

(* infer_step_body: type the body from the current signatures, narrow its   *)
(* callees' parameters, recompute its own result type.                      *)
InferStep(f) ==
  LET c == Context(f, IF f = Main THEN NoSeed ELSE sigs[f].params, sigs, ibox)
      d == InferSites(c)
      new == IF f = Main THEN d.sigs ELSE [d.sigs EXCEPT ![f].ret = RetTy(d)]
  IN  /\ sigs' = new
      /\ changed' = (changed \/ \E g \in Fns : [new[g] EXCEPT !.site = TRUE]
                                                 # [sigs[g] EXCEPT !.site = TRUE])

(* One body of a round of infer_signatures; the main chunk is the last. *)
InferBody ==
  /\ phase = "infer" /\ at # Main
  /\ InferStep(at)
  /\ at' = IF at = N THEN Main ELSE at + 1
  /\ UNCHANGED <<prog, slotFn, upFn, reass, ibox, phase, dropped, rounds, tries>>
InferMain ==
  /\ phase = "infer" /\ at = Main
  /\ InferStep(Main)
  /\ phase' = "round"
  /\ UNCHANGED <<prog, slotFn, upFn, reass, ibox, at, dropped, rounds, tries>>

Repeat ==
  /\ phase = "round" /\ changed
  /\ phase' = "infer" /\ at' = 1 /\ changed' = FALSE /\ rounds' = rounds + 1
  /\ UNCHANGED <<prog, slotFn, upFn, reass, ibox, sigs, dropped, tries>>

RoundOver == phase = "round" /\ ~changed
(* What no call site reaches, or left undetermined, stays boxed. *)
FinalSig(f) ==
  IF ~sigs[f].site
  THEN [sigs[f] EXCEPT !.params = [i \in 1..NParams[f] |-> "any"], !.ret = "any"]
  ELSE [sigs[f] EXCEPT !.params =
          [i \in 1..NParams[f] |-> IF @[i] = "unset" THEN "any" ELSE @[i]]]

(* The fixpoint is reached.  Int boxes, if there are candidates, are        *)
(* settled next.                                                            *)
Finalize ==
  /\ RoundOver
  /\ sigs' = [f \in Fns |-> FinalSig(f)]
  /\ phase' = (IF Candidates = {} THEN "done" ELSE "settle")
  /\ at' = Main /\ changed' = FALSE /\ dropped' = FALSE
  /\ UNCHANGED <<prog, slotFn, upFn, reass, ibox, rounds, tries>>
-----------------------------------------------------------------------------
(* ibox_check_stmt: the boxes a statement stores something other than one   *)
(* integer into, or declares other than by `local`.                         *)
StoresInt(c, s, j) ==
  \/ s.op = "local" /\ j \notin s.close /\ j <= Len(s.vals) /\ IsInt(c, s.vals[j])
  \/ s.op = "assign" /\ Len(s.targets) = 1 /\ Len(s.vals) = 1 /\ IsInt(c, s.vals[1])
Drop(c, s) ==
  LET lead == IF /\ s.op = "local" /\ s.vals # <<>> /\ Len(s.targets) > Len(s.vals)
                 /\ IsMulti(Last(Last(s.vals)))
              THEN Len(s.vals) - 1 ELSE Len(s.targets)
  IN  [c EXCEPT !.ib = @ \ {Owner(c.f, s.targets[j]) : j \in
         {n \in 1..Len(s.targets) : n > lead \/ ~StoresInt(c, s, n)}}]

DropAll(c, code) == Over(Drop, c, code)
(* ibox_check_body: the boxes left when f's stores, its slots typed from    *)
(* the seed, have been checked.                                             *)
CheckedBody(f, seed, ib) == DropAll(Context(f, seed, sigs, ib), Code(f)).ib

(* The seeds a body is emitted with: none, and its signature if it is       *)
(* called directly (emit_user_functions).                                   *)
Seeds(f) == {NoSeed} \cup (IF f # Main /\ sigs[f].site THEN {sigs[f].params} ELSE {})

Checked_typed(f) ==
  CheckedBody(f, IF f # Main /\ sigs[f].site THEN sigs[f].params ELSE NoSeed, ibox)
Checked(f) ==
  LET ib == CheckedBody(f, NoSeed, ibox)
  IN  IF f # Main /\ sigs[f].site THEN CheckedBody(f, sigs[f].params, ib) ELSE ib

(* One body of a round of ibox_settle, the main chunk first. *)
SettleBody ==
  /\ phase = "settle"
  /\ ibox' = Checked(at)
  /\ changed' = (changed \/ ibox' # ibox)
  /\ dropped' = (dropped \/ ibox' # ibox)
  /\ IF at = N THEN phase' = "settled" /\ UNCHANGED at ELSE at' = at + 1 /\ UNCHANGED phase
  /\ UNCHANGED <<prog, slotFn, upFn, reass, sigs, rounds, tries>>

Resettle ==
  /\ phase = "settled" /\ changed
  /\ phase' = "settle" /\ at' = Main /\ changed' = FALSE
  /\ UNCHANGED <<prog, slotFn, upFn, reass, ibox, sigs, dropped, rounds, tries>>

MustReinfer_never == FALSE
MustReinfer == dropped
(* codegen_module: infer again under the boxes that are left. *)
Reinfer ==
  /\ phase = "settled" /\ ~changed /\ MustReinfer
  /\ StartInference
  /\ UNCHANGED <<prog, slotFn, upFn, reass, ibox, dropped>>

Emit ==
  /\ phase = "settled" /\ ~changed /\ ~MustReinfer
  /\ phase' = "done"
  /\ UNCHANGED <<prog, slotFn, upFn, reass, ibox, sigs, at, changed, dropped, rounds, tries>>

(* Code generation: what the analyses found is only read. *)
Done == phase = "done" /\ UNCHANGED vars
-----------------------------------------------------------------------------
Init ==
  /\ prog \in {p \in [All -> UNION {1..Len(Bodies[f]) : f \in All}] :
                 \A f \in All : p[f] <= Len(Bodies[f])}
  /\ slotFn = [f \in All |-> [i \in 1..NLocals[f] |-> NoFn]]
  /\ upFn = [f \in Fns |-> [u \in 1..Len(Upvals[f]) |-> NoFn]]
  /\ reass = {} /\ ibox = {}
  /\ sigs = [f \in Fns |-> [params |-> [i \in 1..NParams[f] |-> "unset"],
                            ret |-> "any", site |-> FALSE]]
  /\ phase = "bind locals" /\ at = Main /\ changed = FALSE /\ dropped = FALSE
  /\ rounds = 0 /\ tries = 0

Next == Pass1 \/ Pass2 \/ Pass3 \/ InferBody \/ InferMain \/ Repeat \/ Finalize
        \/ SettleBody \/ Resettle \/ Reinfer \/ Emit \/ Done

Spec == Init /\ [][Next]_vars
-----------------------------------------------------------------------------
(* Types; only captured variables that are no parameters are ever held in   *)
(* an int box, and once signatures are final no parameter is undetermined.  *)
TypeOK ==
  /\ \A f \in All : prog[f] \in 1..Len(Bodies[f])
  /\ \A f \in All : slotFn[f] \in [1..NLocals[f] -> Fns \cup {NoFn}]
  /\ ibox \subseteq Candidates
  /\ \A f \in Fns : /\ sigs[f].params \in [1..NParams[f] -> NumTys]
                    /\ sigs[f].ret \in NumTys \ {"unset"}
  /\ phase \in {"bind locals", "bind origins", "bind upvalues", "infer", "round",
                "settle", "settled", "done"}
  /\ at \in All /\ changed \in BOOLEAN /\ dropped \in BOOLEAN
  /\ phase \in {"settle", "settled", "done"} =>
       \A f \in Fns : "unset" \notin {sigs[f].params[i] : i \in 1..NParams[f]}

(* A variable used as a direct-call target is never assigned to, in its own *)
(* function or through an upvalue of any function nested in it: the emitted *)
(* call casts its value and enters $user_N_da without a check.              *)
BindingsStable ==
  phase \notin {"bind locals", "bind origins"} =>
    \A f \in All, g \in All, s \in UNION {Body(h) : h \in All} :
      s \in Body(g) /\ s.op = "assign" =>
        \A j \in 1..Len(s.targets) :
          LET o == Owner(g, s.targets[j])
          IN  o[1] = f => slotFn[f][o[2]] = NoFn

(* In every form a body is emitted in, each store into an int box is an     *)
(* integer under the final signatures ("the stores must be int-typed under  *)
(* both"): emit_ibox_store writes it raw.                                   *)
BoxStoresAreInts ==
  phase = "done" =>
    \A f \in All : \A seed \in Seeds(f), s \in Body(f) :
      LET c == Context(f, seed, sigs, ibox)
      IN  \A j \in 1..Len(s.targets) : Owner(f, s.targets[j]) \in ibox => StoresInt(c, s, j)

(* Every return of a typed entry $user_N_da1 has the entry's result type,   *)
(* under the final int boxes: emit_return_values emits it at that type.     *)
EntriesReturnTheirType ==
  phase = "done" =>
    \A f \in Fns : sigs[f].site /\ sigs[f].ret # "any" =>
      \A s \in Body(f) : s.op = "return" =>
        /\ Len(s.vals) = 1
        /\ HasTy(Context(f, sigs[f].params, sigs, ibox), s.vals[1], sigs[f].ret)

(* The fixpoint is a fixpoint: in the main chunk and in every typed body,   *)
(* each direct-call site can pass its arguments as the callee's parameters  *)
(* are typed, so recursion stays in the typed entries.                      *)
SitesReachTypedEntries ==
  phase = "done" =>
    \A f \in All : f = Main \/ sigs[f].site =>
      LET c == Context(f, IF f = Main THEN NoSeed ELSE sigs[f].params, sigs, ibox)
      IN  \A s \in Body(f) : \A e \in ToSet(s.vals) : \A n \in 1..Len(e) : e[n].t = "call" =>
            LET g == DirectTarget(c, e, n)
            IN  g # NoFn => /\ sigs[g].site
                            /\ ArgsTyped(sigs[g].params,
                                         [j \in 1..Len(e[n].args) |-> NodeTys(c, e)[e[n].args[j]]])

(* The fixpoints end ("so iteration terminates"), although result types    *)
(* are recomputed and may move up, and boxes and signatures are inferred    *)
(* from each other: a parameter narrows at most twice and a result settles  *)
(* after as many changes, and every new inference follows a dropped box.    *)
EndsSoon ==
  /\ rounds <= 1 + Over(LAMBDA k, f : k + 2 * NParams[f] + 2, 0, [f \in 1..N |-> f])
  /\ tries <= 1 + Cardinality(Candidates)

(* Signatures are a fixpoint that typed entries live up to: what a caller    *)
(* passes without a check the entry takes, and what it returns the caller    *)
(* may take without one.                                                    *)
SignaturesHold == TypeOK /\ EntriesReturnTheirType /\ SitesReachTypedEntries
=============================================================================
