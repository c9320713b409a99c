-------------------------------- MODULE Calls --------------------------------
(***************************************************************************)
(* Calls, errors and to-be-closed variables of a running program: the      *)
(* call-frame stack and its budget (runtime/prelude/calls.wat), raising an *)
(* error and running the message handler (errors.wat), pcall and xpcall    *)
(* (baselib.wat), <close> variables (control.wat) and the code generated   *)
(* for calls and for functions with <close> variables (src/codegen).       *)
(*                                                                         *)
(* stack is the engine's stack, bottom first: activations of Lua functions *)
(* ("fn", the main chunk first), of $protected_call ("pcall"), of $raised  *)
(* while it runs a message handler ("handler") and of $close_upto          *)
(* ("closing").  An error in flight unwinds it one activation at a time.   *)
(*                                                                         *)
(* Abstractions.  A program is any sequence of the operations below.  An   *)
(* error value is its origin and how often a message handler has replaced  *)
(* it.  pcall and xpcall are called with a frame of their own, and message *)
(* handlers are Lua functions.  Source lines, and the growing of the frame *)
(* arrays, are left out.                                                   *)
(*                                                                         *)
(* A definition named X_y is a faulty variant of X, as in TableParts.      *)
(***************************************************************************)
EXTENDS Integers, Sequences, FiniteSets

CONSTANTS Budget,     \* $stack_budget (819200)
          Headroom,   \* $stack_headroom (65536)
          MaxNest,    \* $msgh_max_nest (20)
          Weights,    \* $weight of the closures that are called with a frame
          Frameless,  \* weights of functions called without one
          Handlers,   \* functions given to xpcall; {} when there are none
          NoHandler,  \* $msgh is null
          Errors,     \* error values a program raises
          MaxVars,    \* bound: <close> values per activation; 0 for none
          MaxStack    \* bound: activations

ASSUME BudgetAssumption == Budget \in Nat /\ Headroom \in Nat /\ MaxNest \in Nat \ {0}
ASSUME WeightsAssumption == Weights \subseteq Nat /\ Frameless \subseteq Nat
ASSUME HandlersAssumption == NoHandler \notin Handlers
ASSUME BoundsAssumption == MaxVars \in Nat /\ MaxStack \in Nat \ {0}
(* Two functions fit in the headroom. *)
ASSUME HeadroomAssumption == \A v, w \in Weights : v + w <= Headroom

VARIABLES stack,    \* the activations
          depth,    \* $call_depth
          weights,  \* $call_weights
          cost,     \* $stack_cost
          msgh,     \* $msgh
          nest,     \* $msgh_nest
          err,      \* the error in flight, or NoErr
          newest    \* history: the error raised last inside the innermost pcall

vars == <<stack, depth, weights, cost, msgh, nest, err, newest>>

NoErr == [v |-> "none", handled |-> 0]
Raised(v) == [v |-> v, handled |-> 0]
Overflow == "stack overflow"
ErrorInHandling == "error in error handling"
(* What a program raises is told apart from no error and from the error the  *)
(* runtime puts in place of one.                                            *)
ASSUME ErrorsAssumption == "none" \notin Errors /\ ErrorInHandling \notin Errors

(* An activation of a Lua function: closes says that it has <close>         *)
(* variables, and so a catch, which starts over from the depth and cost at  *)
(* entry.  open is its $Tbc stack (0 for nil and false, which are never     *)
(* closed); decl and closed are history.                                    *)
Fn(w, framed, closes, d, c) ==
  [kind |-> "fn", w |-> w, framed |-> framed, closes |-> closes,
   depth |-> d, cost |-> c, open |-> <<>>, decl |-> 0, closed |-> <<>>]

Protected(w, h, d, c) ==
  [kind |-> "pcall", w |-> w, h |-> h, depth |-> d, cost |-> c,
   msgh |-> msgh, nest |-> nest, newest |-> newest]

Handling(outer, e) == [kind |-> "handler", outer |-> outer, arg |-> e]

Closing(target, pending, d, c, unwinding) ==
  [kind |-> "closing", target |-> target, pending |-> pending,
   depth |-> d, cost |-> c, unwinding |-> unwinding]

Top == stack[Len(stack)]
Under == stack[Len(stack) - 1]
Dropped(n) == SubSeq(stack, 1, Len(stack) - n)
Lent(outer) == IF outer THEN Headroom ELSE 0

Running(kind) == err = NoErr /\ stack # <<>> /\ Top.kind = kind
Unwinding(kind) == err # NoErr /\ stack # <<>> /\ Top.kind = kind
-----------------------------------------------------------------------------
(* throw $LuaError (call $raised v), from activations st at depth d and     *)
(* cost c: the message handler is about to run, with headroom when it is    *)
(* the outermost one, or the error is in flight.                            *)
Raise(st, d, c, v) ==
  /\ depth' = d
  /\ IF msgh # NoHandler /\ nest < MaxNest
     THEN /\ nest' = nest + 1
          /\ cost' = c - Lent(nest = 0)
          /\ stack' = Append(st, Handling(nest = 0, Raised(v)))
          /\ newest' = v
          /\ UNCHANGED err
     ELSE /\ newest' = IF msgh = NoHandler THEN v ELSE ErrorInHandling
          /\ err' = Raised(newest')
          /\ stack' = st /\ cost' = c /\ UNCHANGED nest
  /\ UNCHANGED msgh

(* $push_call_frame and the call: the weight is charged before it is        *)
(* checked, and stays charged when the call is refused.                     *)
Push(st, d, c, w, act, h) ==
  /\ Len(st) < MaxStack
  /\ IF c + w > Budget
     THEN Raise(st, d, c + w, Overflow) /\ UNCHANGED weights
     ELSE /\ stack' = Append(st, act)
          /\ depth' = d + 1
          /\ weights' = [weights EXCEPT ![d + 1] = w]
          /\ cost' = c + w
          /\ msgh' = h
          /\ newest' = IF act.kind = "pcall" THEN "none" ELSE newest
          /\ UNCHANGED <<nest, err>>

(* A framed call of a Lua function. *)
Enter(st, d, c, w, closes) == Push(st, d, c, w, Fn(w, TRUE, closes, d + 1, c + w), msgh)

Closers == IF MaxVars = 0 THEN {FALSE} ELSE BOOLEAN
-----------------------------------------------------------------------------
(* What a Lua function may do. *)

(* A call through $lua_call1 or $lua_call_any. *)
Call(w, closes) == Running("fn") /\ Enter(stack, depth, cost, w, closes)

(* Calls that push no frame: direct calls of a known function ($user_N_da), *)
(* metamethods and library callbacks ($call_mm1, $lua_call).                *)
CallFrameless(w, closes) ==
  /\ Running("fn") /\ Len(stack) < MaxStack
  /\ stack' = Append(stack, Fn(w, FALSE, closes, depth, cost))
  /\ UNCHANGED <<depth, weights, cost, msgh, nest, err, newest>>

(* `return f(...)`: $replace_top_call_frame, then return_call_ref.  The top *)
(* frame is the caller's caller's when the function has none of its own.    *)
TailCall(w, closes) ==
  LET c == IF depth = 0 THEN cost ELSE cost - weights[depth] + w
  IN  /\ Running("fn") /\ Len(stack) > 1 /\ Top.open = <<>>
      /\ weights' = IF depth = 0 THEN weights ELSE [weights EXCEPT ![depth] = w]
      /\ \/ /\ depth > 0 /\ c > Budget
            /\ Raise(stack, depth, c, Overflow)
         \/ /\ depth > 0 => c <= Budget
            /\ stack' = Append(Dropped(1), Fn(w, Top.framed, closes, depth, c))
            /\ cost' = c
            /\ UNCHANGED <<depth, msgh, nest, err, newest>>

(* error(v), assert, or an operation that raises. *)
Error(v) == /\ Running("fn")
            /\ Raise(stack, depth, cost, v)
            /\ UNCHANGED weights

(* local x <close> = v ($tbc_push); v is closable, or nil or false. *)
Declare(closable) ==
  /\ Running("fn") /\ Top.closes
  /\ Len(Top.open) < MaxVars /\ (closable => Top.decl < MaxVars)
  /\ LET n == IF closable THEN Top.decl + 1 ELSE Top.decl
     IN  stack' = [stack EXCEPT ![Len(stack)].decl = n,
                                ![Len(stack)].open = Append(@, IF closable THEN n ELSE 0)]
  /\ UNCHANGED <<depth, weights, cost, msgh, nest, err, newest>>

(* A block, loop, goto or return leaves the scope of the values above       *)
(* target: emit_close_upto with no error.                                   *)
LeaveScope(target) ==
  /\ Running("fn") /\ target < Len(Top.open)
  /\ stack' = Append(stack, Closing(target, NoErr, depth, cost, FALSE))
  /\ UNCHANGED <<depth, weights, cost, msgh, nest, err, newest>>

(* pcall (NoHandler) or xpcall, itself called with a frame. *)
Pcall(w, h) ==
  Running("fn") /\ Push(stack, depth, cost, w, Protected(w, h, depth + 1, cost + w), h)

(* Its callee: a function, or a value that cannot be called. *)
CallProtected(w, closes) == Running("pcall") /\ Enter(stack, depth, cost, w, closes)
CallsNoFunction(v) == /\ Running("pcall")
                      /\ Raise(stack, depth, cost, v)
                      /\ UNCHANGED weights

(* $raised calls the message handler. *)
CallHandler(w, closes) == Running("handler") /\ Enter(stack, depth, cost, w, closes)
-----------------------------------------------------------------------------
(* A function returns.  $pop_call_frame: *)
PopDepth == IF Top.framed THEN depth - 1 ELSE depth
PopCost == IF Top.framed THEN cost - weights[depth] ELSE cost

(* to Lua code, or to $close_upto; *)
Return ==
  /\ Running("fn") /\ Top.open = <<>>
  /\ Len(stack) > 1 => Under.kind \in {"fn", "closing"}
  /\ stack' = Dropped(1)
  /\ depth' = PopDepth /\ cost' = PopCost
  /\ UNCHANGED <<weights, msgh, nest, err, newest>>

ReturnToPcall_keepsHandler ==
  /\ Running("fn") /\ Top.open = <<>> /\ Len(stack) > 1 /\ Under.kind = "pcall"
  /\ stack' = Dropped(2)
  /\ newest' = Under.newest
  /\ depth' = PopDepth - 1
  /\ cost' = PopCost - weights[PopDepth]
  /\ UNCHANGED <<weights, msgh, nest, err>>

(* to $protected_call, which reinstalls the handler it found and returns    *)
(* in turn;                                                                 *)
ReturnToPcall ==
  /\ Running("fn") /\ Top.open = <<>> /\ Len(stack) > 1 /\ Under.kind = "pcall"
  /\ stack' = Dropped(2)
  /\ msgh' = Under.msgh
  /\ newest' = Under.newest
  /\ depth' = PopDepth - 1
  /\ cost' = PopCost - weights[PopDepth]
  /\ UNCHANGED <<weights, nest, err>>

(* or to $raised, with the value the error now carries.                     *)
ReturnToRaised ==
  /\ Running("fn") /\ Top.open = <<>> /\ Len(stack) > 1 /\ Under.kind = "handler"
  /\ stack' = Dropped(2)
  /\ nest' = nest - 1
  /\ depth' = PopDepth
  /\ cost' = PopCost + Lent(Under.outer)
  /\ err' = [Under.arg EXCEPT !.handled = @ + 1]
  /\ UNCHANGED <<weights, msgh, newest>>
-----------------------------------------------------------------------------
(* $close_upto, for the function under it. *)
NextOpen == Under.open[Len(Under.open)]
Popped(k) == [stack EXCEPT ![Len(stack) - 1].open = SubSeq(@, 1, Len(@) - 1),
                           ![Len(stack) - 1].closed = IF k = 0 THEN @ ELSE Append(@, k)]

(* The value is off the list before its __close is called; depth and cost   *)
(* are those found on entry, less the headroom on an unwind.                *)
CloseNext(w, closes) ==
  /\ Running("closing") /\ Len(Under.open) > Top.target /\ NextOpen # 0
  /\ Enter(Popped(NextOpen), Top.depth, Top.cost, w, closes)

(* __close is no longer callable. *)
CloseFails(v) ==
  /\ Running("closing") /\ Len(Under.open) > Top.target /\ NextOpen # 0
  /\ Raise(Popped(NextOpen), Top.depth, Top.cost, v)
  /\ UNCHANGED weights

CloseSkips ==
  /\ Running("closing") /\ Len(Under.open) > Top.target /\ NextOpen = 0
  /\ stack' = Popped(0)
  /\ UNCHANGED <<depth, weights, cost, msgh, nest, err, newest>>

(* Rethrow what is pending: in the function's body after a normal exit, out *)
(* of the function on an unwind.                                            *)
CloseDone ==
  /\ Running("closing") /\ Len(Under.open) <= Top.target
  /\ stack' = Dropped(IF Top.unwinding THEN 2 ELSE 1)
  /\ depth' = Top.depth /\ cost' = Top.cost
  /\ err' = Top.pending
  /\ UNCHANGED <<weights, msgh, nest, newest>>
-----------------------------------------------------------------------------
(* An error in flight passes a function without a catch; *)
UnwindFn ==
  /\ Unwinding("fn") /\ ~Top.closes
  /\ stack' = Dropped(1)
  /\ UNCHANGED <<depth, weights, cost, msgh, nest, err, newest>>

CatchInFn_noHeadroom ==
  /\ Unwinding("fn") /\ Top.closes
  /\ depth' = Top.depth /\ cost' = Top.cost
  /\ stack' = Append(stack, Closing(0, err, Top.depth, Top.cost, TRUE))
  /\ err' = NoErr
  /\ UNCHANGED <<weights, msgh, nest, newest>>

(* the catch of one with <close> variables (emit_close_body) goes back to   *)
(* the depth and cost at entry, and $close_upto lends headroom;             *)
CatchInFn ==
  /\ Unwinding("fn") /\ Top.closes
  /\ depth' = Top.depth /\ cost' = Top.cost
  /\ stack' = Append(stack, Closing(0, err, Top.depth, Top.cost - Headroom, TRUE))
  /\ err' = NoErr
  /\ UNCHANGED <<weights, msgh, nest, newest>>

CatchInClose_keepsFirst ==
  /\ Unwinding("closing")
  /\ stack' = [stack EXCEPT ![Len(stack)].pending = IF @ = NoErr THEN err ELSE @]
  /\ err' = NoErr
  /\ UNCHANGED <<depth, weights, cost, msgh, nest, newest>>

CatchInClose_passesOn ==
  /\ Unwinding("closing")
  /\ stack' = Dropped(IF Top.unwinding THEN 2 ELSE 1)
  /\ UNCHANGED <<depth, weights, cost, msgh, nest, err, newest>>

(* $close_upto keeps it for the values still to close;                      *)
CatchInClose ==
  /\ Unwinding("closing")
  /\ stack' = [stack EXCEPT ![Len(stack)].pending = err]
  /\ err' = NoErr
  /\ UNCHANGED <<depth, weights, cost, msgh, nest, newest>>

(* $raised takes back its headroom and rethrows;                            *)
HandlerRaised ==
  /\ Unwinding("handler")
  /\ stack' = Dropped(1)
  /\ nest' = nest - 1
  /\ cost' = cost + Lent(Top.outer)
  /\ UNCHANGED <<depth, weights, msgh, err, newest>>

CatchInPcall_keepsCost ==
  /\ Unwinding("pcall")
  /\ stack' = Dropped(1)
  /\ depth' = Top.depth - 1
  /\ cost' = cost - weights[Top.depth]
  /\ msgh' = Top.msgh /\ nest' = Top.nest /\ newest' = Top.newest
  /\ err' = NoErr
  /\ UNCHANGED weights

(* $protected_call restores what it saved and returns (false, err).         *)
CatchInPcall ==
  /\ Unwinding("pcall")
  /\ stack' = Dropped(1)
  /\ depth' = Top.depth - 1
  /\ cost' = Top.cost - weights[Top.depth]
  /\ msgh' = Top.msgh /\ nest' = Top.nest /\ newest' = Top.newest
  /\ err' = NoErr
  /\ UNCHANGED weights
-----------------------------------------------------------------------------
Init ==
  /\ \E closes \in Closers : stack = <<Fn(0, FALSE, closes, 0, 0)>>
  /\ depth = 0 /\ cost = 0
  /\ weights = [i \in 1..MaxStack |-> 0]
  /\ msgh = NoHandler /\ nest = 0
  /\ err = NoErr /\ newest = "none"

Next ==
  \/ \E w \in Weights, closes \in Closers :
        \/ Call(w, closes) \/ TailCall(w, closes)
        \/ CallProtected(w, closes) \/ CallHandler(w, closes)
        \/ CloseNext(w, closes)
  \/ \E w \in Frameless, closes \in Closers : CallFrameless(w, closes)
  \/ \E v \in Errors : Error(v) \/ CallsNoFunction(v) \/ CloseFails(v)
  \/ \E closable \in BOOLEAN : Declare(closable)
  \/ \E target \in 0..(MaxVars - 1) : LeaveScope(target)
  \/ \E w \in Weights, h \in Handlers \cup {NoHandler} : Pcall(w, h)
  \/ Return \/ ReturnToPcall \/ ReturnToRaised
  \/ CloseSkips \/ CloseDone
  \/ UnwindFn \/ CatchInFn \/ CatchInClose \/ HandlerRaised \/ CatchInPcall

Spec == Init /\ [][Next]_vars
-----------------------------------------------------------------------------
ErrVals == Errors \cup {Overflow, ErrorInHandling, "none"}
ErrRec == [v : ErrVals, handled : Nat]
FnRec == [kind : {"fn"}, w : Nat, framed : BOOLEAN, closes : BOOLEAN, depth : Nat, cost : Int,
          open : Seq(0..MaxVars), decl : 0..MaxVars, closed : Seq(1..MaxVars)]
PcallRec == [kind : {"pcall"}, w : Nat, h : Handlers \cup {NoHandler}, depth : Nat, cost : Int,
             msgh : Handlers \cup {NoHandler}, nest : Nat, newest : ErrVals]
HandlerRec == [kind : {"handler"}, outer : BOOLEAN, arg : ErrRec]
ClosingRec == [kind : {"closing"}, target : Nat, pending : ErrRec, depth : Nat, cost : Int,
               unwinding : BOOLEAN]

(* Types; $close_upto runs for a function with <close> variables. *)
TypeOK ==
  /\ stack \in Seq(FnRec \cup PcallRec \cup HandlerRec \cup ClosingRec)
  /\ depth \in 0..MaxStack
  /\ weights \in [1..MaxStack -> Nat]
  /\ cost \in Int
  /\ msgh \in Handlers \cup {NoHandler}
  /\ nest \in 0..MaxNest
  /\ err \in ErrRec
  /\ newest \in ErrVals
  /\ \A i \in 1..Len(stack) : stack[i].kind = "closing" =>
        i > 1 /\ stack[i - 1].kind = "fn" /\ stack[i - 1].closes

(* The positions of the activations of a kind. *)
At(kind) == {i \in 1..Len(stack) : stack[i].kind = kind}
MaxOf(S) == CHOOSE i \in S : \A j \in S : j <= i

(* The installed message handler is the innermost protected call's, and the *)
(* nesting is the number of handler calls in progress, whatever errors have *)
(* left handlers, closes and protected calls on the way.                    *)
HandlerStateMatches ==
  /\ msgh = IF At("pcall") = {} THEN NoHandler ELSE stack[MaxOf(At("pcall"))].h
  /\ nest = Cardinality(At("handler"))

(* The frames that are there, their weights, and the headroom on loan. *)
Framed == {i \in 1..Len(stack) : \/ stack[i].kind = "pcall"
                                 \/ stack[i].kind = "fn" /\ stack[i].framed}
Weighing(S) ==
  LET sum[i \in 0..Len(stack)] ==
        IF i = 0 THEN 0 ELSE sum[i - 1] + (IF i \in S THEN stack[i].w ELSE 0)
  IN  sum[Len(stack)]
OnLoan == Headroom * Cardinality({i \in 1..Len(stack) :
            \/ stack[i].kind = "handler" /\ stack[i].outer
            \/ stack[i].kind = "closing" /\ stack[i].unwinding})

(* Whenever Lua code runs, the depth is the number of frames and the cost   *)
(* covers their weights, less the headroom lent; exactly so when no message *)
(* handler is running (a refused call stays charged while one is).          *)
CostCoversFrames ==
  Running("fn") =>
     /\ depth = Cardinality(Framed)
     /\ Weighing(Framed) <= cost + OnLoan
     /\ At("handler") = {} => Weighing(Framed) = cost + OnLoan

(* "So they still run after a stack overflow": the outermost message        *)
(* handler and the __close calls of an unwind are never refused a frame.    *)
ExtraRoomSuffices ==
  /\ Running("handler") /\ Top.outer => \A w \in Weights : cost + w <= Budget
  /\ Running("closing") /\ Top.unwinding => \A w \in Weights : Top.cost + w <= Budget

(* An error in flight under an xpcall has been through its message handler  *)
(* exactly once, however many functions, closes and handlers it has passed; *)
(* under a pcall it has been through none.                                  *)
HandledOnce ==
  err # NoErr =>
     err.handled = IF msgh = NoHandler \/ err.v = ErrorInHandling THEN 0 ELSE 1

(* "A later close sees the newest error and the newest error is what        *)
(* finally (re)propagates."                                                 *)
NewestErrorWins ==
  /\ err # NoErr => err.v = newest
  /\ Running("closing") /\ Top.unwinding => Top.pending.v = newest

(* "Each var is closed exactly once": no __close is called twice, and a     *)
(* declared value is either closed or still to be.                          *)
ClosedOnce ==
  /\ \A i \in At("fn") : \A j, k \in 1..Len(stack[i].closed) :
        stack[i].closed[j] = stack[i].closed[k] => j = k
  /\ \A i \in At("fn") : \A n \in 1..stack[i].decl :
        \/ \E j \in 1..Len(stack[i].open) : stack[i].open[j] = n
        \/ \E j \in 1..Len(stack[i].closed) : stack[i].closed[j] = n

(* Every error meets the handler of the innermost protected call, and meets *)
(* it once, across nested handlers, closes, tail calls and overflows.       *)
HandlersRight == TypeOK /\ HandlerStateMatches /\ HandledOnce

(* The <close> protocol: each variable once, the newest error last.         *)
ClosesRight == ClosedOnce /\ NewestErrorWins

(* A function is left, by return or by error, only when every closable value *)
(* it declared has been closed ("each var is closed exactly once").         *)
LeftClosed ==
  [][\A i \in At("fn") : i > Len(stack') =>
        {stack[i].closed[j] : j \in 1..Len(stack[i].closed)} = 1..stack[i].decl]_vars
=============================================================================
