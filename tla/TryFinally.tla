------------------------------ MODULE TryFinally ------------------------------
(***************************************************************************)
(* try / catch / finally: how a function body is lowered to basic blocks   *)
(* (compiler/middle/mir/lowering.rs), where the generated code saves and   *)
(* drops exception handlers (backend/codegen/func.rs, inst.rs), and what   *)
(* the blocks then do with the thread's stack of handlers                  *)
(* (runtime/core/lib.rs).                                                  *)
(*                                                                         *)
(* Expressions are left out.  A condition, and whether a call throws, is a *)
(* choice the run makes and remembers, so that the same choices can be     *)
(* given to the meaning of the source.  The function is called from inside *)
(* a try block of its caller: the handler at the bottom of the stack.      *)
(***************************************************************************)
EXTENDS Naturals, SequencesExt

CONSTANTS
  Bodies,       \* the function bodies
  MaxChoices    \* bound: choices made in a run; the later ones are FALSE

VARIABLES
  source,     \* the body being run
  code,       \* what it is compiled to: blocks, where handlers are pushed, finallys
  place,      \* block and instruction
  handlers,   \* EXCEPTION_STACK: the block each handler leads to, 0 in the caller
  exc,        \* CURRENT_EXCEPTION
  local,      \* the variables is_unwinding and saved_ex of each finally
  choices,    \* the choices made so far
  trace,      \* what has been printed
  outcome     \* how the function has ended

tryVars == <<source, code, place, handlers, exc, local, choices, trace, outcome>>

None == [is |-> "none"]

---------------------------------------------------------------------------
(* Lowering.  L is the state of MIRLowering: the blocks so far, the current *)
(* one, and its stacks of loops, handlers and pending finally blocks.       *)

Terminators == {"return", "jump", "branch", "unwinding?", "throw", "rethrow"}

Code(L) == L.blocks[L.cur].code
Handler(L) == L.blocks[L.cur].handler
Terminated(L) == Code(L) # <<>> /\ Last(Code(L)).op \in Terminators

\* Nothing is emitted behind a terminator.
Emit(L, inst) ==
  IF Terminated(L) THEN L ELSE [L EXCEPT !.blocks[L.cur].code = Append(@, inst)]

JumpTo(b) == [op |-> "jump", to |-> b]

NewBlock(L) ==
  [L EXCEPT !.blocks = Append(@, [handler |-> IF L.ehs = <<>> THEN 0 ELSE Last(L.ehs),
                                  code |-> <<>>])]

Within(L, b) == [L EXCEPT !.cur = b]
Covered(L, h) == IF h = 0 THEN L ELSE [L EXCEPT !.ehs = Append(@, h)]
Uncovered(L, h) == IF h = 0 THEN L ELSE [L EXCEPT !.ehs = Front(@)]

PopHandlerIf(L, cond) == IF cond THEN Emit(L, [op |-> "pop"]) ELSE L
PopIf(stack, id) == IF stack # <<>> /\ Last(stack).id = id THEN Front(stack) ELSE stack

RECURSIVE Lower(_, _), LowerAll(_, _), LowerCases(_, _, _, _), Transfer(_, _)


\* A return, break or continue runs the innermost pending finally first, and
\* takes it off the stack for good.
TakeFinally(L, ctx) == [L EXCEPT !.control = Front(@), !.throwing = PopIf(@, ctx.id)]
TransferFrom(t, L) == IF Terminated(L) THEN L ELSE Transfer(t, L)

Transfer(t, L) ==
  IF L.control = <<>> THEN Emit(L, t)
  ELSE TransferFrom(t, Lower(Last(L.control).stmt,
         PopHandlerIf(TakeFinally(L, Last(L.control)), Handler(L) # 0)))

LowerAll(seq, L) == IF seq = <<>> THEN L ELSE LowerAll(Tail(seq), Lower(Head(seq), L))

LowerIf(s, L) ==
  LET n == Len(L.blocks)
      A == Emit(NewBlock(NewBlock(NewBlock(L))), [op |-> "branch", yes |-> n + 1, no |-> n + 2])
      B == Emit(Lower(s.then, Within(A, n + 1)), JumpTo(n + 3))
      C == Emit(Lower(s.else, Within(B, n + 2)), JumpTo(n + 3))
  IN Within(C, n + 3)

\* continue leads to the latch of a for loop, and to the header of a while loop.
LowerLoop(s, L) ==
  LET header == Len(L.blocks) + 1
      body == header + 1
      latch == IF s.inc = None THEN header ELSE header + 2
      exit == IF s.inc = None THEN header + 2 ELSE header + 3
      A == NewBlock(NewBlock(NewBlock(L)))
      B == IF s.inc = None THEN A ELSE NewBlock(A)
      C == Emit([B EXCEPT !.loops = Append(@, [continue |-> latch, break |-> exit])], JumpTo(header))
      D == Emit(Within(C, header), [op |-> "branch", yes |-> body, no |-> exit])
      E == Emit(Lower(s.body, Within(D, body)), JumpTo(latch))
      F == IF s.inc = None THEN E ELSE Emit(Lower(s.inc, Within(E, latch)), JumpTo(header))
  IN Within([F EXCEPT !.loops = Front(@)], exit)

\* Each case is checked in a block of its own; default is taken as it comes.
LowerCases(cases, check, exit, L) ==
  IF cases = <<>> THEN Emit(Within(L, check), JumpTo(exit))
  ELSE LET n == Len(L.blocks)
           case == Head(cases)
           A == IF case.default
                THEN Emit(Within(NewBlock(L), check), JumpTo(n + 1))
                ELSE Emit(Within(NewBlock(NewBlock(L)), check),
                          [op |-> "branch", yes |-> n + 1, no |-> n + 2])
           B == Emit(Lower(case.body, Within(A, n + 1)), JumpTo(exit))
           after == IF case.default THEN Len(B.blocks) + 1 ELSE n + 2
       IN LowerCases(Tail(cases), after, exit, IF case.default THEN NewBlock(B) ELSE B)

LowerSwitch(s, L) ==
  LET exit == Len(L.blocks) + 1
      outer == IF L.loops = <<>> THEN exit ELSE Last(L.loops).continue
      A == NewBlock([NewBlock(L) EXCEPT !.loops = Append(@, [continue |-> outer, break |-> exit])])
      B == LowerCases(s.cases, exit + 1, exit, Emit(A, JumpTo(exit + 1)))
  IN Within([B EXCEPT !.loops = Front(@)], exit)

\* A throw in a catch block whose finally is pending jumps to that finally.
LowerThrow(s, L) ==
  IF L.throwing = <<>> THEN Emit(L, [op |-> "throw", val |-> s.val])
  ELSE LET ctx == Last(L.throwing)
           A == PopHandlerIf(L, Handler(L) # 0)
           B == Emit(A, [op |-> "set", id |-> ctx.id, unwinding |-> TRUE, saved |-> s.val])
       IN Emit(B, JumpTo(ctx.body))

\* Blocks: exit, then unwind and finally body if there is a finally, catch, start.
TryBlocks(s, L) ==
  LET final == s.final # None
      exit == Len(L.blocks) + 1
      catch == IF final THEN exit + 3 ELSE exit + 1
  IN [id |-> L.tries + 1, final |-> final, exit |-> exit, body |-> exit + 2,
      unwind |-> IF final THEN exit + 1 ELSE 0, catch |-> catch, start |-> catch + 1,
      pending |-> IF final THEN <<[id |-> L.tries + 1, stmt |-> s.final, body |-> exit + 2]>>
                  ELSE <<>>]

\* The end of the try block or of the catch block.
EndPart(t, L) ==
  IF t.final
  THEN Emit(Emit(L, [op |-> "set", id |-> t.id, unwinding |-> FALSE, saved |-> 0]), JumpTo(t.body))
  ELSE Emit(L, JumpTo(t.exit))
UnlessDone(t, L, pops) == IF Terminated(L) THEN L ELSE EndPart(t, PopHandlerIf(L, pops))

AllocateTry(t, L) ==
  LET A == NewBlock([L EXCEPT !.tries = t.id])
      B == IF t.final THEN NewBlock(NewBlock(A)) ELSE A
  IN NewBlock(Covered(Uncovered(NewBlock(Covered(B, t.unwind)), t.unwind), t.catch))

StartTry(t, L) ==
  [Within(Emit(L, [op |-> "setup", to |-> t.start]), t.start) EXCEPT !.control = @ \o t.pending]
EndTry(t, L) ==
  Uncovered(UnlessDone(t, [L EXCEPT !.control = PopIf(@, t.id)], TRUE), t.catch)

StartCatch(t, L) ==
  [Emit(Within(Covered(L, t.unwind), t.catch), [op |-> "caught"]) EXCEPT
     !.control = @ \o t.pending, !.throwing = @ \o t.pending]
EndCatch(t, L) ==
  Uncovered(UnlessDone(t, [L EXCEPT !.throwing = PopIf(@, t.id), !.control = PopIf(@, t.id)],
                       t.final), t.unwind)

StartFinally(t, L) ==
  Within(Emit(Emit(Within(L, t.unwind), [op |-> "save", id |-> t.id]), JumpTo(t.body)), t.body)
EndFinally(t, L) ==
  LET rethrow == Len(L.blocks) + 1
      O == Emit(PopHandlerIf(NewBlock(L), Handler(L) # 0),
                [op |-> "unwinding?", id |-> t.id, yes |-> rethrow, no |-> t.exit])
  IN IF Terminated(L) THEN L ELSE Emit(Within(O, rethrow), [op |-> "rethrow", id |-> t.id])

LowerFinally(s, t, L) ==
  Within(IF t.final THEN EndFinally(t, Lower(s.final, StartFinally(t, L))) ELSE L, t.exit)

LowerTry(s, t, L) ==
  LowerFinally(s, t,
    EndCatch(t, Lower(s.catch, StartCatch(t,
      EndTry(t, Lower(s.body, StartTry(t, AllocateTry(t, L))))))))

Lower(s, L) ==
  CASE s.is = "none" -> L
    [] s.is = "seq" -> LowerAll(s.stmts, L)
    [] s.is = "print" -> Emit(L, [op |-> "print", val |-> s.val])
    [] s.is = "call" -> Emit(L, [op |-> "call", val |-> s.val])
    [] s.is = "if" -> LowerIf(s, L)
    [] s.is = "loop" -> LowerLoop(s, L)
    [] s.is = "switch" -> LowerSwitch(s, L)
    [] s.is = "break" -> IF L.loops = <<>> THEN L ELSE Transfer(JumpTo(Last(L.loops).break), L)
    [] s.is = "continue" -> IF L.loops = <<>> THEN L ELSE Transfer(JumpTo(Last(L.loops).continue), L)
    [] s.is = "return" -> Transfer([op |-> "return", val |-> s.val], L)
    [] s.is = "throw" -> LowerThrow(s, L)
    [] s.is = "try" -> LowerTry(s, TryBlocks(s, L), L)

LowerFunction(s) ==
  LET L == Lower(s, [blocks |-> <<[handler |-> 0, code |-> <<>>]>>, cur |-> 1, loops |-> <<>>,
                     ehs |-> <<>>, control |-> <<>>, throwing |-> <<>>, tries |-> 0])
  IN Emit(L, [op |-> "return", val |-> 0])

---------------------------------------------------------------------------
(* Code generation. *)

\* Predecessors: a conditional branch, or a try, is also taken to fall through.
Targets(inst) ==
  CASE inst.op \in {"jump", "setup"} -> {inst.to}
    [] inst.op \in {"branch", "unwinding?"} -> {inst.yes, inst.no}
    [] OTHER -> {}

Preds(blocks, b) ==
  {p \in DOMAIN blocks :
     \/ \E i \in DOMAIN blocks[p].code : b \in Targets(blocks[p].code[i])
     \/ b = p + 1 /\ \A i \in DOMAIN blocks[p].code :
                       blocks[p].code[i].op \notin {"jump", "return", "throw", "rethrow"}}

\* The blocks on whose entry a handler is pushed.
EntersRegion(blocks, b, preds) ==
  /\ blocks[b].handler # 0
  /\ b = 1 \/ preds = {} \/ \E p \in preds : blocks[p].handler # blocks[b].handler

Generated(L) ==
  [blocks |-> L.blocks, tries |-> L.tries,
   enters |-> {b \in DOMAIN L.blocks : EntersRegion(L.blocks, b, Preds(L.blocks, b))}]

Compiled == [s \in Bodies |-> Generated(LowerFunction(s))]

---------------------------------------------------------------------------
(* Execution. *)

\* Choice c is the next one.
Chooses(c) ==
  /\ IF Len(choices) < MaxChoices THEN c \in BOOLEAN ELSE c = FALSE
  /\ choices' = IF Len(choices) < MaxChoices THEN Append(choices, c) ELSE choices

Block(b) == code.blocks[b]

Popped(stack) == IF stack = <<>> THEN stack ELSE Front(stack)

\* Control reaches block b with these handlers: tejx_push_handler.
Arrive(b, stack) ==
  /\ place' = <<b, 1>>
  /\ handlers' = IF b \in code.enters THEN Append(stack, Block(b).handler) ELSE stack

\* tejx_throw: the innermost handler is popped and jumped to.
Raise(x) ==
  /\ exc' = x
  /\ IF handlers = <<>> \/ Last(handlers) = 0
     THEN /\ outcome' = [is |-> IF handlers = <<>> THEN "unhandled" ELSE "threw", val |-> x]
          /\ handlers' = Popped(handlers) /\ UNCHANGED place
     ELSE /\ Arrive(Last(handlers), Front(handlers))
          /\ UNCHANGED outcome
  /\ UNCHANGED <<local, trace>>

Continue == place' = [place EXCEPT ![2] = @ + 1] /\ UNCHANGED outcome

DoPrint(i) ==
  /\ i.op = "print"
  /\ trace' = Append(trace, <<"print", i.val>>)
  /\ Continue /\ UNCHANGED <<handlers, exc, local, choices>>

\* catch (e): the exception is read, and the catch block shows it.
DoCaught(i) ==
  /\ i.op = "caught"
  /\ trace' = Append(trace, <<"caught", exc>>)
  /\ Continue /\ UNCHANGED <<handlers, exc, local, choices>>

DoCall(i, c) ==
  /\ i.op = "call" /\ Chooses(c)
  /\ IF c THEN Raise(i.val)
     ELSE Continue /\ UNCHANGED <<handlers, exc, local, trace>>

DoJump(i) ==
  /\ i.op \in {"jump", "setup"}
  /\ Arrive(i.to, handlers) /\ UNCHANGED <<exc, local, choices, trace, outcome>>

DoBranch(i, c) ==
  /\ i.op = "branch" /\ Chooses(c)
  /\ Arrive(IF c THEN i.yes ELSE i.no, handlers)
  /\ UNCHANGED <<exc, local, trace, outcome>>

DoTest(i) ==
  /\ i.op = "unwinding?"
  /\ Arrive(IF local[i.id].unwinding THEN i.yes ELSE i.no, handlers)
  /\ UNCHANGED <<exc, local, choices, trace, outcome>>

DoSet(i) ==
  /\ i.op \in {"set", "save"}
  /\ local' = [local EXCEPT ![i.id] =
       IF i.op = "save" THEN [unwinding |-> TRUE, saved |-> exc]
       ELSE IF i.unwinding THEN [unwinding |-> TRUE, saved |-> i.saved]
       ELSE [@ EXCEPT !.unwinding = FALSE]]
  /\ Continue /\ UNCHANGED <<handlers, exc, choices, trace>>

DoPop(i) ==
  /\ i.op = "pop"
  /\ handlers' = Popped(handlers)
  /\ Continue /\ UNCHANGED <<exc, local, choices, trace>>

DoThrow(i) ==
  /\ i.op \in {"throw", "rethrow"}
  /\ Raise(IF i.op = "throw" THEN i.val ELSE local[i.id].saved)
  /\ UNCHANGED choices

\* The code of a return pops a handler if its block is covered, once more if the
\* block holds no PopHandler.
DoReturn(i) ==
  LET b == Block(place[1])
      pops == \E k \in DOMAIN b.code : b.code[k].op = "pop"
  IN /\ i.op = "return"
     /\ handlers' = IF b.handler = 0 THEN handlers
                    ELSE IF pops THEN Popped(handlers) ELSE Popped(Popped(handlers))
     /\ outcome' = [is |-> "returned", val |-> i.val]
     /\ UNCHANGED <<place, exc, local, choices, trace>>

TryInit ==
  /\ source \in Bodies /\ code = Compiled[source]
  /\ place = <<1, 1>> /\ handlers = <<0>> /\ exc = 0
  /\ local = [id \in 1..code.tries |-> [unwinding |-> FALSE, saved |-> 0]]
  /\ choices = <<>> /\ trace = <<>> /\ outcome = None

TryNext ==
  /\ outcome = None
  /\ LET i == Block(place[1]).code[place[2]]
     IN \/ DoPrint(i) \/ DoCaught(i) \/ DoJump(i) \/ DoTest(i) \/ DoSet(i)
        \/ DoPop(i) \/ DoThrow(i) \/ DoReturn(i)
        \/ \E c \in BOOLEAN : DoCall(i, c) \/ DoBranch(i, c)
  /\ UNCHANGED <<source, code>>

TrySpec == TryInit /\ [][TryNext]_tryVars

---------------------------------------------------------------------------
(* What the source means.  r is a run so far: what it printed, how many of *)
(* the choices it used, and how the last statement ended.                  *)

RECURSIVE Means(_, _), MeansAll(_, _), MeansLoop(_, _)

Ended(r, is, val) == [r EXCEPT !.end = [is |-> is, val |-> val]]
Normal == [is |-> "normal", val |-> 0]
NextChoice(r) == r.used < Len(choices) /\ choices[r.used + 1]
Used(r) == [r EXCEPT !.used = @ + 1]
Prints(r, x) == [r EXCEPT !.out = Append(@, x)]

MeansAll(seq, r) ==
  IF seq = <<>> \/ r.end # Normal THEN r ELSE MeansAll(Tail(seq), Means(Head(seq), r))

MeansLoop(s, r) ==
  IF ~NextChoice(r) THEN Used(r)
  ELSE LET b == Means(s.body, Used(r))
           next == IF b.end.is \in {"normal", "continue"} THEN Means(s.inc, [b EXCEPT !.end = Normal])
                   ELSE b
       IN IF next.end.is = "break" THEN [next EXCEPT !.end = Normal]
          ELSE IF next.end # Normal THEN next ELSE MeansLoop(s, next)

\* The first case whose comparison succeeds, default being one that does.
MeansSwitch(s, r) ==
  LET compared(k) == Cardinality({j \in 1..k : ~s.cases[j].default})
      Takes(k) == s.cases[k].default \/ NextChoice([r EXCEPT !.used = @ + compared(k) - 1])
      taken == {k \in DOMAIN s.cases : Takes(k)}
      k == IF taken = {} THEN Len(s.cases) ELSE Min(taken)
      r1 == [r EXCEPT !.used = @ + compared(k)]
      b == IF taken = {} THEN r1 ELSE Means(s.cases[k].body, r1)
  IN IF b.end.is = "break" THEN [b EXCEPT !.end = Normal] ELSE b

\* The finally block runs once, however the rest has ended, and then that end
\* stands unless the finally block makes another.
MeansTry(s, r) ==
  LET b == Means(s.body, r)
      c == IF b.end.is # "throw" THEN b
           ELSE Means(s.catch, [Prints(b, <<"caught", b.end.val>>) EXCEPT !.end = Normal])
      f == Means(s.final, [c EXCEPT !.end = Normal])
  IN IF f.end = Normal THEN [f EXCEPT !.end = c.end] ELSE f

Means(s, r) ==
  CASE s.is = "none" -> r
    [] s.is = "seq" -> MeansAll(s.stmts, r)
    [] s.is = "print" -> Prints(r, <<"print", s.val>>)
    [] s.is = "call" -> IF NextChoice(r) THEN Ended(Used(r), "throw", s.val) ELSE Used(r)
    [] s.is = "if" -> Means(IF NextChoice(r) THEN s.then ELSE s.else, Used(r))
    [] s.is = "loop" -> MeansLoop(s, r)
    [] s.is = "switch" -> MeansSwitch(s, r)
    [] s.is \in {"break", "continue"} -> Ended(r, s.is, 0)
    [] s.is \in {"return", "throw"} -> Ended(r, s.is, s.val)
    [] s.is = "try" -> MeansTry(s, r)

Meaning == Means(source, [out |-> <<>>, used |-> 0, end |-> Normal])

---------------------------------------------------------------------------
(* Properties. *)


=============================================================================
