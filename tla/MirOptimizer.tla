----------------------------- MODULE MirOptimizer -----------------------------
(***************************************************************************)
(* The MIR optimizer (compiler/middle/mir/opt.rs): six passes over the     *)
(* basic blocks of a function, repeated until none of them changes         *)
(* anything.  What the rewritten instructions do is taken from the code    *)
(* generator (backend/codegen) and the runtime (runtime/core/string.rs).   *)
(*                                                                         *)
(* An instruction has an operation, the variable it sets ("" for none) and *)
(* the values it reads, in the order of the code.  A value is a variable   *)
(* or a constant.  Members, casts and indirect calls are left out: to the  *)
(* passes they are further uses of a variable.                             *)
(***************************************************************************)
EXTENDS Integers, SequencesExt, TLC

CONSTANTS
  Functions,   \* the functions to optimize: records of params, types and blocks
  Temps,       \* the variables the lowering made: _t0, _t1, ...
  Width,       \* bits of an integer
  Fuel         \* bound: instructions a run may execute

\* The power of two is a positive number: said because the provers know little of "^".
ASSUME OptimizerAssumption ==
  Width \in Nat \ {0, 1} /\ 2 ^ (Width - 1) \in Nat \ {0} /\ Fuel \in Nat

VARIABLES
  original,   \* the function as it was lowered
  func,       \* the function as the passes have left it
  pass,       \* the pass to come, 0 when there is none
  changed,    \* whether a pass of this round has changed something
  round       \* rounds begun

optVars == <<original, func, pass, changed, round>>

Var(x) == [is |-> "var", name |-> x]
Lit(n) == [is |-> "int", val |-> n]
Quoted(s) == [is |-> "str", val |-> s]
IsConst(v) == v.is # "var"

ValueOver(V) ==
  [is : {"var"}, name : V] \cup [is : {"int"}, val : Int] \cup [is : {"str"}, val : Seq(Nat)]

\* What a call may name: print, and functions of the runtime.
RuntimeCallees ==
  {"print", "array", "rt_len", "rt_strlen", "rt_str_append_local", "rt_str_clear_local"}

\* The instructions over the variables V, by what they set and how many values they read.
InstructionOver(V) ==
  LET Reading(n) == [1..n -> ValueOver(V)]
  IN [op : {"move"}, dst : V, in : Reading(1)]
     \cup [op : {"concat", "load"}, dst : V, in : Reading(2)]
     \cup [op : {"binary"}, dst : V, operator : {"+", "-", "*", "/", "%"}, in : Reading(2)]
     \cup [op : {"call"}, dst : V, callee : RuntimeCallees, in : Seq(ValueOver(V))]
     \cup [op : {"call"}, dst : {""}, callee : RuntimeCallees \ {"array"}, in : Seq(ValueOver(V))]
     \cup [op : {"store"}, dst : {""}, in : Reading(3)]
     \cup [op : {"return", "throw"}, dst : {""}, in : Reading(1)]
     \cup [op : {"branch"}, dst : {""}, in : Reading(1), to : Nat, else : Nat]
     \cup [op : {"jump"}, dst : {""}, in : {<<>>}, to : Nat]

IsFunction(F) ==
  /\ F = [params |-> F.params, types |-> F.types, blocks |-> F.blocks]
  /\ F.types = [x \in DOMAIN F.types |-> F.types[x]]
  /\ IsFiniteSet(DOMAIN F.types) /\ "" \notin DOMAIN F.types
  /\ F.params \in Seq(DOMAIN F.types)
  /\ F.blocks \in Seq(Seq(InstructionOver(DOMAIN F.types)))

\* Every variable has a type, temporaries included (new_temp).
ASSUME FunctionsAssumption == \A F \in Functions : IsFunction(F)

\* The instructions of F: block and position.
Places(F) == UNION {{b} \X DOMAIN F.blocks[b] : b \in DOMAIN F.blocks}
At(F, p) == F.blocks[p[1]][p[2]]
Before(p, q) == p[1] < q[1] \/ (p[1] = q[1] /\ p[2] < q[2])

Instructions(F) == {At(F, p) : p \in Places(F)}
Reads(i, x) == \E k \in DOMAIN i.in : i.in[k] = Var(x)

Rewritten(F, New(_)) ==
  [F EXCEPT !.blocks = [b \in DOMAIN @ |-> [k \in DOMAIN @[b] |-> New(<<b, k>>)]]]

---------------------------------------------------------------------------
(* propagate_constants and fold_constants *)

Definitions(F, x) == {p \in Places(F) : At(F, p).dst = x}

\* Mutant: a variable that is set again elsewhere keeps its first value.
FirstConstants(F) ==
  {x \in DOMAIN F.types \ ToSet(F.params) :
     \E p \in Definitions(F, x) :
       At(F, p).op = "move" /\ IsConst(At(F, p).in[1]) /\ p[1] = 1}

\* The variables with one definition, which is a constant: a parameter has one
\* already.  A variable of the program counts only if it is set in the first block.
SingleConstants(F) ==
  {x \in DOMAIN F.types \ ToSet(F.params) :
     \E p \in Places(F) :
       /\ Definitions(F, x) = {p}
       /\ At(F, p).op = "move" /\ IsConst(At(F, p).in[1])
       /\ p[1] = 1 \/ x \in Temps}

ConstantOf(F, x) == At(F, CHOOSE p \in Definitions(F, x) : TRUE).in[1]

Propagated(F, known, i) ==
  [i EXCEPT !.in = [k \in DOMAIN @ |->
     IF @[k].is = "var" /\ @[k].name \in known THEN ConstantOf(F, @[k].name) ELSE @[k]]]

PropagateConstants(F) ==
  LET known == SingleConstants(F) IN Rewritten(F, LAMBDA p : Propagated(F, known, At(F, p)))

\* Division of integers truncates.
Quotient(a, b) ==
  LET Abs(n) == IF n < 0 THEN -n ELSE n
      q == Abs(a) \div Abs(b)
  IN IF (a < 0) = (b < 0) THEN q ELSE -q

Arithmetic(op, a, b) ==
  CASE op = "+" -> a + b
    [] op = "-" -> a - b
    [] op = "*" -> a * b
    [] op = "/" -> Quotient(a, b)
    [] op = "%" -> a - b * Quotient(a, b)

\* The result is not cut to the width of the operands; a division by zero is left
\* to the run.
Folds(i) ==
  /\ i.op = "binary" /\ \A k \in 1..2 : i.in[k].is = "int"
  /\ i.operator \in {"/", "%"} => i.in[2].val # 0

Folded(i) ==
  IF Folds(i)
  THEN [op |-> "move", dst |-> i.dst,
        in |-> <<Lit(Arithmetic(i.operator, i.in[1].val, i.in[2].val))>>]
  ELSE i

FoldConstants(F) == Rewritten(F, LAMBDA p : Folded(At(F, p)))

---------------------------------------------------------------------------
(* promote_local_constant_arrays *)

\* What may hold the array that x is set to: the least set with x that moves do not leave.
Aliases(F, x) ==
  LET moves == {i \in Instructions(F) : i.op = "move"}
      all == {x} \cup {i.dst : i \in moves}
      closed == {S \in SUBSET all : x \in S /\ \A i \in moves : (\E y \in S : Reads(i, y)) => i.dst \in S}
  IN {y \in all : \A S \in closed : y \in S}

\* Nothing but loads, stores and moves between arrays may touch an alias, an alias
\* holds nothing else, and a constant index is inside.
StaysLocal(F, x, len) ==
  LET S == Aliases(F, x)
      Touches(i) == \E y \in S : Reads(i, y)
      Indexed(i) == i.op \in {"load", "store"} /\ i.in[1].is = "var" /\ i.in[1].name \in S
  IN \A i \in Instructions(F) :
       /\ i.op = "move" /\ i.in[1].is = "var" =>
            IF Touches(i) THEN F.types[i.dst] \in {"array", "fixed"} ELSE i.dst \notin S
       /\ Indexed(i) /\ i.in[2].is = "int" => i.in[2].val \in 0..len - 1
       /\ i.op \in {"call", "return", "binary", "branch"} => ~Touches(i)

PromoteArrays(F) ==
  LET made == {i \in Instructions(F) :
                 /\ i.op = "call" /\ i.callee = "array" /\ i.in[1].is = "int" /\ i.in[1].val > 0
                 /\ F.types[i.dst] = "array" /\ StaysLocal(F, i.dst, i.in[1].val)}
      promoted == UNION {Aliases(F, i.dst) : i \in made}
  IN [F EXCEPT !.types = [x \in DOMAIN @ |-> IF x \in promoted THEN "fixed" ELSE @[x]]]

---------------------------------------------------------------------------
(* rewrite_local_string_appends *)

\* No other variable, object or function gets to see the string in x.
OwnsItsString(F, x) ==
  \A i \in Instructions(F) : Reads(i, x) =>
    CASE i.op = "move" -> i.dst = x
      [] i.op = "return" -> FALSE
      [] i.op = "call" -> i.callee \in {"rt_len", "rt_strlen"}
      [] i.op = "load" -> i.in[1] # Var(x)
      [] i.op = "store" -> i.in[1] # Var(x) /\ i.in[3] # Var(x)
      [] OTHER -> TRUE

Owned(F) == {x \in DOMAIN F.types : F.types[x] = "string" /\ OwnsItsString(F, x)}

\* s = "" cuts the string s holds, if s was set before, and s = s + e appends to s.
Clears(F, owned, p) ==
  LET i == At(F, p)
  IN /\ i.op = "move" /\ i.in[1] = Quoted(<<>>) /\ i.dst \in owned
     /\ \E q \in Definitions(F, i.dst) : Before(q, p)

Appends(F, owned, p) ==
  LET i == At(F, p)
      next == <<p[1], p[2] + 1>>
  IN /\ i.op = "concat" /\ i.in[1].is = "var" /\ i.in[1].name \in owned
     /\ next \in Places(F)
     /\ At(F, next).op = "move" /\ At(F, next).in[1] = Var(i.dst)
     /\ At(F, next).dst = i.in[1].name

GrownInPlace(F, owned, p) ==
  LET i == At(F, p)
  IN IF Clears(F, owned, p)
     THEN [op |-> "call", dst |-> i.dst, callee |-> "rt_str_clear_local", in |-> <<Var(i.dst)>>]
     ELSE IF Appends(F, owned, p)
     THEN [op |-> "call", dst |-> i.dst, callee |-> "rt_str_append_local", in |-> i.in]
     ELSE i

RewriteAppends(F) == LET owned == Owned(F) IN Rewritten(F, LAMBDA p : GrownInPlace(F, owned, p))

---------------------------------------------------------------------------
(* eliminate_dead_code and remove_unused_variables *)

Terminates(i) == i.op \in {"return", "jump", "branch", "throw"}

Cut(s) ==
  LET ends == {k \in DOMAIN s : Terminates(s[k])}
  IN IF ends = {} THEN s ELSE SubSeq(s, 1, Min(ends))

EliminateDead(F) == [F EXCEPT !.blocks = [b \in DOMAIN @ |-> Cut(@[b])]]

\* The members of s at the places in kept, in their order.
Picked(s, kept) ==
  [n \in 1..Cardinality(kept) |-> s[CHOOSE k \in kept : Cardinality({j \in kept : j <= k}) = n]]

\* A result nobody reads is dropped if its variable is a temporary without a type.
Unused(F, i) ==
  /\ i.op \in {"move", "binary", "concat", "load"}
  /\ i.dst \in Temps \ DOMAIN F.types
  /\ \A j \in Instructions(F) : ~Reads(j, i.dst)

RemoveUnused(F) ==
  [F EXCEPT !.blocks = [b \in DOMAIN @ |-> Picked(@[b], {k \in DOMAIN @[b] : ~Unused(F, @[b][k])})]]

---------------------------------------------------------------------------
(* optimize *)

Passes == <<"propagate", "fold", "promote", "append", "dead", "unused">>

OptInit ==
  /\ original \in Functions /\ func = original
  /\ pass = 1 /\ changed = FALSE /\ round = 1

\* Mutant: a pass reports a change whenever it has looked at the function.
ApplyAlways(name, New) ==
  /\ pass \in DOMAIN Passes /\ Passes[pass] = name
  /\ func' = New
  /\ changed' = TRUE
  /\ pass' = pass + 1
  /\ UNCHANGED <<original, round>>

\* A pass reports a change if it has made one.
Apply(name, New) ==
  /\ pass \in DOMAIN Passes /\ Passes[pass] = name
  /\ func' = New
  /\ changed' = (changed \/ New # func)
  /\ pass' = pass + 1
  /\ UNCHANGED <<original, round>>

Again ==
  /\ pass = Len(Passes) + 1
  /\ IF changed THEN pass' = 1 /\ changed' = FALSE /\ round' = round + 1
     ELSE pass' = 0 /\ UNCHANGED <<changed, round>>
  /\ UNCHANGED <<original, func>>

OptNext ==
  \/ Apply("propagate", PropagateConstants(func))
  \/ Apply("fold", FoldConstants(func))
  \/ Apply("promote", PromoteArrays(func))
  \/ Apply("append", RewriteAppends(func))
  \/ Apply("dead", EliminateDead(func))
  \/ Apply("unused", RemoveUnused(func))
  \/ Again

OptSpec == OptInit /\ [][OptNext]_optVars

---------------------------------------------------------------------------
(* Running a function.  store holds strings and arrays; a variable holds an *)
(* integer or the place of one in store.                                    *)

Wrap(n) ==
  LET half == 2 ^ (Width - 1)
  IN ((n + half) % (2 * half)) - half

Place(p) == [is |-> "place", at |-> p]

\* The value of v in run r, and the run: a string constant is a frozen string.
Eval(r, v) ==
  CASE v.is = "var" -> [r |-> r, v |-> r.env[v.name]]
    [] v.is = "int" -> [r |-> r, v |-> Lit(Wrap(v.val))]
    [] OTHER -> [r |-> [r EXCEPT !.store = Append(@, [text |-> v.val, room |-> 0, frozen |-> TRUE])],
                 v |-> Place(Len(r.store) + 1)]

Set(r, x, v) == IF x = "" THEN r ELSE [r EXCEPT !.env[x] = v]
Allocate(r, x, obj) == Set([r EXCEPT !.store = Append(@, obj)], x, Place(Len(r.store) + 1))
Chars(r, v) == r.store[v.at].text

\* rt_str_append_local and rt_str_clear_local change a string that is not frozen,
\* the first if it has room; a new string gets some room.
AppendLocal(r, x, a, b) ==
  LET s == r.store[a.at]
      joined == s.text \o Chars(r, b)
  IN IF ~s.frozen /\ s.room >= Len(joined)
     THEN Set([r EXCEPT !.store[a.at].text = joined], x, a)
     ELSE Allocate(r, x, [text |-> joined, room |-> Len(joined) + 2, frozen |-> FALSE])

ClearLocal(r, x, a) ==
  IF r.store[a.at].frozen THEN Allocate(r, x, [text |-> <<>>, room |-> 0, frozen |-> TRUE])
  ELSE Set([r EXCEPT !.store[a.at].text = <<>>], x, a)

\* A promoted array is one place in the frame, zeroed whenever it is made again.
MakeArray(F, r, x, n) ==
  LET cells == [k \in 0..n - 1 |-> 0]
  IN IF F.types[x] = "fixed" /\ x \in DOMAIN r.frame
     THEN Set([r EXCEPT !.store[r.frame[x]].cells = cells], x, Place(r.frame[x]))
     ELSE LET s == Allocate(r, x, [cells |-> cells])
          IN IF F.types[x] = "fixed" THEN [s EXCEPT !.frame = @ @@ (x :> Len(s.store))] ELSE s

Shown(r, v) == IF v.is = "int" THEN <<v.val>> ELSE Chars(r, v)

EnterBlock(r, b) == [r EXCEPT !.at = <<b, 1>>]
GoOn(r) == [r EXCEPT !.at[2] = @ + 1]

CallEffect(F, r, i, a, b) ==
  CASE i.callee = "print" -> [r EXCEPT !.out = @ \o <<Shown(r, a)>>]
    [] i.callee = "array" -> MakeArray(F, r, i.dst, a.val)
    [] i.callee = "rt_str_append_local" -> AppendLocal(r, i.dst, a, b)
    [] i.callee = "rt_str_clear_local" -> ClearLocal(r, i.dst, a)
    [] i.callee \in {"rt_len", "rt_strlen"} -> Set(r, i.dst, Lit(Wrap(Len(Chars(r, a)))))

Divides(i) == i.operator \in {"/", "%"}

\* What i does in run r with the values a, b and c of its operands.
Effect(F, r, i, a, b, c) ==
  CASE i.op = "move" -> GoOn(Set(r, i.dst, a))
    [] i.op = "binary" ->
         IF Divides(i) /\ b.val = 0 THEN [r EXCEPT !.end = "division by zero"]
         ELSE GoOn(Set(r, i.dst, Lit(Wrap(Arithmetic(i.operator, a.val, b.val)))))
    [] i.op = "concat" ->
         LET left == Chars(r, a)
             right == Chars(r, b)
         IN GoOn(Allocate(r, i.dst, [text |-> left \o right, room |-> Len(left) + Len(right), frozen |-> FALSE]))
    [] i.op = "load" -> GoOn(Set(r, i.dst, Lit(r.store[a.at].cells[b.val])))
    [] i.op = "store" -> GoOn([r EXCEPT !.store[a.at].cells[b.val] = c.val])
    [] i.op = "jump" -> EnterBlock(r, i.to)
    [] i.op = "branch" -> EnterBlock(r, IF a.val # 0 THEN i.to ELSE i.else)
    [] i.op \in {"return", "throw"} -> [r EXCEPT !.end = i.op, !.out = @ \o <<Shown(r, a)>>]
    [] i.op = "call" -> GoOn(CallEffect(F, r, i, a, b))

\* One instruction: its operands are evaluated from left to right.
Execute(F, r, i) ==
  LET ra == IF i.in = <<>> THEN [r |-> r, v |-> Lit(0)] ELSE Eval(r, i.in[1])
      rb == IF Len(i.in) < 2 THEN ra ELSE Eval(ra.r, i.in[2])
      rc == IF Len(i.in) < 3 THEN rb ELSE Eval(rb.r, i.in[3])
  IN Effect(F, rc.r, i, ra.v, rb.v, rc.v)

\* A parameter is a string that was made at run time, or the number 1.
Entry(F) ==
  [env |-> [x \in DOMAIN F.types |-> IF F.types[x] = "string" THEN Place(1) ELSE Lit(1)],
   store |-> <<[text |-> <<7>>, room |-> 1, frozen |-> FALSE]>>,
   frame |-> <<>>, out |-> <<>>, at |-> <<1, 1>>, end |-> ""]

\* The states of a run: a run that has ended stays where it is.
Onward(F, r) == IF r.end # "" \/ r.at \notin Places(F) THEN r ELSE Execute(F, r, At(F, r.at))

States(F) ==
  LET R[n \in Nat] == IF n = 0 THEN Entry(F) ELSE Onward(F, R[n - 1])
  IN R

Run(F) == LET r == States(F)[Fuel] IN [out |-> r.out, end |-> r.end]

---------------------------------------------------------------------------
(* Properties. *)

\* Every pass leaves a function that prints, returns and fails as the original did.
PassesKeepMeaning == Run(func) = Run(original)

\* The passes come to rest: every round but the last has used up an instruction,
\* an array or a string that it could rewrite.
OptimizerStops == round <= 2 + Cardinality(Places(original)) + Cardinality(DOMAIN original.types)

=============================================================================
