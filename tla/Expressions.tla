------------------------------ MODULE Expressions ------------------------------
(***************************************************************************)
(* What an expression is compiled to: from its tree to typed HIR           *)
(* (compiler/middle/lowering/expr.rs), from there to basic blocks          *)
(* (compiler/middle/mir/lowering.rs), and what the blocks then do.  Most of *)
(* the language's operators are written in terms of others on the way: ?.  *)
(* and ?? are conditionals, a += b an assignment, a spread a chain of      *)
(* concatenations, and a method call the call of a function found by the   *)
(* type of its receiver.                                                   *)
(*                                                                         *)
(* A name is a pair: <<"", x>> for a variable or a function, <<class,       *)
(* member>> for a member, <<"rt", f>> for the runtime.  A value is an       *)
(* integer: 0 is also false and None, and a cell of the heap has a number  *)
(* above CellBase.  What a function of the program does is left to         *)
(* Signatures: it is called, with these arguments, and returns.            *)
(***************************************************************************)
EXTENDS Integers, SequencesExt

CONSTANTS
  Trees,        \* the expressions
  Scope,        \* the type of each variable in scope; "this" is one
  ParentClass,  \* the class that super names
  ClassTable,   \* class -> parent, fields, statics, getters, setters
  Signatures,   \* function -> arity and defaults (a method's count this), rest, result,
                \* and what it does: the value it gives, the field and the variable it sets
  Globals,      \* the values of the variables
  Cells         \* the heap

VARIABLES tree, lowered, computed

exprVars == <<tree, lowered, computed>>

CellBase == 100
Absent == [is |-> "absent"]

IntType == [k |-> "int"]
BoolType == [k |-> "bool"]
VoidType == [k |-> "void"]
NoneType == [k |-> "none"]
OptionOf(t) == [k |-> "opt", of |-> t]
ArrayOf(t) == [k |-> "arr", of |-> t]
Instance(c) == [k |-> "class", name |-> c]

---------------------------------------------------------------------------
(* HIR. *)

LiteralOf(v, t) == [is |-> "lit", val |-> v, ty |-> t]
NoneHir == LiteralOf(0, VoidType)
Named(x, t) == [is |-> "var", name |-> x, ty |-> t]
BinaryOf(op, l, r, t) == [is |-> "bin", op |-> op, left |-> l, right |-> r, ty |-> t]
Either(c, a, b, t) == [is |-> "if", cond |-> c, then |-> a, else |-> b, ty |-> t]
Applied(f, args, t) == [is |-> "call", callee |-> f, args |-> args, ty |-> t]
Indirect(f, args) == [is |-> "icall", callee |-> f, args |-> args, ty |-> f.ty.ret]
Storing(target, v) == [is |-> "assign", target |-> target, value |-> v, ty |-> target.ty]
FieldOf(obj, m, t) == [is |-> "member", obj |-> obj, name |-> m, ty |-> t]
Elems(s, t) == [is |-> "array", elems |-> s, ty |-> t]

NonNone(t) == IF t.k = "opt" THEN t.of ELSE t
IsOptional(t) == t.k \in {"opt", "none"}
NotNone(h) == BinaryOf("!=", h, NoneHir, BoolType)
ElementType(t) == IF t.k = "arr" THEN t.of ELSE [k |-> "any"]
Coalesced(l, r) == IF l.k = "none" THEN r ELSE NonNone(l)

\* infer_hir_binary_type, numbers being all of one type here.
BinaryType(op) == IF op \in {"==", "!=", "<", "&&", "||"} THEN BoolType ELSE IntType

IsClass(x) == x \in DOMAIN ClassTable
NoClass == [parent |-> "", fields |-> <<>>, statics |-> <<>>, getters |-> <<>>, setters |-> <<>>]
ClassOf(t) == IF t.k = "class" /\ IsClass(t.name) THEN ClassTable[t.name] ELSE NoClass
PropsOf(t) == IF t.k = "object" THEN t.props ELSE <<>>
BaseName(e) == IF e.is = "id" THEN e.name ELSE ""

\* obj.m: a static field, a getter of the class the receiver is declared with, a field
\* of that class, a property, a function.
MemberHir(base, obj, m) ==
  LET t == NonNone(obj.ty)
      statics == IF IsClass(base) THEN ClassTable[base].statics ELSE <<>>
      C == ClassOf(t)
  IN CASE m \in DOMAIN statics -> Named(<<base, m>>, statics[m])
       [] m \in DOMAIN C.getters -> Applied(<<t.name, C.getters[m]>>, <<obj>>, IntType)
       [] m \in DOMAIN C.fields -> FieldOf(obj, m, C.fields[m])
       [] m \in DOMAIN PropsOf(t) -> FieldOf(obj, m, t.props[m])
       [] <<base, m>> \in DOMAIN Signatures -> Named(<<base, m>>, IntType)
       [] OTHER -> FieldOf(obj, m, IF t.k = "any" THEN t ELSE IntType)

RECURSIVE Lineage(_)
Lineage(c) == IF c = "" THEN <<>> ELSE <<c>> \o Lineage(ClassTable[c].parent)

\* The class that has method m, the receiver's or the nearest above it; if none has, the
\* function of that name does not exist.
MethodOwner(c, m) ==
  LET owners == SelectSeq(Lineage(c), LAMBDA d : <<d, m>> \in DOMAIN Signatures)
  IN IF owners = <<>> THEN c ELSE Head(owners)

ReturnType(f) == IF f \in DOMAIN Signatures THEN Signatures[f].ret ELSE IntType

\* A default or None for each argument that is not given; the arguments beyond the fixed
\* ones in an array, if the last parameter is a rest parameter.
Padding(f, n) == [i \in 1..Signatures[f].arity - n |->
                    LET d == Signatures[f].defaults[n + i]
                    IN IF d = Absent THEN NoneHir ELSE LiteralOf(d.val, IntType)]
PackRest(args, fixed) ==
  Append(SubSeq(args, 1, fixed), Elems(SubSeq(args, fixed + 1, Len(args)), ArrayOf(IntType)))


Arguments(f, args) ==
  IF f \notin DOMAIN Signatures THEN args
  ELSE IF Signatures[f].rest < 0 THEN args \o Padding(f, Len(args))
  ELSE IF Len(args) >= Signatures[f].rest THEN PackRest(args, Signatures[f].rest)
  ELSE args

CallOf(f, args) == Applied(f, Arguments(f, args), ReturnType(f))
ThisHir == Named(<<"", "this">>, Scope["this"])

\* obj.m(args): the value of a field called, the parent's method, a static method, a
\* method of the runtime, or a method of the class the receiver is declared with.
MethodHir(base, m, obj, args) ==
  LET t == NonNone(obj.ty)
      member == MemberHir(base, obj, m)
  IN CASE member.ty.k = "fn" -> Indirect(member, args)
       [] base = "super" -> CallOf(<<ParentClass, m>>, <<ThisHir>> \o args)
       [] IsClass(base) /\ <<base, m>> \in DOMAIN Signatures -> CallOf(<<base, m>>, args)
       [] t.k = "arr" -> Applied(<<"rt", m>>, <<obj>> \o args, IF m = "push" THEN IntType ELSE t)
       [] OTHER -> CallOf(<<MethodOwner(t.name, m), m>>, <<obj>> \o args)

\* The variable a condition tells something of: its type if it holds, and if not.
RECURSIVE Narrowing(_, _)
Narrowing(e, G) ==
  IF e.is = "not"
  THEN LET n == Narrowing(e.of, G) IN IF n = <<>> THEN n ELSE <<n[1], n[3], n[2]>>
  ELSE IF e.is = "bin" /\ e.op = "instanceof" /\ G[e.left.name].k # "opt"
  THEN <<e.left.name, Instance(e.right), G[e.left.name]>>
  ELSE IF e.is = "bin" /\ e.op \in {"==", "!="} /\ e.left.is = "id" /\ e.right.is = "none"
          /\ G[e.left.name].k = "opt"
  THEN IF e.op = "!=" THEN <<e.left.name, NonNone(G[e.left.name]), NoneType>>
       ELSE <<e.left.name, NoneType, NonNone(G[e.left.name])>>
  ELSE <<>>

NarrowedBy(n, op, G) ==
  IF n = <<>> THEN G ELSE [G EXCEPT ![n[1]] = IF op = "&&" THEN n[2] ELSE n[3]]

\* The scope in which the right operand is lowered.
RightScope(e, G) == IF e.op \in {"&&", "||"} THEN NarrowedBy(Narrowing(e.left, G), e.op, G) ELSE G

\* [a, ...b, c]: the runs of plain elements, and the spreads between them, concatenated.
Chunked(chunks, e, h, t) ==
  IF e.is = "spread" THEN Append(chunks, [plain |-> FALSE, of |-> h])
  ELSE IF chunks = <<>> \/ ~Last(chunks).plain
  THEN Append(chunks, [plain |-> TRUE, of |-> Elems(<<h>>, t)])
  ELSE Append(Front(chunks), [Last(chunks) EXCEPT !.of.elems = Append(@, h)])

Concatenated(chunks, t) ==
  IF chunks = <<>> THEN Elems(<<>>, t)
  ELSE FoldLeft(LAMBDA x, c : Applied(<<"rt", "concat">>, <<x, c.of>>, t),
                IF chunks[1].plain \/ Len(chunks) > 1 THEN chunks[1].of ELSE Elems(<<>>, t),
                IF chunks[1].plain \/ Len(chunks) > 1 THEN Tail(chunks) ELSE chunks)

ArrayHir(elems, hirs, t) ==
  Concatenated(FoldLeft(LAMBDA c, i : Chunked(c, elems[i], hirs[i], t), <<>>, [i \in DOMAIN elems |-> i]), t)

\* {k: v, ...s}: the object of the entries, and then each spread merged into it.
ObjectHir(keys, vals, spreads) ==
  LET props == [k \in ToSet(keys) |-> (CHOOSE i \in DOMAIN keys : keys[i] = k)]
      own == [k \in DOMAIN props |-> vals[props[k]].ty]
      t == [k |-> "object", props |-> FoldLeft(LAMBDA p, s : p @@ PropsOf(s.ty), own, spreads)]
  IN FoldLeft(LAMBDA x, s : Applied(<<"rt", "merge">>, <<x, s>>, t),
              [is |-> "object", keys |-> keys, vals |-> vals, ty |-> t], spreads)

CompoundOps == {"+=" , "-="}
PlainOp(op) == IF op = "+=" THEN "+" ELSE "-"

\* A store to a member the receiver's class has a setter for is a call.
AssignHir(e, target, value, receiver) ==
  LET v == IF e.op \in CompoundOps THEN BinaryOf(PlainOp(e.op), target, value, target.ty) ELSE value
  IN IF e.target.is = "member" /\ e.target.name \in DOMAIN ClassOf(receiver.ty).setters
     THEN Applied(<<receiver.ty.name, ClassOf(receiver.ty).setters[e.target.name]>>, <<receiver, v>>, VoidType)
     ELSE Storing(target, v)

\* obj?.x, where access is what obj.x is lowered to.
Guarded(obj, access) ==
  IF IsOptional(obj.ty) THEN Either(NotNone(obj), access, NoneHir, OptionOf(access.ty)) ELSE access
IndexHir(arr, at) == [is |-> "index", arr |-> arr, at |-> at, ty |-> ElementType(NonNone(arr.ty))]
One == LiteralOf(1, IntType)

CallHir(callee, obj, args, G) ==
  CASE callee.is = "member" -> MethodHir(BaseName(callee.obj), callee.name, obj, args)
    [] callee.is = "omember" -> Guarded(obj, MethodHir(BaseName(callee.obj), callee.name, obj, args))
    [] callee.is = "super" -> CallOf(<<ParentClass, "constructor">>, <<ThisHir>> \o args)
    [] callee.name \in DOMAIN G -> Indirect(Named(<<"", callee.name>>, G[callee.name]), args)
    [] OTHER -> CallOf(<<"", callee.name>>, args)

IdHir(x, G) ==
  IF x \in DOMAIN G THEN Named(<<"", x>>, G[x])
  ELSE IF <<"", x>> \in DOMAIN Signatures
  THEN Named(<<"", x>>, [k |-> "fn", ret |-> Signatures[<<"", x>>].ret])
  ELSE Named(<<"", x>>, IntType)

RECURSIVE Hir(_, _)
Hirs(seq, G) == [i \in DOMAIN seq |-> Hir(IF seq[i].is = "spread" THEN seq[i].of ELSE seq[i], G)]
HirOr(cond, e, G) == IF cond THEN Hir(e, G) ELSE NoneHir

\* lower_expression
Hir(e, G) ==
  CASE e.is = "num" -> LiteralOf(e.val, IntType)
    [] e.is = "none" -> NoneHir
    [] e.is = "id" -> IdHir(e.name, G)
    [] e.is = "some" -> Hir(e.of, G)
    [] e.is = "member" -> MemberHir(BaseName(e.obj), Hir(e.obj, G), e.name)
    [] e.is = "omember" ->
         LET obj == Hir(e.obj, G) IN Guarded(obj, MemberHir(BaseName(e.obj), obj, e.name))
    [] e.is = "index" -> IndexHir(Hir(e.arr, G), Hir(e.at, G))
    [] e.is = "oindex" -> LET arr == Hir(e.arr, G) IN Guarded(arr, IndexHir(arr, Hir(e.at, G)))
    [] e.is = "coalesce" ->
         LET l == Hir(e.left, G)
             r == Hir(e.right, G)
         IN IF IsOptional(l.ty) THEN Either(NotNone(l), l, r, Coalesced(l.ty, r.ty)) ELSE l
    [] e.is = "bin" /\ e.op = "instanceof" ->
         Applied(<<"instanceof", e.right>>, <<Hir(e.left, G)>>, BoolType)
    [] e.is = "bin" -> BinaryOf(e.op, Hir(e.left, G), Hir(e.right, RightScope(e, G)), BinaryType(e.op))
    [] e.is = "assign" ->
         AssignHir(e, Hir(e.target, G), Hir(e.value, G), HirOr(e.target.is = "member", e.target.obj, G))
    [] e.is = "pre" -> LET t == Hir(e.of, G) IN Storing(t, BinaryOf(e.op, t, One, t.ty))
    [] e.is = "post" -> LET t == Hir(e.of, G) IN [is |-> "post", op |-> e.op, target |-> t, ty |-> t.ty]
    [] e.is = "not" -> Applied(<<"rt", "not">>, <<Hir(e.of, G)>>, BoolType)
    [] e.is = "neg" -> LET r == Hir(e.of, G) IN BinaryOf("-", LiteralOf(0, r.ty), r, r.ty)
    [] e.is = "call" ->
         CallHir(e.callee, HirOr(e.callee.is \in {"member", "omember"}, e.callee.obj, G), Hirs(e.args, G), G)
    [] e.is = "new" ->
         [is |-> "new", class |-> e.class, ty |-> Instance(e.class),
          args |-> Arguments(<<e.class, "constructor">>, Hirs(e.args, G))]
    [] e.is = "ternary" ->
         LET a == Hir(e.yes, G) IN Either(Hir(e.cond, G), a, Hir(e.no, G), a.ty)
    [] e.is = "comma" -> LET s == Hirs(e.of, G) IN [is |-> "comma", of |-> s, ty |-> Last(s).ty]
    [] e.is = "array" -> ArrayHir(e.elems, Hirs(e.elems, G), ArrayOf(IntType))
    [] e.is = "object" -> ObjectHir(e.keys, Hirs(e.vals, G), Hirs(e.spreads, G))

---------------------------------------------------------------------------
(* MIR.  L holds the blocks so far, the current one, the number of        *)
(* temporaries, and the operand that has the value of what was lowered    *)
(* last.  An operand that is a variable is read by the instruction.       *)

Constantly(v) == [is |-> "const", val |-> v]
TempAt(n) == [is |-> "temp", name |-> n]
VarAt(x) == [is |-> "var", name |-> x]

Yielding(L, operand) == [L EXCEPT !.val = operand]
Put(L, inst) == [L EXCEPT !.blocks[L.cur] = Append(@, inst)]
Into(L, inst) == [Put(L, inst @@ [dst |-> TempAt(L.temps + 1)]) EXCEPT
                    !.temps = @ + 1, !.val = TempAt(L.temps + 1)]
InBlock(L, b) == [L EXCEPT !.cur = b]
CopyTo(dst, operand) == [op |-> "move", dst |-> dst, src |-> operand]
Invoke(f, operands) == [op |-> "call", callee |-> f, args |-> operands]
GoTo(b) == [op |-> "jump", to |-> b]

\* new_temp for the result, three new blocks, and the branch to the first two.
Fork(L) ==
  LET n == Len(L.blocks)
  IN Put([L EXCEPT !.blocks = @ \o <<<<>>, <<>>, <<>>>>, !.temps = @ + 1],
         [op |-> "branch", cond |-> L.val, yes |-> n + 1, no |-> n + 2])
EndArm(L, result, exit) == Put(Put(L, CopyTo(result, L.val)), GoTo(exit))

RECURSIVE Mir(_, _), StoreBack(_, _, _)

\* lower_expression: If, && and ||.
Diamond(then, else, C) ==
  LET n == Len(C.blocks)
      result == TempAt(C.temps + 1)
      T == EndArm(Mir(then, InBlock(Fork(C), n + 1)), result, n + 3)
      E == EndArm(Mir(else, InBlock(T, n + 2)), result, n + 3)
  IN Yielding(InBlock(E, n + 3), result)

Kept(operand) == [is |-> "operand", val |-> operand]
MirBinary(h, C) ==
  CASE h.op = "&&" -> Diamond(h.right, Kept(C.val), C)
    [] h.op = "||" -> Diamond(Kept(C.val), h.right, C)
    [] OTHER -> LET R == Mir(h.right, C)
                IN Into(R, [op |-> "binary", operator |-> h.op, left |-> C.val, right |-> R.val])

MirAll(hirs, L) ==
  FoldLeft(LAMBDA M, h : LET N == Mir(h, M) IN [N EXCEPT !.vals = Append(M.vals, N.val)],
           [L EXCEPT !.vals = <<>>], hirs)

\* An array that a call may have replaced is stored where it was read from.
StoreBack(h, v, L) ==
  CASE h.is = "var" -> Put(L, CopyTo(VarAt(h.name), v))
    [] h.is = "member" ->
         LET O == Mir(h.obj, L) IN Put(O, [op |-> "store", obj |-> O.val, name |-> h.name, src |-> v])
    [] h.is = "index" ->
         LET A == Mir(h.arr, L)
             I == Mir(h.at, A)
             S == Put(I, [op |-> "storeat", arr |-> A.val, at |-> I.val, src |-> v])
         IN IF h.arr.is \in {"member", "index"} /\ h.arr.ty.k = "arr" THEN StoreBack(h.arr, A.val, S) ELSE S
    [] OTHER -> L

MirAssign(t, V) ==
  CASE t.is = "var" -> Put(V, CopyTo(VarAt(t.name), V.val))
    [] t.is = "member" ->
         LET O == Mir(t.obj, V)
         IN Put(O, [op |-> "store", obj |-> O.val, name |-> t.name, src |-> V.val])
    [] t.is = "index" ->
         LET A == Mir(t.arr, V)
             I == Mir(t.at, A)
             S == Put(I, [op |-> "storeat", arr |-> A.val, at |-> I.val, src |-> V.val])
         IN IF t.arr.is = "member" /\ t.arr.ty.k = "arr" THEN StoreBack(t.arr, A.val, S) ELSE S
    [] OTHER -> V

Mutators == {<<"rt", "push">>, <<"rt", "reverse">>}
Receivers == {"var", "member", "index"}

\* A call, and for a call that changes an array the store of the array it returns.
MirCall(h, M) ==
  LET T == Into(M, Invoke(h.callee, M.vals))
      S == StoreBack(h.args[1], T.val, T)
      B == IF h.args[1].is \notin Receivers /\ M.vals[1].is # "const"
           THEN Put(S, CopyTo(M.vals[1], T.val)) ELSE S
  IN IF h.callee \notin Mutators THEN T
     ELSE IF h.callee = <<"rt", "push">> THEN Into(B, Invoke(<<"rt", "len">>, <<T.val>>))
     ELSE Yielding(B, T.val)

\* x++: the old value in a temporary, the new one stored.
Increment(op, T) ==
  Into(T, [op |-> "binary", operator |-> op, left |-> T.val, right |-> Constantly(1)])
MirPostfix(h, L) ==
  LET t == h.target
      A == CASE t.is = "var" -> Yielding(L, VarAt(t.name))
             [] t.is = "member" -> Mir(t.obj, L)
             [] t.is = "index" -> Mir(t.arr, L)
             [] OTHER -> Mir(t, L)
      I == IF t.is = "index" THEN Mir(t.at, A) ELSE A
      T == CASE t.is = "var" -> Into(A, [op |-> "move", src |-> A.val])
             [] t.is = "member" -> Into(A, [op |-> "load", obj |-> A.val, name |-> t.name])
             [] t.is = "index" -> Into(I, [op |-> "loadat", arr |-> A.val, at |-> I.val])
             [] OTHER -> A
      N == Increment(h.op, T)
      S == CASE t.is = "var" -> Put(N, CopyTo(A.val, N.val))
             [] t.is = "member" -> Put(N, [op |-> "store", obj |-> A.val, name |-> t.name, src |-> N.val])
             [] t.is = "index" -> Put(N, [op |-> "storeat", arr |-> A.val, at |-> I.val, src |-> N.val])
             [] OTHER -> T
  IN Yielding(S, T.val)

MirObject(h, T) ==
  Yielding(FoldLeft(LAMBDA M, i : LET V == Mir(h.vals[i], M)
                                IN Put(V, [op |-> "store", obj |-> T.val, name |-> h.keys[i], src |-> V.val]),
                  T, [i \in DOMAIN h.keys |-> i]), T.val)
MirArray(h, T) ==
  Yielding(FoldLeft(LAMBDA M, i : LET V == Mir(h.elems[i], M)
                                IN Put(V, [op |-> "storeat", arr |-> T.val, at |-> Constantly(i - 1), src |-> V.val]),
                  T, [i \in DOMAIN h.elems |-> i]), T.val)
MirNew(h, T) ==
  LET M == MirAll(h.args, T)
  IN Yielding(Into(M, Invoke(<<h.class, "constructor">>, <<T.val>> \o M.vals)), T.val)

MirVar(h, L) ==
  IF h.ty.k = "fn" /\ h.name \in DOMAIN Signatures THEN Into(L, Invoke(<<"closure", h.name>>, <<>>))
  ELSE Yielding(L, VarAt(h.name))
MirMember(h, O) ==
  IF h.name = "length" /\ h.obj.ty.k = "arr" THEN Into(O, Invoke(<<"rt", "len">>, <<O.val>>))
  ELSE Into(O, [op |-> "load", obj |-> O.val, name |-> h.name])

\* lower_expression
Mir(h, L) ==
  CASE h.is = "operand" -> Yielding(L, h.val)
    [] h.is = "lit" -> Yielding(L, Constantly(h.val))
    [] h.is = "var" -> MirVar(h, L)
    [] h.is = "bin" -> MirBinary(h, Mir(h.left, L))
    [] h.is = "if" -> Diamond(h.then, h.else, Mir(h.cond, L))
    [] h.is = "assign" -> LET V == Mir(h.value, L) IN Yielding(MirAssign(h.target, V), V.val)
    [] h.is = "call" -> MirCall(h, MirAll(h.args, L))
    [] h.is = "icall" -> LET F == Mir(h.callee, L)
                             M == MirAll(h.args, F)
                         IN Into(M, [op |-> "icall", callee |-> F.val, args |-> M.vals])
    [] h.is = "index" -> LET A == Mir(h.arr, L)
                             I == Mir(h.at, A)
                         IN Into(I, [op |-> "loadat", arr |-> A.val, at |-> I.val])
    [] h.is = "member" -> MirMember(h, Mir(h.obj, L))
    [] h.is = "object" -> MirObject(h, Into(L, Invoke(<<"rt", "object">>, <<>>)))
    [] h.is = "array" -> MirArray(h, Into(L, Invoke(<<"rt", "array">>, <<Constantly(Len(h.elems))>>)))
    [] h.is = "new" -> MirNew(h, Into(L, Invoke(<<"new", h.class>>, <<>>)))
    [] h.is = "comma" -> FoldLeft(LAMBDA M, x : Mir(x, M), L, h.of)
    [] h.is = "post" -> MirPostfix(h, L)

\* The last block ends with the operand that has the value.
Ending(L) == [blocks |-> Put(L, [op |-> "end", src |-> L.val]).blocks, temps |-> L.temps]
Lowered(e) ==
  Ending(Mir(Hir(e, Scope), [blocks |-> <<<<>>>>, cur |-> 1, temps |-> 0, val |-> Constantly(0), vals |-> <<>>]))

---------------------------------------------------------------------------
(* Calls.  s holds the variables, the heap, the calls made so far, and the *)
(* value of what was evaluated last.                                       *)

Fault == -99
HasValue(s, v) == [s EXCEPT !.v = v]
IsCell(s, v) == v > CellBase /\ v - CellBase \in DOMAIN s.heap
CellOf(s, v) == s.heap[v - CellBase]
Allocated(s, cell) == [s EXCEPT !.heap = Append(@, cell), !.v = CellBase + Len(s.heap) + 1]

\* What can be told of a value: a number, or the cell and the cells it refers to.
Seen(s, v) == IF IsCell(s, v) THEN CellOf(s, v).of ELSE v
Visible(s, v) ==
  IF ~IsCell(s, v) THEN v
  ELSE LET c == CellOf(s, v)
       IN IF c.is = "closure" THEN c ELSE [c EXCEPT !.of = [i \in DOMAIN c.of |-> Seen(s, c.of[i])]]

AllFields(c) == UNION {DOMAIN ClassTable[d].fields : d \in ToSet(Lineage(c))}
IsKindOf(c, d) == d \in ToSet(Lineage(c))

SetField(s, obj, m, v) ==
  IF IsCell(s, obj) /\ CellOf(s, obj).is = "object"
  THEN [s EXCEPT !.heap[obj - CellBase].of = (m :> v) @@ @] ELSE HasValue(s, Fault)
GetField(s, obj, m) ==
  IF IsCell(s, obj) /\ CellOf(s, obj).is = "object" /\ m \in DOMAIN CellOf(s, obj).of
  THEN CellOf(s, obj).of[m] ELSE Fault
SetAt(s, arr, i, v) ==
  IF IsCell(s, arr) /\ CellOf(s, arr).is = "array" /\ i \in 0..Len(CellOf(s, arr).of)
  THEN [s EXCEPT !.heap[arr - CellBase].of = IF i = Len(@) THEN Append(@, v) ELSE [@ EXCEPT ![i + 1] = v]]
  ELSE HasValue(s, Fault)
GetAt(s, arr, i) ==
  IF IsCell(s, arr) /\ CellOf(s, arr).is = "array" /\ i + 1 \in DOMAIN CellOf(s, arr).of
  THEN CellOf(s, arr).of[i + 1] ELSE Fault

\* A function of the program is called: that, and its arguments, is what it leaves
\* behind, besides the field or the variable it sets.
Called(f, args, s) ==
  LET sig == Signatures[f]
      t == [s EXCEPT !.out = Append(@, <<f, [i \in DOMAIN args |-> Visible(s, args[i])]>>), !.v = sig.gives]
      u == IF sig.sets = "" THEN t ELSE HasValue(SetField(t, args[1], sig.sets, Last(args)), sig.gives)
  IN IF sig.writes = "" THEN u ELSE [u EXCEPT !.vars[<<"", sig.writes>>] = 7]

\* The runtime's functions.
Runtime(f, args, s) ==
  CASE f[1] = "new" -> Allocated(s, [is |-> "object", class |-> f[2], of |-> [m \in AllFields(f[2]) |-> 0]])
    [] f[1] = "closure" -> Allocated(s, [is |-> "closure", of |-> f[2]])
    [] f[1] = "instanceof" ->
         HasValue(s, IF IsCell(s, args[1]) /\ CellOf(s, args[1]).is = "object"
                        /\ IsKindOf(CellOf(s, args[1]).class, f[2]) THEN 1 ELSE 0)
    [] f = <<"rt", "not">> -> HasValue(s, IF args[1] = 0 THEN 1 ELSE 0)
    [] f = <<"rt", "object">> -> Allocated(s, [is |-> "object", class |-> "", of |-> <<>>])
    [] f = <<"rt", "array">> -> Allocated(s, [is |-> "array", of |-> <<>> \o [i \in 1..args[1] |-> 0]])
    [] f[1] # "rt" \/ ~IsCell(s, args[1]) -> HasValue(s, Fault)
    [] f = <<"rt", "len">> -> HasValue(s, Len(CellOf(s, args[1]).of))
    [] f = <<"rt", "push">> -> HasValue([s EXCEPT !.heap[args[1] - CellBase].of = Append(@, args[2])], args[1])
    [] f = <<"rt", "reverse">> -> HasValue([s EXCEPT !.heap[args[1] - CellBase].of = Reverse(@)], args[1])
    [] f = <<"rt", "concat">> ->
         Allocated(s, [is |-> "array", of |-> CellOf(s, args[1]).of \o CellOf(s, args[2]).of])
    [] f = <<"rt", "merge">> ->
         HasValue([s EXCEPT !.heap[args[1] - CellBase].of = CellOf(s, args[2]).of @@ @], args[1])

Calls(f, args, s) == IF f \in DOMAIN Signatures THEN Called(f, args, s) ELSE Runtime(f, args, s)
CallsClosure(v, args, s) ==
  IF IsCell(s, v) /\ CellOf(s, v).is = "closure" THEN Called(CellOf(s, v).of, args, s) ELSE HasValue(s, Fault)

Arith(op, a, b) ==
  CASE op = "+" -> a + b
    [] op = "-" -> a - b
    [] op = "==" -> IF a = b THEN 1 ELSE 0
    [] op = "!=" -> IF a # b THEN 1 ELSE 0
    [] op = "<" -> IF a < b THEN 1 ELSE 0

---------------------------------------------------------------------------
(* What the blocks do. *)

Operand(x, s) ==
  CASE x.is = "const" -> x.val
    [] x.is = "var" -> s.vars[x.name]
    [] x.is = "temp" -> s.temps[x.name]
Operands(xs, s) == [i \in DOMAIN xs |-> Operand(xs[i], s)]

SetOperand(dst, s) ==
  IF dst.is = "var" THEN [s EXCEPT !.vars[dst.name] = s.v] ELSE [s EXCEPT !.temps[dst.name] = s.v]

\* gen_instruction_v2
Does(s, i) ==
  CASE i.op = "move" -> SetOperand(i.dst, HasValue(s, Operand(i.src, s)))
    [] i.op = "binary" ->
         SetOperand(i.dst, HasValue(s, Arith(i.operator, Operand(i.left, s), Operand(i.right, s))))
    [] i.op = "call" -> SetOperand(i.dst, Calls(i.callee, Operands(i.args, s), s))
    [] i.op = "icall" -> SetOperand(i.dst, CallsClosure(Operand(i.callee, s), Operands(i.args, s), s))
    [] i.op = "load" -> SetOperand(i.dst, HasValue(s, GetField(s, Operand(i.obj, s), i.name)))
    [] i.op = "store" -> SetField(s, Operand(i.obj, s), i.name, Operand(i.src, s))
    [] i.op = "loadat" -> SetOperand(i.dst, HasValue(s, GetAt(s, Operand(i.arr, s), Operand(i.at, s))))
    [] i.op = "storeat" -> SetAt(s, Operand(i.arr, s), Operand(i.at, s), Operand(i.src, s))

RECURSIVE RunsFrom(_, _, _)
RunsFrom(blocks, b, s) ==
  LET last == Last(blocks[b])
      t == FoldLeft(LAMBDA u, i : Does(u, i), s, Front(blocks[b]))
  IN CASE last.op = "end" -> HasValue(t, Operand(last.src, t))
       [] last.op = "jump" -> RunsFrom(blocks, last.to, t)
       [] last.op = "branch" -> RunsFrom(blocks, IF Operand(last.cond, t) # 0 THEN last.yes ELSE last.no, t)

\* What an evaluation leaves: its value, the calls it made, the variables and the first cells.
Outcome(s) ==
  [value |-> Visible(s, s.v), out |-> s.out, vars |-> [x \in DOMAIN s.vars |-> Visible(s, s.vars[x])],
   cells |-> [i \in DOMAIN Cells |-> Visible(s, CellBase + i)]]
Starting == [vars |-> Globals, heap |-> Cells, out |-> <<>>, v |-> 0]

Ran(code) ==
  Outcome(RunsFrom(code.blocks, 1, Starting @@ [temps |-> [n \in 1..code.temps |-> 0]]))

ExprInit == tree \in Trees /\ lowered = <<>> /\ computed = <<>>

Compile == lowered = <<>> /\ lowered' = <<Lowered(tree)>> /\ UNCHANGED <<tree, computed>>
RunCode == lowered # <<>> /\ computed = <<>> /\ computed' = <<Ran(lowered[1])>> /\ UNCHANGED <<tree, lowered>>

ExprNext == Compile \/ RunCode
ExprSpec == ExprInit /\ [][ExprNext]_exprVars

---------------------------------------------------------------------------
(* What the tree means: every operand is evaluated once, from left to      *)
(* right, and its value kept; of an assignment, the value first.  A member *)
(* is looked for in the class of the object.                               *)

RECURSIVE Evaluated(_, _)

\* The operands of e one after the other: their values in s.vals.
EvalAll(seq, s) ==
  FoldLeft(LAMBDA t, e : LET u == Evaluated(e, t) IN [u EXCEPT !.vals = Append(t.vals, u.v)],
           [s EXCEPT !.vals = <<>>], seq)

AccessorOf(c, kind, m) ==
  LET owners == SelectSeq(Lineage(c), LAMBDA d : m \in DOMAIN ClassTable[d][kind])
  IN IF owners = <<>> THEN <<>> ELSE <<Head(owners), ClassTable[Head(owners)][kind][m]>>
RunClass(s, v) == IF IsCell(s, v) /\ CellOf(s, v).is = "object" THEN CellOf(s, v).class ELSE ""

GetMember(m, s) ==
  LET getter == AccessorOf(RunClass(s, s.v), "getters", m)
  IN IF getter # <<>> THEN Called(getter, <<s.v>>, s)
     ELSE IF m = "length" /\ IsCell(s, s.v) /\ CellOf(s, s.v).is = "array"
     THEN HasValue(s, Len(CellOf(s, s.v).of))
     ELSE HasValue(s, GetField(s, s.v, m))
SetMember(obj, m, s) ==
  LET setter == AccessorOf(RunClass(s, obj), "setters", m)
  IN HasValue(IF setter # <<>> THEN Called(setter, <<obj, s.v>>, s) ELSE SetField(s, obj, m, s.v), s.v)

IsStatic(e) == e.is = "member" /\ IsClass(BaseName(e.obj)) /\ e.name \in DOMAIN ClassTable[e.obj.name].statics
PlaceOf(e) == IF e.is = "id" THEN <<"", e.name>> ELSE <<e.obj.name, e.name>>

\* Where a target is: nothing, its object, or its array and index.
EvalPlace(t, s) ==
  CASE t.is = "id" \/ IsStatic(t) -> EvalAll(<<>>, s)
    [] t.is = "member" -> EvalAll(<<t.obj>>, s)
    [] t.is = "index" -> EvalAll(<<t.arr, t.at>>, s)
ReadPlace(t, p, s) ==
  CASE t.is = "id" \/ IsStatic(t) -> HasValue(s, s.vars[PlaceOf(t)])
    [] t.is = "member" -> GetMember(t.name, HasValue(s, p[1]))
    [] t.is = "index" -> HasValue(s, GetAt(s, p[1], p[2]))
WritePlace(t, p, s) ==
  CASE t.is = "id" \/ IsStatic(t) -> [s EXCEPT !.vars[PlaceOf(t)] = s.v]
    [] t.is = "member" -> SetMember(p[1], t.name, s)
    [] t.is = "index" -> HasValue(SetAt(s, p[1], p[2], s.v), s.v)

\* The old value of t replaced by its sum with the value of s, or its difference.
Update(t, op, p, delta, s) ==
  LET r == ReadPlace(t, p, s) IN WritePlace(t, p, HasValue(r, Arith(op, r.v, delta)))

\* t op= v is t = t op v.
EvalCompound(e, p) ==
  LET old == ReadPlace(e.target, p.vals, p)
      v == Evaluated(e.value, old)
  IN WritePlace(e.target, p.vals, HasValue(v, Arith(PlainOp(e.op), old.v, v.v)))
EvalSimple(e, v) ==
  LET p == EvalPlace(e.target, v) IN WritePlace(e.target, p.vals, HasValue(p, v.v))
EvalAssign(e, s) ==
  IF e.op = "=" THEN EvalSimple(e, Evaluated(e.value, s)) ELSE EvalCompound(e, EvalPlace(e.target, s))
EvalPostfix(e, p) ==
  LET r == ReadPlace(e.of, p.vals, p) IN HasValue(Update(e.of, e.op, p.vals, 1, p), r.v)

\* A rest parameter has the arguments beyond the fixed ones in an array; a parameter no
\* argument is given for has its default.
Complete(f, args, s) ==
  LET sig == Signatures[f]
      n == Len(args) + (IF sig.method THEN 1 ELSE 0)
  IN IF sig.rest < 0
     THEN [s EXCEPT !.vals = args \o [i \in 1..sig.arity - n |->
             IF sig.defaults[n + i] = Absent THEN 0 ELSE sig.defaults[n + i].val]]
     ELSE LET t == Allocated(s, [is |-> "array", of |-> SubSeq(args, sig.rest + 1, Len(args))])
          IN [t EXCEPT !.vals = Append(SubSeq(args, 1, sig.rest), t.v)]
CallTheFunction(f, this, args, s) ==
  LET t == Complete(f, args, s) IN Called(f, this \o t.vals, t)

ArrayMethod(m, s) ==
  LET t == Runtime(<<"rt", m>>, s.vals, s)
  IN IF m = "push" THEN Runtime(<<"rt", "len">>, <<s.vals[1]>>, t) ELSE t

\* s.vals: the receiver and the arguments.
CallMethod(m, s) ==
  LET obj == s.vals[1]
      owners == SelectSeq(Lineage(RunClass(s, obj)), LAMBDA c : <<c, m>> \in DOMAIN Signatures)
  IN IF IsCell(s, obj) /\ CellOf(s, obj).is = "array" THEN ArrayMethod(m, s)
     ELSE IF owners # <<>> THEN CallTheFunction(<<Head(owners), m>>, <<obj>>, Tail(s.vals), s)
     ELSE CallsClosure(GetField(s, obj, m), Tail(s.vals), s)

EvalCall(e, s) ==
  LET f == e.callee
      args == EvalAll(e.args, s)
  IN CASE f.is = "member" /\ IsClass(BaseName(f.obj)) ->
            CallTheFunction(<<f.obj.name, f.name>>, <<>>, args.vals, args)
       [] f.is = "member" /\ BaseName(f.obj) = "super" ->
            CallTheFunction(<<ParentClass, f.name>>, <<s.vars[<<"", "this">>]>>, args.vals, args)
       [] f.is = "member" -> CallMethod(f.name, EvalAll(<<f.obj>> \o e.args, s))
       [] f.is = "omember" -> LET o == Evaluated(f.obj, s)
                              IN IF o.v = 0 THEN o ELSE CallMethod(f.name, EvalAll(<<f.obj>> \o e.args, s))
       [] f.is = "super" ->
            CallTheFunction(<<ParentClass, "constructor">>, <<s.vars[<<"", "this">>]>>, args.vals, args)
       [] <<"", f.name>> \in DOMAIN Signatures -> CallTheFunction(<<"", f.name>>, <<>>, args.vals, args)
       [] OTHER -> CallsClosure(s.vars[<<"", f.name>>], args.vals, args)

EvalNew(e, a) ==
  LET o == Runtime(<<"new", e.class>>, <<>>, a)
  IN HasValue(CallTheFunction(<<e.class, "constructor">>, <<o.v>>, a.vals, o), o.v)

EvalArray(e, s) ==
  LET a == EvalAll([i \in DOMAIN e.elems |-> IF e.elems[i].is = "spread" THEN e.elems[i].of ELSE e.elems[i]], s)
      Part(i) == IF e.elems[i].is = "spread" THEN CellOf(a, a.vals[i]).of ELSE <<a.vals[i]>>
  IN Allocated(a, [is |-> "array", of |-> FlattenSeq([i \in DOMAIN e.elems |-> Part(i)])])
EvalObject(e, s) ==
  LET a == EvalAll(e.vals \o e.spreads, s)
      own == [k \in ToSet(e.keys) |-> a.vals[CHOOSE i \in DOMAIN e.keys : e.keys[i] = k]]
  IN Allocated(a, [is |-> "object", class |-> "",
                   of |-> FoldLeft(LAMBDA p, v : CellOf(a, v).of @@ p, own,
                                   SubSeq(a.vals, Len(e.keys) + 1, Len(a.vals)))])

EvalBinary(e, s) ==
  LET l == Evaluated(e.left, s)
      r == Evaluated(e.right, l)
  IN CASE e.op = "instanceof" -> Runtime(<<"instanceof", e.right>>, <<l.v>>, l)
       [] e.op = "&&" -> IF l.v = 0 THEN l ELSE r
       [] e.op = "||" -> IF l.v # 0 THEN l ELSE r
       [] OTHER -> HasValue(r, Arith(e.op, l.v, r.v))

Evaluated(e, s) ==
  CASE e.is = "num" -> HasValue(s, e.val)
    [] e.is = "none" -> HasValue(s, 0)
    [] e.is = "some" -> Evaluated(e.of, s)
    [] e.is = "id" -> IF <<"", e.name>> \in DOMAIN Signatures
                      THEN Runtime(<<"closure", <<"", e.name>>>>, <<>>, s)
                      ELSE HasValue(s, s.vars[<<"", e.name>>])
    [] e.is \in {"member", "index"} -> LET p == EvalPlace(e, s) IN ReadPlace(e, p.vals, p)
    [] e.is = "omember" -> LET o == Evaluated(e.obj, s) IN IF o.v = 0 THEN o ELSE GetMember(e.name, o)
    [] e.is = "oindex" -> LET a == Evaluated(e.arr, s)
                              i == Evaluated(e.at, a)
                          IN IF a.v = 0 THEN a ELSE HasValue(i, GetAt(i, a.v, i.v))
    [] e.is = "coalesce" -> LET l == Evaluated(e.left, s) IN IF l.v # 0 THEN l ELSE Evaluated(e.right, l)
    [] e.is = "bin" -> EvalBinary(e, s)
    [] e.is = "assign" -> EvalAssign(e, s)
    [] e.is = "pre" -> LET p == EvalPlace(e.of, s) IN Update(e.of, e.op, p.vals, 1, p)
    [] e.is = "post" -> EvalPostfix(e, EvalPlace(e.of, s))
    [] e.is = "not" -> LET r == Evaluated(e.of, s) IN HasValue(r, IF r.v = 0 THEN 1 ELSE 0)
    [] e.is = "neg" -> LET r == Evaluated(e.of, s) IN HasValue(r, 0 - r.v)
    [] e.is = "call" -> EvalCall(e, s)
    [] e.is = "new" -> EvalNew(e, EvalAll(e.args, s))
    [] e.is = "ternary" -> LET c == Evaluated(e.cond, s) IN Evaluated(IF c.v # 0 THEN e.yes ELSE e.no, c)
    [] e.is = "comma" -> EvalAll(e.of, s)
    [] e.is = "array" -> EvalArray(e, s)
    [] e.is = "object" -> EvalObject(e, s)

MeantBy(e) == Outcome(Evaluated(e, Starting @@ [vals |-> <<>>]))

---------------------------------------------------------------------------
(* Properties. *)


=============================================================================
