------------------------------ MODULE TypeChecker ------------------------------
(***************************************************************************)
(* The type checker (compiler/middle/semantic): it collects what a program *)
(* declares, works out the return types that are left out, and then checks *)
(* each declaration, narrowing a variable's type where a test has shown    *)
(* more about it.  A program it has no diagnostics for is compiled, with   *)
(* no further check when it runs.                                          *)
(*                                                                         *)
(* A program is a sequence of declarations, trees as the parser builds     *)
(* them; what may be left out is a sequence of at most one element.        *)
(* Generic parameters, modules and promises are left out.                  *)
(***************************************************************************)
EXTENDS TypedRuns, TypeRelations

CONSTANTS CheckedPrograms   \* the programs

VARIABLES program, checker, phase, ends

typingVars == <<program, checker, phase, ends>>

---------------------------------------------------------------------------
(* Where a statement ends. *)

RECURSIVE GuaranteesExit(_), GuaranteesFunctionExit(_)

TryExits(s, tried, handled, finished) == finished \/ (tried /\ (s.catch = "" \/ handled))

GuaranteesExit(s) ==
  CASE s.is \in {"return", "throw", "break", "continue"} -> TRUE
    [] s.is = "block" -> \E i \in DOMAIN s.of : GuaranteesExit(s.of[i])
    [] s.is = "if" -> s.else # <<>> /\ GuaranteesExit(s.then) /\ GuaranteesExit(s.else[1])
    [] s.is = "try" -> TryExits(s, GuaranteesExit(s.body), GuaranteesExit(s.handler),
                                s.finally # <<>> /\ GuaranteesExit(s.finally[1]))
    [] OTHER -> FALSE

\* A loop that has no condition, or the literal true for one, is taken for endless.
Endless(s) == IF s.is = "for" THEN s.cond = <<>> ELSE s.cond.is = "bool" /\ s.cond.val

GuaranteesFunctionExit(s) ==
  CASE s.is \in {"return", "throw"} -> TRUE
    [] s.is = "block" -> \E i \in DOMAIN s.of : GuaranteesFunctionExit(s.of[i])
    [] s.is = "if" -> s.else # <<>> /\ GuaranteesFunctionExit(s.then) /\ GuaranteesFunctionExit(s.else[1])
    [] s.is \in {"while", "for"} -> Endless(s) /\ GuaranteesFunctionExit(s.body)
    [] s.is = "switch" -> /\ \E i \in DOMAIN s.cases : s.cases[i].when = <<>>
                          /\ \A i \in DOMAIN s.cases : GuaranteesFunctionExit(s.cases[i].body)
    [] s.is = "try" -> TryExits(s, GuaranteesFunctionExit(s.body), GuaranteesFunctionExit(s.handler),
                                s.finally # <<>> /\ GuaranteesFunctionExit(s.finally[1]))
    [] OTHER -> FALSE

---------------------------------------------------------------------------
(* What a condition shows of a variable: its type where the condition holds and where it *)
(* does not.                                                                            *)

RECURSIVE Tells(_, _)

MergeThen(s, t, cx) ==
  CASE s = <<>> -> t
    [] t = <<>> -> s
    [] s[1] = NoneTy -> t
    [] t[1] = NoneTy -> s
    [] Compatible(s[1], t[1], cx) -> t
    [] Compatible(t[1], s[1], cx) -> s
    [] OTHER -> t


\* Of a conjunction nothing is known where it fails.
CombineAnd(l, r, cx) ==
  CASE l = <<>> /\ r = <<>> -> <<>>
    [] l = <<>> -> <<[r[1] EXCEPT !.else = <<>>]>>
    [] r # <<>> /\ r[1].name = l[1].name ->
         <<[name |-> l[1].name, then |-> MergeThen(l[1].then, r[1].then, cx), else |-> <<>>]>>
    [] OTHER -> <<[l[1] EXCEPT !.else = <<>>]>>

\* The scope of what is evaluated only where the left operand held, or did not.
UnderLeft(e, n, cx) ==
  LET known == IF n = <<>> THEN <<>> ELSE IF e.op = "&&" THEN n[1].then ELSE n[1].else
  IN IF known = <<>> THEN EnterScope(cx) ELSE DefineNarrowed(n[1].name, known[1], EnterScope(cx))

NoneTest(x, op, cx) ==
  LET s == Lookup(x, cx)
      some == <<s[1].ty.of>>
  IN IF op \notin {"==", "!="} \/ s = <<>> THEN <<>>
     ELSE IF s[1].ty.k # "opt" THEN <<>>
     ELSE <<[name |-> x, then |-> IF op = "!=" THEN some ELSE <<NoneTy>>,
             else |-> IF op = "!=" THEN <<NoneTy>> ELSE some]>>

InstanceTest(x, c, cx) ==
  LET s == Lookup(x, cx)
  IN IF s = <<>> THEN <<>>
     ELSE IF s[1].ty.k = "opt" THEN <<>>
     ELSE <<[name |-> x, then |-> <<ClassTy(c)>>, else |-> <<s[1].ty>>]>>

Tells(e, cx) ==
  CASE e.is = "not" -> LET n == Tells(e.of, cx)
                       IN IF n = <<>> THEN <<>>
                          ELSE <<[name |-> n[1].name, then |-> n[1].else, else |-> n[1].then]>>
    [] e.is = "bin" /\ e.op = "&&" ->
         LET l == Tells(e.left, cx)
         IN CombineAnd(l, Tells(e.right, UnderLeft(e, l, cx)), cx)
    [] e.is = "bin" /\ e.op = "instanceof" /\ e.left.is = "id" /\ e.right.is = "id" ->
         InstanceTest(e.left.name, e.right.name, cx)
    [] e.is = "bin" /\ e.left.is = "id" /\ e.right.is = "none" -> NoneTest(e.left.name, e.op, cx)
    [] e.is = "bin" /\ e.left.is = "none" /\ e.right.is = "id" -> NoneTest(e.right.name, e.op, cx)
    [] OTHER -> <<>>

---------------------------------------------------------------------------
(* The first pass: what is declared. *)

ParamTypes(params) == [i \in DOMAIN params |-> IF params[i].type = <<>> THEN Inferred ELSE params[i].type[1]]
Required(params) == Cardinality({i \in DOMAIN params : params[i].default = <<>> /\ ~params[i].rest})
ReturnTy(ret, missing) == IF ret = <<>> THEN missing ELSE ret[1]

FunctionSymbol(f, types, ret) ==
  [SymbolOf(FunctionTy(types, ret)) EXCEPT
     !.min = IF Required(f.params) < Len(f.params) THEN <<Required(f.params)>> ELSE <<>>,
     !.variadic = \E i \in DOMAIN f.params : f.params[i].rest]

MemberMap(s, info) == [n \in {s[i].name : i \in DOMAIN s} |-> info[CHOOSE i \in DOMAIN s : s[i].name = n]]

FieldInfo(m) == [Public(ReturnTy(m.type, Inferred), m.static, FALSE, <<>>) EXCEPT !.access = m.access]
MethodTy(m, missing) == FunctionTy(ParamTypes(m.params), ReturnTy(m.ret, missing))
MethodInfo(m) ==
  [Public(MethodTy(m, Inferred), m.static, TRUE, <<Required(m.params)>>) EXCEPT !.access = m.access]
\* A property that has no setter is only read.
GetterInfo(c, g) ==
  Public(g.ret, FALSE, \A i \in DOMAIN c.setters : c.setters[i].name # g.name, <<>>)
SetterInfo(s) == Public(s.type, FALSE, FALSE, <<>>)
ConstructorInfo(f) == Public(FunctionTy(ParamTypes(f.params), VoidTy), FALSE, TRUE, <<Required(f.params)>>)

MembersOf(c) ==
  MemberMap(c.ctor, [i \in DOMAIN c.ctor |-> ConstructorInfo(c.ctor[i])])
  @@ MemberMap(c.getters, [i \in DOMAIN c.getters |-> GetterInfo(c, c.getters[i])])
  @@ MemberMap(c.setters, [i \in DOMAIN c.setters |-> SetterInfo(c.setters[i])])
  @@ MemberMap(c.methods, [i \in DOMAIN c.methods |-> MethodInfo(c.methods[i])])
  @@ MemberMap(c.fields, [i \in DOMAIN c.fields |-> FieldInfo(c.fields[i])])

CollectClass(c, cx) ==
  [Define(c.name, SymbolOf(ClassTy("class")), ReportIf(Len(cx.scopes) > 1, "E0114", cx)) EXCEPT
     !.abstracts = IF c.abstract THEN @ \cup {c.name} ELSE @,
     !.parents = IF c.parent = "" THEN @ ELSE (c.name :> c.parent) @@ @,
     !.members = (c.name :> MembersOf(c)) @@ @]
CollectFunction(f, cx) == Define(f.name, FunctionSymbol(f, ParamTypes(f.params), ReturnTy(f.ret, Inferred)), cx)
CollectAlias(a, cx) ==
  Define(a.name, [SymbolOf(ClassTy("type")) EXCEPT !.const = TRUE, !.alias = <<a.type>>], cx)
CollectEnum(e, cx) ==
  [Define(e.name, SymbolOf(ClassTy("enum")), cx) EXCEPT
     !.members = (e.name :> [m \in e.members |-> Public(ClassTy(e.name), TRUE, TRUE, <<>>)]) @@ @]
CollectInterface(f, cx) ==
  [Define(f.name, SymbolOf(ClassTy("interface")), cx) EXCEPT
     !.ifaces = (f.name :> MemberMap(f.methods, [i \in DOMAIN f.methods |->
                   Public(MethodTy(f.methods[i], VoidTy), FALSE, TRUE, <<>>)])) @@ @]

Collect(s, cx) ==
  CASE s.is = "class" -> CollectClass(s, cx)
    [] s.is = "function" -> CollectFunction(s, cx)
    [] s.is = "alias" -> CollectAlias(s, cx)
    [] s.is = "enum" -> CollectEnum(s, cx)
    [] s.is = "interface" -> CollectInterface(s, cx)
    [] OTHER -> cx
CollectAll(ss, cx) == FoldLeft(LAMBDA c, s : Collect(s, c), cx, ss)

---------------------------------------------------------------------------
(* The second pass: the return types that are left out, from the bodies. *)

RECURSIVE CheckNode(_, _), RefineReturns(_, _, _), RefineAgain(_, _, _, _)

\* The type of the first value that the body returns; its diagnostics are for later.
NamesOf(params) == [i \in DOMAIN params |-> params[i].name]
ToldTy(t) == IF t = Inferred THEN VoidTy ELSE t
InferReturn(f, cx) ==
  ToldTy(CheckNode(f.body, [DefineAll(NamesOf(f.params), ParamTypes(f.params), EnterScope(cx)) EXCEPT
                              !.ret = <<Inferred>>]).ret[1])

UpdateFunctionReturn(f, t, cx) ==
  LET at == Max(HeldBy(f, cx))
  IN IF HeldBy(f, cx) # {} /\ cx.scopes[at][f].ty.k = "fn"
     THEN [cx EXCEPT !.scopes[at][f].ty.ret = t] ELSE cx
UpdateMemberReturn(c, m, t, cx) ==
  IF c \in DOMAIN cx.members /\ m \in DOMAIN cx.members[c]
  THEN [cx EXCEPT !.members[c][m].ty.ret = t] ELSE cx

InClass(c, cx) ==
  LET own == Define("this", SymbolOf(ClassTy(c.name)), EnterScope([cx EXCEPT !.class = c.name, !.ctor = FALSE]))
  IN IF c.parent = "" THEN own ELSE Define("super", SymbolOf(ClassTy(c.parent)), own)

\* A function, or a method of the class s.
UpdateReturn(s, f, t, cx) ==
  IF s.is = "class" THEN UpdateMemberReturn(s.name, f.name, t, cx) ELSE UpdateFunctionReturn(f.name, t, cx)
RefineOne(s, f, cx) ==
  LET around == IF s.is = "class" THEN [InClass(s, cx) EXCEPT !.static = f.static] ELSE cx
  IN UpdateReturn(s, f, InferReturn(f, around), cx)
Refine(s, cx) ==
  FoldLeft(LAMBDA c, f : IF f.ret = <<>> THEN RefineOne(s, f, c) ELSE c, cx,
           CASE s.is = "class" -> s.methods [] s.is = "function" -> <<s>> [] OTHER -> <<>>)
RefineAll(ss, cx) == FoldLeft(LAMBDA c, s : Refine(s, c), cx, ss)

\* Once more while something changes, at most n times.
RefineReturns(ss, n, cx) == RefineAgain(ss, n, RefineAll(ss, cx), cx)
RefineAgain(ss, n, r, cx) == IF n = 1 \/ r = cx THEN r ELSE RefineReturns(ss, n - 1, r)
RefinePasses == 4

---------------------------------------------------------------------------
(* The third pass: statements. *)

\* An expression that has to give a t: a literal or a lambda takes its type from that.
CheckAs(e, t, cx) ==
  [CheckNode(e, [cx EXCEPT !.expected = t,
                       !.lambda = IF t # <<>> /\ t[1].k = "fn" THEN <<t[1].params>> ELSE <<>>])
     EXCEPT !.expected = cx.expected, !.lambda = cx.lambda]

\* e has been checked: it goes to a t.
Accepts(t, cx, code) == ReportIf(~AssignmentCompatible(t, cx.ty, cx), code, cx)

Literal(e) == CASE e.is = "num" -> <<e.val>>
                [] e.is = "neg" /\ e.of.is = "num" -> <<0 - e.of.val>>
                [] OTHER -> <<>>
NumericBounds(e, t, cx) ==
  ReportIf(t.k = "byte" /\ Literal(e) # <<>> /\ Literal(e)[1] \notin 0..255, "E0111", cx)

RECURSIVE DefinePattern(_, _, _, _)
DefinePattern(p, t, s, cx) ==
  CASE p.is = "id" -> DefineVariable(p.name, [s EXCEPT !.ty = t], cx)
    [] p.is = "elems" ->
         LET of == IF t.k = "list" THEN t.of ELSE Inferred
             firsts == FoldLeft(LAMBDA c, q : DefinePattern(q, of, [s EXCEPT !.length = <<>>], c), cx, p.of)
         IN FoldLeft(LAMBDA c, q : DefinePattern(q, IF of = Inferred THEN of ELSE ListTy(of),
                                                 [s EXCEPT !.length = <<>>], c), firsts, p.rest)
    [] p.is = "props" ->
         FoldLeft(LAMBDA c, q :
                    LET m == ResolveMember(t, q.key, cx)
                    IN DefinePattern(q.to, IF m = <<>> THEN Inferred ELSE m[1].info.ty,
                                     [s EXCEPT !.length = <<>>], c),
                  cx, p.of)

LetSymbol(s) ==
  [SymbolOf(Inferred) EXCEPT
     !.const = s.const,
     !.length = IF s.init # <<>> /\ s.init[1].is = "array" THEN <<Len(s.init[1].elems)>> ELSE <<>>]

\* Where no type is written the initializer has to tell it.
CheckLetInit(s, cx) ==
  LET r == CheckAs(s.init[1], IF s.type = <<AnyTy>> THEN <<>> ELSE s.type, cx)
      untold == r.ty \in {AnyTy, NoneTy, Inferred, ListTy(ClassTy(""))}
      t == IF s.type # <<>> THEN s.type[1] ELSE IF untold THEN Inferred ELSE r.ty
  IN DefinePattern(s.pattern, t, LetSymbol(s),
       IF s.type = <<>>
       THEN NumericBounds(s.init[1], t,
              ReportIf(untold, "E0101", ReportIf(untold /\ r.ty.k = "list", "E0106", r)))
       ELSE NumericBounds(s.init[1], t, Accepts(t, r, "E0100")))

CheckLet(s, cx) ==
  LET known == ReportIf(s.type # <<>> /\ ~ValidType(s.type[1], cx), "E0101", cx)
  IN IF s.init # <<>> THEN CheckLetInit(s, known)
     ELSE DefinePattern(s.pattern, ReturnTy(s.type, Inferred), LetSymbol(s),
                        ReportIf(s.type = <<>> \/ s.const, "E0101", known))

CheckDel(s, cx) == ReportIf(s.of.is \notin {"id", "member"}, "E0100", cx)

CheckEach(ss, cx) == FoldLeft(LAMBDA c, s : CheckNode(s, c), cx, ss)
CheckBlock(s, cx) ==
  LeaveScope(CheckEach(s.of, RefineReturns(s.of, RefinePasses, CollectAll(s.of, EnterScope(cx)))))

\* A branch, with what the condition shows.
CheckBranch(s, n, known, cx) ==
  IF n = <<>> THEN CheckNode(s, cx)
  ELSE LeaveScope(CheckNode(s, IF known = <<>> THEN EnterScope(cx) ELSE DefineNarrowed(n[1].name, known[1], EnterScope(cx))))

\* After a branch that leaves, the other one's is known: to the end of the scope.
AfterBranches(s, n, cx) ==
  LET left == GuaranteesExit(s.then)
      leftElse == s.else # <<>> /\ GuaranteesExit(s.else[1])
      known == IF left /\ ~leftElse THEN n[1].else ELSE IF leftElse /\ ~left THEN n[1].then ELSE <<>>
  IN IF n = <<>> THEN cx ELSE IF known = <<>> THEN cx ELSE DefineNarrowed(n[1].name, known[1], cx)

CheckBranches(s, n, cx) ==
  LET then == CheckBranch(s.then, n, IF n = <<>> THEN <<>> ELSE n[1].then, cx)
      else == FoldLeft(LAMBDA c, b : CheckBranch(b, n, IF n = <<>> THEN <<>> ELSE n[1].else, c), then, s.else)
  IN AfterBranches(s, n, else)
CheckIf(s, cx) == CheckBranches(s, Tells(s.cond, cx), cx)

InLoop(cx) == [cx EXCEPT !.loops = @ + 1]
OutOfLoop(cx) == [cx EXCEPT !.loops = @ - 1]

\* A body is checked twice, each time with what the condition shows where the loop begins.
CheckTurns(s, n, step, cx) ==
  FoldLeft(LAMBDA c, i : CheckEach(step, CheckBranch(s.body, n, IF n = <<>> THEN <<>> ELSE n[1].then, c)),
           cx, <<1, 2>>)
CheckWhile(s, cx) == OutOfLoop(CheckTurns(s, Tells(s.cond, cx), <<>>, InLoop(cx)))
CheckFor(s, cx) ==
  LET c == CheckEach(s.cond, CheckEach(s.init, EnterScope(cx)))
  IN LeaveScope(OutOfLoop(CheckTurns(s, IF s.cond = <<>> THEN <<>> ELSE Tells(s.cond[1], c), s.step, InLoop(c))))
CheckForOf(s, cx) ==
  LET of == CASE cx.ty.k = "list" -> cx.ty.of
              [] cx.ty = StringTy -> StringTy
              [] OTHER -> AnyTy
  IN LeaveScope(OutOfLoop(CheckNode(s.body,
       DefinePattern(s.pattern, of, SymbolOf(of),
         InLoop(EnterScope(ReportIf(cx.ty.k # "list" /\ cx.ty # StringTy, "E0100", cx)))))))
CheckLeavesLoop(cx) == ReportIf(cx.loops = 0, "E0112", cx)

\* The functions that a handler declares have their return types left as they are.
CheckTry(s, cx) ==
  LET handled == IF s.catch = "" THEN cx
                 ELSE LeaveScope(CheckEach(s.handler.of,
                        CollectAll(s.handler.of, Define(s.catch, SymbolOf(ClassTy("Error")), EnterScope(cx)))))
  IN CheckEach(s.finally, handled)

CheckReturnedValue(s, t, cx) ==
  LET r == IF s.of = <<>> THEN WithTy(cx, VoidTy) ELSE CheckAs(s.of[1], <<t>>, cx)
  IN IF t = Inferred THEN [r EXCEPT !.ret = <<r.ty>>] ELSE Accepts(t, r, "E0107")
CheckReturn(s, cx) == IF cx.ret = <<>> THEN Report(cx, {"E0107"}) ELSE CheckReturnedValue(s, cx.ret[1], cx)

CheckThrow(cx) == ReportIf(cx.ty = AnyTy \/ ~Compatible(ClassTy("Error"), cx.ty, cx), "E0115", cx)

\* Functions: a parameter has the type that is written, or its default's.
ParamTy(p, cx) ==
  IF p.type # <<>> THEN p.type[1]
  ELSE IF p.default # <<>> THEN CheckNode(p.default[1], cx).ty ELSE Inferred
ParamErrors(params, types, cx) ==
  UNION {IF \/ params[i].type = <<>> /\ params[i].default = <<>>
            \/ ~ValidType(types[i], cx)
            \/ params[i].rest /\ types[i].k # "list" /\ ~Unknown(types[i])
         THEN {"E0101"} ELSE {} : i \in DOMAIN params}
CheckDefault(p, t, cx) ==
  IF p.default = <<>> THEN cx
  ELSE LET r == CheckAs(p.default[1], <<t>>, cx) IN IF Unknown(t) THEN r ELSE Accepts(t, r, "E0100")
DefineParams(params, types, cx) ==
  FoldLeft(LAMBDA c, i : Define(params[i].name, SymbolOf(types[i]), CheckDefault(params[i], types[i], c)),
           cx, [i \in DOMAIN params |-> i])

\* A body, where ret is what it returns; the caller's context is as before afterwards.
CheckBody(body, ret, cx) == CheckNode(body, [cx EXCEPT !.ret = <<ret>>])
Restored(r, cx) ==
  [LeaveScope(r) EXCEPT !.ret = cx.ret, !.static = cx.static, !.ctor = cx.ctor, !.class = cx.class]

RequiresReturn(ret, body) == ret \notin {VoidTy, Inferred} /\ ~GuaranteesFunctionExit(body)

CheckFunctionAs(f, types, ret, cx) ==
  LET known == Define(f.name, FunctionSymbol(f, types, ret),
                      ReportIf(ret # Inferred /\ ~ValidType(ret, cx), "E0101",
                               Report(cx, ParamErrors(f.params, types, cx))))
      r == CheckBody(f.body, ret, DefineParams(f.params, types, EnterScope(known)))
      told == IF f.ret # <<>> \/ r.ret[1] = Inferred THEN r ELSE UpdateFunctionReturn(f.name, r.ret[1], r)
  IN Restored(ReportIf(RequiresReturn(ret, f.body), "E0107", told), cx)
CheckFunction(f, cx) ==
  LET s == Lookup(f.name, cx)
  IN CheckFunctionAs(f, [i \in DOMAIN f.params |-> ParamTy(f.params[i], cx)],
       IF f.ret # <<>> THEN f.ret[1]
       ELSE IF s = <<>> THEN VoidTy ELSE IF s[1].ty.k = "fn" THEN s[1].ty.ret ELSE VoidTy, cx)

ImplementErrors(c, cx) ==
  LET Unmet(i, m) ==
        LET own == ResolveMember(ClassTy(c.name), m, cx)
        IN CASE own = <<>> -> {"E0111"}
             [] own[1].info.static \/ own[1].info.access # "public" -> {"E0111"}
             [] ~MatchesStrictly(cx.ifaces[i][m].ty, own[1].info.ty, cx) -> {"E0100"}
             [] OTHER -> {}
  IN UNION {IF Lookup(i, cx) = <<>> THEN {"E0101"}
            ELSE IF i \notin DOMAIN cx.ifaces THEN {}
            ELSE UNION {Unmet(i, m) : m \in DOMAIN cx.ifaces[i]} : i \in c.implements}

\* A method keeps the modifier, the visibility and the signature of the ones above it.
OverrideErrors(c, cx) ==
  LET Broken(o, m) ==
        /\ o.access # "private"
        /\ \/ o.static # m.static
           \/ AccessRank[m.access] < AccessRank[o.access]
           \/ ~MatchesStrictly(o.ty, MethodTy(m, VoidTy), cx)
      Above(p) == IF p \in DOMAIN cx.members THEN cx.members[p] ELSE <<>>
  IN IF \E p \in ToSet(ParentChain(c.name, cx)), m \in ToSet(c.methods) :
          m.name \in DOMAIN Above(p) /\ Broken(Above(p)[m.name], m)
     THEN {"E0100"} ELSE {}

IsSuperCall(s) == s.is = "expr" /\ s.of.is = "call" /\ s.of.callee.is = "super"
\* A constructor begins with super() when there is one above it.
SuperErrors(c, stmts, cx) ==
  LET calls == {i \in DOMAIN stmts : IsSuperCall(stmts[i])}
      needed == \E p \in ToSet(ParentChain(c.name, cx)) :
                   p \in DOMAIN cx.members /\ "constructor" \in DOMAIN cx.members[p]
  IN IF c.parent # "" /\ (calls \ {1} # {} \/ (calls = {} /\ needed)) THEN {"E0111"} ELSE {}

HeadErrors(c, cx) ==
  LET cyclic == InCycle(c.name, cx)
  IN (IF cyclic THEN {"E0111"} ELSE {})
     \cup (IF c.parent # "" /\ Lookup(c.parent, cx) = <<>> THEN {"E0101"} ELSE {})
     \cup ImplementErrors(c, cx)
     \cup (IF cyclic THEN {} ELSE OverrideErrors(c, cx)
                                  \cup UNION {SuperErrors(c, f.body.of, cx) : f \in ToSet(c.ctor)})

CheckField(m, cx) ==
  LET known == ReportIf(m.type = <<>> \/ ~ValidType(ReturnTy(m.type, Inferred), cx), "E0101", cx)
      r == CheckAs(m.init[1], m.type, [known EXCEPT !.static = m.static])
  IN IF m.init = <<>> THEN known
     ELSE [Accepts(ReturnTy(m.type, Inferred), r, "E0100") EXCEPT !.static = cx.static]

\* A method's body: whether it ends without a value is not asked.
CheckMember(names, types, ret, body, static, ctor, cx) ==
  CheckBody(body, ret, DefineAll(names, types, EnterScope([cx EXCEPT !.static = static, !.ctor = ctor])))
CheckMethod(c, m, cx) ==
  LET types == [i \in DOMAIN m.params |-> ParamTy(m.params[i], cx)]
      ret == ReturnTy(m.ret, cx.members[c.name][m.name].ty.ret)
      bad == ParamErrors(m.params, types, cx) # {} \/ (ret # Inferred /\ ~ValidType(ret, cx))
      r == CheckMember(NamesOf(m.params), types, ret, m.body, m.static, FALSE, ReportIf(bad, "E0101", cx))
      told == IF m.ret # <<>> \/ r.ret[1] = Inferred THEN r ELSE UpdateMemberReturn(c.name, m.name, r.ret[1], r)
  IN Restored(told, cx)
CheckConstructor(f, cx) ==
  LET types == ParamTypes(f.params)
  IN Restored(CheckMember(NamesOf(f.params), types, VoidTy, f.body, FALSE, TRUE,
                          Report(cx, ParamErrors(f.params, types, cx))), cx)
CheckGetter(g, cx) == Restored(CheckMember(<<>>, <<>>, g.ret, g.body, FALSE, FALSE, cx), cx)
CheckSetter(s, cx) ==
  Restored(CheckMember(<<s.param>>, <<s.type>>, VoidTy, s.body, FALSE, FALSE, cx), cx)

CheckClass(c, cx) ==
  LET fields == FoldLeft(LAMBDA r, m : CheckField(m, r), InClass(c, Report(cx, HeadErrors(c, cx))), c.fields)
      methods == FoldLeft(LAMBDA r, m : CheckMethod(c, m, r), fields, c.methods)
      ctor == FoldLeft(LAMBDA r, f : CheckConstructor(f, r), methods, c.ctor)
      getters == FoldLeft(LAMBDA r, g : CheckGetter(g, r), ctor, c.getters)
      setters == FoldLeft(LAMBDA r, s : CheckSetter(s, r), getters, c.setters)
  IN [LeaveScope(setters) EXCEPT !.class = ""]

\* Methods that are added to a type: known from here on.
CheckExtension(x, cx) ==
  LET this == ClassTy(x.class)
      One(c, m) ==
        LET own == Define("this", SymbolOf(this), EnterScope([c EXCEPT !.class = x.class]))
            r == CheckBody(m.body, ReturnTy(m.ret, Inferred), DefineAll(NamesOf(m.params), ParamTypes(m.params), own))
        IN Restored(ReportIf(RequiresReturn(ReturnTy(m.ret, Inferred), m.body), "E0107", r), c)
      added == MemberMap(x.methods, [i \in DOMAIN x.methods |-> MethodInfo(x.methods[i])])
      before == IF x.class \in DOMAIN cx.members THEN cx.members[x.class] ELSE <<>>
  IN [FoldLeft(One, cx, x.methods) EXCEPT !.members = (x.class :> (added @@ before)) @@ @]

---------------------------------------------------------------------------
(* The third pass: expressions. *)

CheckNumber(cx) ==
  WithTy(cx, IF cx.expected # <<>> /\ cx.expected[1].k \in Numeric THEN cx.expected[1] ELSE IntTy)

CheckName(x, cx) ==
  LET s == Lookup(x, cx) IN IF s = <<>> THEN Refused(cx, "E0102") ELSE WithTy(cx, s[1].ty)
CheckThis(cx) ==
  LET s == Lookup("this", cx)
  IN IF cx.static \/ s = <<>> THEN Refused(cx, "E0115") ELSE WithTy(cx, s[1].ty)
CheckSuper(cx) ==
  LET s == Lookup("super", cx)
  IN IF cx.static \/ s = <<>> THEN Refused(cx, "E0115") ELSE WithTy(cx, s[1].ty)

CheckNeg(cx) == IF cx.ty.k \in Numeric \/ cx.ty = Inferred THEN cx ELSE Refused(cx, "E0100")

CheckLambda(e, cx) ==
  LET given(i) == IF cx.lambda # <<>> /\ i <= Len(cx.lambda[1]) THEN cx.lambda[1][i] ELSE Inferred
      types == [i \in DOMAIN e.params |-> IF e.params[i].type = <<>> THEN given(i) ELSE e.params[i].type[1]]
      r == CheckBody(e.body, Inferred, DefineAll(NamesOf(e.params), types, EnterScope(cx)))
      ret == IF r.ret[1] = Inferred THEN VoidTy ELSE r.ret[1]
  IN WithTy([LeaveScope(r) EXCEPT !.ret = cx.ret], FunctionTy(types, ret))

CheckCast(e, cx) ==
  WithTy(ReportIf(/\ ~Unknown(cx.ty) /\ ~Unknown(e.type)
                 /\ ~Compatible(e.type, cx.ty, cx) /\ ~Compatible(cx.ty, e.type, cx), "E0106", cx), e.type)

Comparisons == {"==", "!=", "<", "<=", ">", ">="}
\* The type of an operation; of operands that nothing is known against, an integer.
OperationTy(op, l, cx) ==
  LET r == cx.ty
      alike == Compatible(l, r, cx) \/ Compatible(r, l, cx)
               \/ (op \in {"==", "!="} /\ NoneTy \in {l, r})
  IN CASE op \in Comparisons /\ ~alike -> Refused(cx, "E0106")
       [] op = "instanceof" /\ l.k = "opt" -> WithTy(Report(cx, {"E0106"}), BoolTy)
       [] StringTy \in {l, r} /\ op = "+" -> WithTy(cx, StringTy)
       [] StringTy \in {l, r} /\ op \notin Comparisons -> Refused(cx, "E0100")
       [] op \in Comparisons \cup {"&&", "||", "instanceof"} -> WithTy(cx, BoolTy)
       [] l.k \in Numeric /\ r.k \in Numeric /\ "float" \in {l.k, r.k} -> WithTy(cx, Kind("float"))
       [] OTHER -> WithTy(cx, IntTy)
CheckRight(e, cx) ==
  IF e.op \in {"&&", "||"} THEN LeaveScope(CheckNode(e.right, UnderLeft(e, Tells(e.left, cx), cx)))
  ELSE CheckNode(e.right, cx)
CheckBinary(e, cx) == OperationTy(e.op, cx.ty, CheckRight(e, cx))

\* A member of a class or an enumeration, by its name.
NamesClass(e, cx) ==
  e.is = "id" /\ (SymbolIs(e.name, ClassTy("class"), cx) \/ SymbolIs(e.name, ClassTy("enum"), cx))
  /\ e.name \in DOMAIN cx.members
StaticMember(c, m, cx) ==
  IF m \notin DOMAIN cx.members[c] THEN Refused(cx, "E0105")
  ELSE LET info == cx.members[c][m]
       IN WithTy(ReportIf(~info.static, "E0116",
                ReportIf(~Accessible(c, info.access, cx), "E0106", cx)), info.ty)
\* A member of an object.
InstanceMember(found, cx) ==
  WithTy(ReportIf(found.info.static, "E0116",
        ReportIf(~Accessible(found.owner, found.info.access, cx), "E0106", cx)), found.info.ty)
BuiltinMember(t, m) ==
  CASE m = "length" /\ (t = StringTy \/ t.k = "list") -> <<IntTy>>
    [] t.k = "list" /\ m = "push" -> <<FunctionTy(<<t, t.of>>, IntTy)>>
    [] t.k = "list" /\ m = "pop" -> <<FunctionTy(<<t>>, t.of)>>
    [] OTHER -> <<>>

MemberOf(e, t, cx) ==
  LET found == ResolveMember(t, e.name, cx)
  IN CASE t.k = "opt" -> Refused(cx, "E0105")
       [] t.k # "opt" /\ NamesClass(e.obj, cx) -> StaticMember(e.obj.name, e.name, cx)
       [] t.k # "opt" /\ ~NamesClass(e.obj, cx) /\ found # <<>> -> InstanceMember(found[1], cx)
       [] OTHER ->
            CASE BuiltinMember(t, e.name) # <<>> -> WithTy(cx, BuiltinMember(t, e.name)[1])
              [] t.k \in {"object", "any"} -> WithTy(cx, AnyTy)
              [] t = Inferred -> WithTy(cx, Inferred)
              [] OTHER -> Refused(cx, "E0105")
CheckMemberAccess(e, cx) == MemberOf(e, Aliased(cx.ty, cx), cx)

\* o?.m: of a class that has no m, nothing is said.
Wrapped(t, optional) == IF optional THEN OptionalTy(t) ELSE t
NonOptional(t) == IF t.k = "opt" THEN t.of ELSE t
CheckOptionalMember(e, cx) ==
  LET t == NonOptional(Aliased(cx.ty, cx))
      found == ResolveMember(t, e.name, cx)
  IN CASE BuiltinMember(t, e.name) # <<>> -> WithTy(cx, Wrapped(BuiltinMember(t, e.name)[1], cx.ty.k = "opt"))
       [] found = <<>> -> WithTy(cx, Inferred)
       [] ~Accessible(found[1].owner, found[1].info.access, cx) -> Refused(cx, "E0106")
       [] OTHER -> WithTy(cx, Wrapped(found[1].info.ty, cx.ty.k = "opt"))

\* cx.ty is the index's type, t the indexed value's.
CheckElement(t, optional, cx) ==
  LET known == ReportIf((t.k = "list" \/ t = StringTy) /\ cx.ty.k \notin Numeric /\ ~Unknown(cx.ty), "E0106", cx)
  IN CASE t.k = "list" -> WithTy(known, Wrapped(t.of, optional))
       [] t = StringTy -> WithTy(known, Wrapped(StringTy, optional))
       [] t.k \in {"any", "object"} -> WithTy(known, AnyTy)
       [] t = Inferred -> WithTy(known, Inferred)
       [] OTHER -> Refused(known, "E0105")
Among(e, t, cx) == [CheckNode(e, [cx EXCEPT !.expected = t]) EXCEPT !.expected = cx.expected]
CheckIndex(e, cx) ==
  LET t == Aliased(cx.ty, cx) IN CheckElement(t, FALSE, Among(e.at, <<IntTy>>, cx))
CheckOptionalIndex(e, cx) ==
  LET t == Aliased(cx.ty, cx) IN CheckElement(NonOptional(t), cx.ty.k = "opt", Among(e.at, <<IntTy>>, cx))

\* What may not be assigned to.
TargetTy(e, cx) ==
  IF e.is # "id" THEN CheckNode(e, cx)
  ELSE LET s == AssignmentTarget(e.name, cx)
       IN IF s = <<>> THEN Refused(cx, "E0102") ELSE WithTy(ReportIf(s[1].const, "E0104", cx), s[1].ty)
ReadOnly(e, cx) ==
  LET t == CheckNode(e.obj, cx).ty
      found == ResolveMember(t, e.name, cx)
  IN \/ e.name = "length" /\ (t.k = "list" \/ t = StringTy)
     \/ found # <<>> /\ found[1].info.readonly
     \/ NamesClass(e.obj, cx) /\ e.name \in DOMAIN cx.members[e.obj.name]
        /\ cx.members[e.obj.name][e.name].readonly
OutOfBounds(e, cx) ==
  /\ e.arr.is = "id" /\ Literal(e.at) # <<>>
  /\ \E s \in ToSet(Lookup(e.arr.name, cx)) :
       s.ty.k = "list" /\ s.length # <<>> /\ Literal(e.at)[1] \notin 0..s.length[1] - 1
TargetErrors(e, cx) ==
  CASE e.is = "member" -> IF ReadOnly(e, cx) THEN {"E0104"} ELSE {}
    [] e.is = "index" -> IF OutOfBounds(e, cx) THEN {"E0100"} ELSE {}
    [] OTHER -> {}
CheckAssigned(e, t, cx) ==
  LET r == Among(e.value, <<t>>, cx)
  IN IF Inferred \in {t, r.ty} THEN r ELSE NumericBounds(e.value, t, Accepts(t, r, "E0100"))
CheckAssign(e, cx) == CheckAssigned(e, cx.ty, Report(cx, TargetErrors(e.target, cx)))

\* Calls.  What is known of what is called: min where the function's name tells it.
NoSignature == [found |-> FALSE, params |-> <<>>, ret |-> Inferred, variadic |-> FALSE, min |-> <<>>]
SignatureOf(t) == IF t.k = "fn" THEN [NoSignature EXCEPT !.found = TRUE, !.params = t.params, !.ret = t.ret]
                  ELSE NoSignature
NamedSignature(s, cx) ==
  IF s = <<>> THEN NoSignature
  ELSE [SignatureOf(Aliased(s[1].ty, cx)) EXCEPT !.variadic = s[1].variadic, !.min = s[1].min]
MemberSignature(receiver, m, cx) ==
  LET found == ResolveMember(receiver, m, cx)
  IN IF BuiltinMember(receiver, m) # <<>> THEN SignatureOf(BuiltinMember(receiver, m)[1])
     ELSE IF found # <<>> THEN SignatureOf(found[1].info.ty) ELSE NoSignature
IsMember(e) == e.is \in {"member", "omember"}
FirstFound(sigs) == LET known == SelectSeq(sigs, LAMBDA s : s.found)
                    IN IF known = <<>> THEN NoSignature ELSE Head(known)
\* receiver is <<>>, or what the receiver's type is where it is there.
CalleeSignature(callee, t, receiver, cx) ==
  FirstFound(<<IF callee.is = "id" THEN NamedSignature(Lookup(callee.name, cx), cx) ELSE NoSignature,
               SignatureOf(IF callee.is = "omember" THEN NonOptional(t) ELSE t),
               IF receiver = <<>> THEN NoSignature ELSE MemberSignature(receiver[1], callee.name, cx)>>)

NotCallable(callee, t, receiver, cx) ==
  IF receiver = <<>> THEN ~Unknown(t)
  ELSE LET found == ResolveMember(receiver[1], callee.name, cx) IN found # <<>> /\ ~found[1].info.static

\* A member that is not known may be a function of that name.
GlobalSignature(callee, cx) ==
  IF IsMember(callee) THEN [NamedSignature(Lookup(callee.name, cx), cx) EXCEPT !.ret = Inferred, !.min = <<>>]
  ELSE NoSignature

ParamAt(sig, i) ==
  IF sig.variadic /\ i >= Len(sig.params)
  THEN IF Last(sig.params).k = "list" THEN Last(sig.params).of ELSE Inferred
  ELSE IF i \in DOMAIN sig.params THEN sig.params[i] ELSE Inferred
CheckArgument(e, t, exempt, cx) ==
  LET r == CheckAs(e, <<t>>, cx)
  IN ReportIf(t # Inferred /\ ~exempt /\ ~Compatible(t, r.ty, cx), "E0108", r)
CheckArguments(args, types, exempt, cx) ==
  FoldLeft(LAMBDA c, i : CheckArgument(args[i], types[i], exempt /\ types[i] = StringTy, c),
           cx, [i \in DOMAIN args |-> i])

AllOptional(types) == \A i \in DOMAIN types : types[i].k = "opt"
\* How many arguments there may be: what is missing has to be optional.
WrongCount(n, min, params) ==
  n > Len(params) \/ (n < min /\ min <= Len(params) /\ ~AllOptional(SubSeq(params, n + 1, min)))

\* A member that takes more than is given takes its receiver first.
TakesReceiver(callee, sig, args) == IsMember(callee) /\ Len(sig.params) > Len(args)
MinOf(sig, found, params) ==
  IF sig.min # <<>> THEN sig.min[1]
  ELSE IF found = <<>> THEN Len(params)
  ELSE IF found[1].info.min = <<>> THEN Len(params) ELSE found[1].info.min[1]
CheckGiven(e, sig, params, min, cx) ==
  LET r == CheckArguments(e.args, [i \in DOMAIN e.args |-> ParamAt([sig EXCEPT !.params = params], i)],
                          e.callee.is = "id" /\ e.callee.name \in {"print", "eprint"}, cx)
  IN ReportIf(/\ ~sig.variadic /\ sig.params # <<>> /\ Len(e.args) # Len(params)
              /\ WrongCount(Len(e.args), min, params), "E0109", r)
CheckCallee(e, sig, found, cx) ==
  LET params == IF TakesReceiver(e.callee, sig, e.args) THEN Tail(sig.params) ELSE sig.params
  IN CheckGiven(e, sig, params, MinOf(sig, found, params), cx)

\* cx.ty is the type of what is called.
CheckCallAs(e, sig, receiver, optional, cx) ==
  LET s == IF sig.found THEN sig ELSE GlobalSignature(e.callee, cx)
      found == IF receiver = <<>> \/ optional THEN <<>> ELSE ResolveMember(receiver[1], e.callee.name, cx)
  IN IF ~sig.found /\ NotCallable(e.callee, cx.ty, receiver, cx) THEN Refused(cx, "E0123")
     ELSE WithTy(CheckCallee(e, s, found, cx),
                IF s.ret = Inferred /\ cx.ty = Inferred THEN Inferred ELSE Wrapped(s.ret, optional))
CheckCallOf(e, t, receiver, optional, cx) ==
  CheckCallAs(e, CalleeSignature(e.callee, t, receiver, cx), receiver, optional, WithTy(cx, t))
CheckCall(e, owner, cx) ==
  CheckCallOf(e, Aliased(cx.ty, cx), IF owner = <<>> THEN <<>> ELSE <<Aliased(NonOptional(owner[1]), cx)>>,
              e.callee.is = "omember" /\ owner[1].k = "opt", cx)

\* The constructor that a class has, or the one above it.
ConstructorOf(c, cx) == ResolveMember(ClassTy(c), "constructor", cx)
CheckConstruction(args, params, min, cx) ==
  LET r == CheckArguments(args, [i \in DOMAIN args |-> IF i \in DOMAIN params THEN params[i] ELSE Inferred],
                          FALSE, cx)
  IN ReportIf(params # <<>> /\ WrongCount(Len(args), min, params), "E0109", r)

CheckSuperCall(args, cx) ==
  LET s == Lookup("super", cx)
      above == ConstructorOf(s[1].ty.name, cx)
      params == IF above = <<>> THEN <<>> ELSE above[1].info.ty.params
  IN IF cx.static \/ ~cx.ctor \/ s = <<>> THEN Refused(cx, "E0115")
     ELSE WithTy(CheckConstruction(args, params, Len(params), cx), VoidTy)

CheckNew(e, cx) ==
  LET own == ConstructorOf(e.class, cx)
      known == ReportIf(e.class \in cx.abstracts, "E0110", ReportIf(Lookup(e.class, cx) = <<>>, "E0101", cx))
  IN WithTy(IF own = <<>> THEN CheckConstruction(e.args, <<>>, 0, known)
           ELSE CheckConstruction(e.args, own[1].info.ty.params, own[1].info.min[1], known),
           ClassTy(e.class))

\* The elements of a list have one type, or a common ancestor's.
ElementTy(e, t) == IF e.is = "spread" /\ t.k = "list" THEN t.of ELSE t
JoinedTy(so, t, cx) ==
  IF so = <<>> THEN WithTy(cx, t)
  ELSE IF so[1] \in {t, AnyTy, Inferred} THEN WithTy(cx, so[1])
  ELSE LET common == CommonAncestor(so[1], t, cx)
       IN WithTy(ReportIf(common = Inferred, "E0100", cx), common)
CheckElements(e, of, cx) ==
  FoldLeft(LAMBDA s, el :
             LET r == CheckAs(el, of, s.cx)
                 t == IF of = <<AnyTy>> THEN AnyTy ELSE ElementTy(el, r.ty)
                 joined == JoinedTy(s.ty, t, r)
             IN [cx |-> joined, ty |-> <<joined.ty>>],
           [cx |-> cx, ty |-> <<>>], e.elems).cx
CheckArray(e, cx) ==
  LET of == IF cx.expected # <<>> /\ cx.expected[1].k = "list" THEN <<cx.expected[1].of>> ELSE <<>>
      r == CheckElements(e, of, cx)
  IN WithTy(r, ListTy(IF e.elems # <<>> THEN r.ty ELSE ReturnTy(of, ClassTy(""))))

CheckObject(e, cx) ==
  LET r == FoldLeft(LAMBDA s, i :
                      LET c == CheckNode(e.of[i].value, s.cx)
                      IN [cx |-> c, of |-> s.of @@ (e.of[i].key :> c.ty)],
                    [cx |-> cx, of |-> <<>>], [i \in DOMAIN e.of |-> i])
  IN WithTy(ReportIf(Cardinality(DOMAIN r.of) # Len(e.of), "E0111", r.cx), ObjectTy(r.of))

\* cx.ty is the left operand's type.
CheckCoalesce(e, l, cx) ==
  WithTy(cx, CASE l.k = "opt" -> l.of
              [] l \in {NoneTy, Inferred} -> cx.ty
              [] OTHER -> l)
CheckTernary(e, cx) ==
  LET yes == CheckNode(e.yes, CheckNode(e.cond, cx))
      no == CheckNode(e.no, yes)
  IN IF yes.ty = Inferred THEN no ELSE WithTy(no, yes.ty)

\* Declarations that the first pass has dealt with; statements that are not looked at.
Declared(s, cx) ==
  CASE s.is = "enum" -> Define(s.name, SymbolOf(ClassTy("enum")), cx)
    [] s.is = "interface" -> Define(s.name, SymbolOf(ClassTy("interface")), cx)
    [] OTHER -> cx

\* A node: what it is built from comes first, in the order of evaluation.
CheckNode(n, cx) ==
  CASE n.is = "num" -> CheckNumber(cx)
    [] n.is = "str" -> WithTy(cx, StringTy)
    [] n.is = "bool" -> WithTy(cx, BoolTy)
    [] n.is = "none" -> WithTy(cx, NoneTy)
    [] n.is = "id" -> CheckName(n.name, cx)
    [] n.is = "this" -> CheckThis(cx)
    [] n.is = "super" -> CheckSuper(cx)
    [] n.is = "not" -> WithTy(CheckNode(n.of, cx), BoolTy)
    [] n.is = "neg" -> CheckNeg(CheckNode(n.of, cx))
    [] n.is = "lambda" -> CheckLambda(n, cx)
    [] n.is = "as" -> CheckCast(n, CheckNode(n.of, cx))
    [] n.is = "bin" -> CheckBinary(n, CheckNode(n.left, cx))
    [] n.is = "member" -> CheckMemberAccess(n, CheckNode(n.obj, cx))
    [] n.is = "omember" -> CheckOptionalMember(n, CheckNode(n.obj, cx))
    [] n.is = "index" -> CheckIndex(n, Among(n.arr, <<>>, cx))
    [] n.is = "oindex" -> CheckOptionalIndex(n, Among(n.arr, <<>>, cx))
    [] n.is = "assign" -> CheckAssign(n, TargetTy(n.target, cx))
    [] n.is = "call" ->
         IF n.callee.is = "super" THEN CheckSuperCall(n.args, cx)
         ELSE CheckCall(n, IF IsMember(n.callee) THEN <<CheckNode(n.callee.obj, cx).ty>> ELSE <<>>,
                        CheckNode(n.callee, cx))
    [] n.is = "new" -> CheckNew(n, cx)
    [] n.is = "array" -> CheckArray(n, cx)
    [] n.is = "spread" -> CheckNode(n.of, cx)
    [] n.is = "object" -> CheckObject(n, cx)
    [] n.is = "coalesce" -> CheckCoalesce(n, CheckNode(n.left, cx).ty, CheckNode(n.right, CheckNode(n.left, cx)))
    [] n.is = "ternary" -> CheckTernary(n, cx)
    [] n.is = "let" -> CheckLet(n, cx)
    [] n.is = "expr" -> CheckNode(n.of, cx)
    [] n.is = "del" -> CheckDel(n, CheckNode(n.of, cx))
    [] n.is = "block" -> CheckBlock(n, cx)
    [] n.is = "if" -> CheckIf(n, CheckNode(n.cond, cx))
    [] n.is = "while" -> CheckWhile(n, CheckNode(n.cond, cx))
    [] n.is = "for" -> CheckFor(n, cx)
    [] n.is = "forof" -> CheckForOf(n, CheckNode(n.of, cx))
    [] n.is \in {"break", "continue"} -> CheckLeavesLoop(cx)
    [] n.is = "try" -> CheckTry(n, CheckNode(n.body, cx))
    [] n.is = "return" -> CheckReturn(n, cx)
    [] n.is = "throw" -> CheckThrow(CheckNode(n.of, cx))
    [] n.is = "function" -> CheckFunction(n, cx)
    [] n.is = "class" -> CheckClass(n, cx)
    [] n.is = "extension" -> CheckExtension(n, cx)
    [] n.is \in {"enum", "interface", "alias", "switch"} -> Declared(n, cx)

---------------------------------------------------------------------------
(* The passes over a program. *)

TypingInit ==
  /\ program \in CheckedPrograms
  /\ checker = Starts
  /\ phase = [is |-> "collect", at |-> 1]
  /\ ends = {}

CollectDeclarations ==
  /\ phase.is = "collect"
  /\ checker' = CollectAll(program, checker)
  /\ phase' = [is |-> "refine", at |-> 1]
  /\ UNCHANGED <<program, ends>>

RefineDeclarations ==
  /\ phase.is = "refine"
  /\ checker' = RefineAll(program, checker)
  /\ phase' = IF phase.at = RefinePasses \/ checker' = checker THEN [is |-> "check", at |-> 1]
              ELSE [phase EXCEPT !.at = @ + 1]
  /\ UNCHANGED <<program, ends>>

\* What a program may have at its top.
TopLevel == {"function", "class", "enum", "interface", "alias", "extension", "let"}
CheckDeclaration ==
  /\ phase.is = "check" /\ phase.at <= Len(program)
  /\ LET s == program[phase.at] IN checker' = CheckNode(s, ReportIf(s.is \notin TopLevel, "E0114", checker))
  /\ phase' = [phase EXCEPT !.at = @ + 1]
  /\ UNCHANGED <<program, ends>>

\* The program runs only when nothing was said against it.
AcceptsProgram == checker.errs = {}
RunAccepted ==
  /\ phase.is = "check" /\ phase.at > Len(program)
  /\ ends' = IF AcceptsProgram THEN {RunEnds(program, s) : s \in Scripts} ELSE {}
  /\ phase' = [is |-> "done", at |-> 1]
  /\ UNCHANGED <<program, checker>>

TypingNext == CollectDeclarations \/ RefineDeclarations \/ CheckDeclaration \/ RunAccepted

---------------------------------------------------------------------------
=============================================================================
