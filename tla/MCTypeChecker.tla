----------------------------- MODULE MCTypeChecker -----------------------------
(***************************************************************************)
(* CheckedPrograms for the type checker: families of small programs, each a few   *)
(* ways to test a value times a few ways to use it, calls times the ways   *)
(* to pass arguments, members times the places they are used from.         *)
(***************************************************************************)
EXTENDS TypeChecker

---------------------------------------------------------------------------
(* Trees. *)

NumX(n) == [is |-> "num", val |-> n]
StrX == [is |-> "str", val |-> "s"]
TruthX(b) == [is |-> "bool", val |-> b]
NoneX == [is |-> "none"]
NameX(x) == [is |-> "id", name |-> x]
ThisX == [is |-> "this"]
SuperX == [is |-> "super"]
NotX(e) == [is |-> "not", of |-> e]
BinX(op, l, r) == [is |-> "bin", op |-> op, left |-> l, right |-> r]
DotX(o, m) == [is |-> "member", obj |-> o, name |-> m]
MaybeX(o, m) == [is |-> "omember", obj |-> o, name |-> m]
CallX(f, args) == [is |-> "call", callee |-> f, args |-> args]
NewX(c, args) == [is |-> "new", class |-> c, args |-> args]
SetX(t, v) == [is |-> "assign", target |-> t, value |-> v]
ListX(es) == [is |-> "array", elems |-> es]
FlipX == CallX(NameX("flip"), <<>>)

ParamX(x, t) == [name |-> x, type |-> <<t>>, default |-> <<>>, rest |-> FALSE]
LetX(x, t, init) == [is |-> "let", pattern |-> [is |-> "id", name |-> x], type |-> t, init |-> init, const |-> FALSE]
ConstX(x, t, init) == [LetX(x, t, init) EXCEPT !.const = TRUE]
Say(e) == [is |-> "expr", of |-> e]
BlockX(ss) == [is |-> "block", of |-> ss]
IfX(c, then, else) == [is |-> "if", cond |-> c, then |-> BlockX(then), else |-> else]
WhileX(c, body) == [is |-> "while", cond |-> c, body |-> BlockX(body)]
BackX(es) == [is |-> "return", of |-> es]
ThrowX(e) == [is |-> "throw", of |-> e]
BreakX == [is |-> "break"]
TryX(body, catch, handler, finally) ==
  [is |-> "try", body |-> BlockX(body), catch |-> catch, handler |-> BlockX(handler), finally |-> finally]
FunX(f, params, ret, body) == [is |-> "function", name |-> f, params |-> params, ret |-> ret, body |-> BlockX(body)]
MainX(body) == FunX("main", <<>>, <<VoidTy>>, body)
LambdaX(params, body) == [is |-> "lambda", params |-> params, body |-> BlockX(body)]

ClassX(c, parent, fields, methods) ==
  [is |-> "class", name |-> c, parent |-> parent, implements |-> {}, abstract |-> FALSE, fields |-> fields,
   methods |-> methods, ctor |-> <<>>, getters |-> <<>>, setters |-> <<>>]
FieldX(x, t, init, access) == [name |-> x, type |-> <<t>>, init |-> <<init>>, static |-> FALSE, access |-> access]
MethodX(m, params, ret, body, access) ==
  [name |-> m, params |-> params, ret |-> ret, body |-> BlockX(body), static |-> FALSE, access |-> access]
CtorX(params, body) == <<[name |-> "constructor", params |-> params, ret |-> <<VoidTy>>, body |-> BlockX(body)]>>

FlipD == FunX("flip", <<>>, <<BoolTy>>, <<BackX(<<TruthX(TRUE)>>)>>)

---------------------------------------------------------------------------
(* What a condition shows. *)

Pet == ClassX("Pet", "", <<FieldX("age", IntTy, NumX(1), "public")>>, <<>>)
Cat == ClassX("Cat", "Pet", <<FieldX("friend", OptionalTy(ClassTy("Cat")), NoneX, "public")>>,
              <<MethodX("purr", <<>>, <<IntTy>>, <<BackX(<<NumX(2)>>)>>, "public")>>)
Find == FunX("find", <<>>, <<OptionalTy(ClassTy("Cat"))>>,
             <<IfX(FlipX, <<BackX(<<NewX("Cat", <<>>)>>)>>, <<>>), BackX(<<NoneX>>)>>)
Meet == FunX("meet", <<>>, <<ClassTy("Pet")>>,
             <<IfX(FlipX, <<BackX(<<NewX("Cat", <<>>)>>)>>, <<>>), BackX(<<NewX("Pet", <<>>)>>)>>)

IsNone(x) == BinX("==", NameX(x), NoneX)
IsSome(x) == BinX("!=", NameX(x), NoneX)
IsCat(x) == BinX("instanceof", NameX(x), NameX("Cat"))
Purr(x) == Say(CallX(DotX(NameX(x), "purr"), <<>>))
PurrE(x) == BinX("<", NumX(1), CallX(DotX(NameX(x), "purr"), <<>>))

Shows(x, some) ==
  {some, NotX(some), BinX("&&", some, FlipX), BinX("&&", FlipX, some), BinX("||", some, FlipX),
   NotX(BinX("||", NotX(some), FlipX)), NotX(BinX("&&", some, FlipX)), BinX("&&", some, PurrE(x)),
   BinX("||", NotX(some), PurrE(x)), BinX("||", some, PurrE(x)), FlipX,
   BinX("&&", NotX(some), FlipX), BinX("&&", FlipX, NotX(some))}
Conditions(x) == IF x = "c" THEN Shows(x, IsSome(x)) \cup {IsNone(x), BinX("!=", NoneX, NameX(x))} ELSE Shows(x, IsCat(x))

Leaves == {BackX(<<>>), ThrowX(NewX("Error", <<>>)), Say(FlipX), IfX(FlipX, <<BackX(<<>>)>>, <<>>),
           TryX(<<IfX(FlipX, <<ThrowX(NewX("Error", <<>>))>>, <<>>), BackX(<<>>)>>, "e", <<>>, <<>>), TryX(<<Say(FlipX)>>, "", <<>>, <<BlockX(<<BackX(<<>>)>>)>>)}
NarrowShapes(x, cond) ==
  LET use == Purr(x)
  IN {<<IfX(cond, <<use>>, <<>>)>>,
      <<IfX(cond, <<>>, <<BlockX(<<use>>)>>)>>,
      <<WhileX(cond, <<use, BreakX>>), use>>,
      <<WhileX(cond, <<Say(FlipX)>>)>>,
      <<IfX(cond, <<LetX("f", <<>>, <<LambdaX(<<>>, <<use>>)>>), Say(CallX(NameX("f"), <<>>))>>, <<>>)>>,
      <<WhileX(FlipX, <<IfX(cond, <<BreakX>>, <<>>), use>>)>>,
      <<BlockX(<<IfX(cond, <<BackX(<<>>)>>, <<>>)>>), use>>,
      <<IfX(cond, <<BackX(<<>>)>>, <<BlockX(<<BackX(<<>>)>>)>>), use>>}
     \cup {<<IfX(cond, <<l>>, <<>>), use>> : l \in Leaves}
     \cup {<<IfX(cond, <<>>, <<BlockX(<<l>>)>>), use>> : l \in Leaves}
     \cup {<<IfX(cond, <<>>, <<>>), use>>}

ErrorD == ClassX("Error", "", <<>>, <<>>)
Pets == <<FlipD, ErrorD, Pet, Cat, Find, Meet>>
NarrowingPrograms ==
  {Pets \o <<MainX(<<LetX("c", <<OptionalTy(ClassTy("Cat"))>>, <<CallX(NameX("find"), <<>>)>>)>> \o body)>> :
     body \in UNION {NarrowShapes("c", cond) : cond \in Conditions("c")}}
  \cup
  {Pets \o <<MainX(<<LetX("p", <<ClassTy("Pet")>>, <<CallX(NameX("meet"), <<>>)>>)>> \o body)>> :
     body \in UNION {NarrowShapes("p", cond) : cond \in Conditions("p")}}

---------------------------------------------------------------------------
(* What is passed and returned. *)

Optionally(p, e) == [p EXCEPT !.default = <<e>>]
RestX(p) == [p EXCEPT !.rest = TRUE]
CatTy == ClassTy("Cat")
PetTy == ClassTy("Pet")
CallIt(f, arg) == BackX(<<CallX(NameX(f), <<arg>>)>>)
Callees ==
  {FunX("give", ps, <<IntTy>>, <<BackX(<<NameX("a")>>)>>) :
     ps \in {<<ParamX("a", IntTy)>>, <<ParamX("a", IntTy), ParamX("b", StringTy)>>,
             <<ParamX("a", IntTy), Optionally(ParamX("b", IntTy), NumX(1))>>,
             <<ParamX("a", IntTy), Optionally(ParamX("b", StringTy), NumX(1))>>,
             <<ParamX("a", IntTy), ParamX("b", OptionalTy(StringTy))>>,
             <<ParamX("a", IntTy), RestX(ParamX("b", ListTy(IntTy)))>>,
             <<RestX(ParamX("b", ListTy(IntTy))), ParamX("a", IntTy)>>,
             <<ParamX("a", Kind("byte"))>>, <<ParamX("a", StringTy)>>, <<>>}}
  \cup {FunX("give", <<ParamX("a", PetTy)>>, <<IntTy>>, <<BackX(<<DotX(NameX("a"), "age")>>)>>),
        FunX("give", <<ParamX("a", CatTy)>>, <<IntTy>>, <<CallIt("b", NumX(1))>>),
        FunX("give", <<ParamX("a", CatTy)>>, <<IntTy>>, <<BackX(<<CallX(DotX(NameX("a"), "purr"), <<>>)>>)>>),
        FunX("give", <<ParamX("a", OptionalTy(CatTy))>>, <<OptionalTy(IntTy)>>,
             <<BackX(<<CallX(MaybeX(NameX("a"), "purr"), <<>>)>>)>>),
        FunX("give", <<ParamX("a", FunctionTy(<<IntTy>>, IntTy))>>, <<IntTy>>, <<CallIt("a", NumX(1))>>)}
GivenArguments ==
  {<<>>, <<NumX(1)>>, <<NumX(1), StrX>>, <<NumX(1), NumX(1)>>, <<NumX(1), NumX(1), NumX(1)>>, <<StrX>>,
   <<NewX("Pet", <<>>)>>, <<NewX("Cat", <<>>)>>, <<NoneX>>, <<CallX(NameX("find"), <<>>)>>,
   <<LambdaX(<<[ParamX("x", IntTy) EXCEPT !.type = <<>>]>>, <<BackX(<<BinX("+", NameX("x"), NumX(1))>>)>>)>>,
   <<LambdaX(<<ParamX("x", IntTy), ParamX("y", IntTy)>>, <<BackX(<<NameX("y")>>)>>)>>,
   <<LambdaX(<<>>, <<BackX(<<StrX>>)>>)>>, <<LambdaX(<<ParamX("x", StringTy)>>, <<BackX(<<NumX(1)>>)>>)>>,
   <<NumX(300)>>}
\* The checker leaves these calls open: it counts no arguments where there is a rest parameter,
\* and takes a number for a byte whatever its size.
LeftOpen(f, args) == \/ args = <<>> /\ \E i \in DOMAIN f.params : f.params[i].rest
                     \/ args = <<NumX(300)>> /\ \E i \in DOMAIN f.params : f.params[i].type = <<Kind("byte")>>
CallPrograms ==
  {Pets \o <<c[1], MainX(<<LetX("n", t, <<CallX(NameX("give"), c[2])>>)>>)>> :
     c \in {c \in Callees \X GivenArguments : ~LeftOpen(c[1], c[2])}, t \in {<<IntTy>>, <<OptionalTy(IntTy)>>}}

PickBodies ==
  LET one == BackX(<<NumX(1)>>)
      maybeThrows == IfX(FlipX, <<ThrowX(NewX("Error", <<>>))>>, <<>>)
  IN {<<one>>, <<IfX(FlipX, <<one>>, <<>>)>>, <<IfX(FlipX, <<one>>, <<BlockX(<<one>>)>>)>>, <<>>,
      <<WhileX(TruthX(TRUE), <<one>>)>>, <<WhileX(FlipX, <<one>>)>>, <<BackX(<<>>)>>, <<BackX(<<StrX>>)>>,
      <<TryX(<<maybeThrows, one>>, "e", <<>>, <<>>)>>, <<TryX(<<maybeThrows, one>>, "e", <<one>>, <<>>)>>,
      <<TryX(<<maybeThrows>>, "", <<>>, <<BlockX(<<one>>)>>)>>, <<ThrowX(NewX("Error", <<>>))>>,
      <<IfX(FlipX, <<BackX(<<StrX>>)>>, <<>>), one>>, <<ThrowX(StrX)>>,
      <<[is |-> "for", init |-> <<>>, cond |-> <<>>, step |-> <<>>, body |-> BlockX(<<one>>)]>>,
      <<IfX(FlipX, <<one>>, <<>>), BackX(<<CallX(NameX("pick"), <<>>)>>)>>}
ReturnPrograms ==
  {<<FlipD, ErrorD, FunX("pick", <<>>, ret, body), MainX(<<LetX("n", t, <<CallX(NameX("pick"), <<>>)>>)>>)>> :
     ret \in {<<IntTy>>, <<>>, <<StringTy>>, <<VoidTy>>}, body \in PickBodies, t \in {<<IntTy>>, <<StringTy>>}}

---------------------------------------------------------------------------
(* Classes. *)

Vault ==
  [ClassX("Vault", "", <<FieldX("hidden", IntTy, NumX(1), "private"), FieldX("kept", IntTy, NumX(1), "protected"),
                         FieldX("open", IntTy, NumX(1), "public")>>,
          <<MethodX("ask", <<ParamX("n", IntTy)>>, <<IntTy>>, <<BackX(<<DotX(ThisX, "hidden")>>)>>, "public"),
            MethodX("mine", <<>>, <<IntTy>>, <<BackX(<<NumX(1)>>)>>, "private"),
            [MethodX("make", <<>>, <<ClassTy("Vault")>>, <<BackX(<<NewX("Sub", <<>>)>>)>>, "public") EXCEPT !.static = TRUE]>>)
     EXCEPT !.getters = <<[name |-> "total", ret |-> IntTy, body |-> BlockX(<<BackX(<<DotX(ThisX, "kept")>>)>>)]>>]
Sub(ms) == ClassX("Sub", "Vault", <<>>, ms)
Uses(o) ==
  {BackX(<<DotX(o, m)>>) : m \in {"hidden", "kept", "open", "total", "missing"}}
  \cup {BackX(<<CallX(DotX(o, m), args)>>) : m \in {"ask", "mine", "open", "make", "missing"}, args \in {<<>>, <<NumX(1)>>}}
  \cup {BackX(<<SetX(DotX(o, m), v)>>) : m \in {"open", "hidden", "total", "ask"}, v \in {NumX(2), StrX}}
VisibleUses(o) == Uses(o) \ {BackX(<<CallX(DotX(o, "ask"), <<>>)>>)}
PeekIn(use) == MethodX("peek", <<>>, <<IntTy>>, <<use>>, "public")
PeekAt(use) == FunX("peek", <<ParamX("v", ClassTy("Vault"))>>, <<IntTy>>, <<use>>)
MemberPrograms ==
  {<<[Vault EXCEPT !.methods = Append(@, PeekIn(use))], Sub(<<>>), MainX(<<Say(CallX(DotX(NewX("Vault", <<>>), "peek"), <<>>))>>)>> :
     use \in VisibleUses(ThisX)}
  \cup
  {<<Vault, Sub(<<PeekIn(use)>>), MainX(<<Say(CallX(DotX(NewX("Sub", <<>>), "peek"), <<>>))>>)>> : use \in VisibleUses(ThisX)}
  \cup
  {<<Vault, Sub(<<>>), PeekAt(use), MainX(<<Say(CallX(NameX("peek"), <<NewX("Sub", <<>>)>>))>>)>> :
     use \in VisibleUses(NameX("v")) \cup {BackX(<<CallX(DotX(NameX("Vault"), m), <<>>)>>) : m \in {"make", "mine", "missing"}}
             \cup {BackX(<<DotX(CallX(DotX(NameX("Vault"), "make"), <<>>), "open")>>), BackX(<<ThisX>>), BackX(<<SuperX>>)}}

\* A method that takes the place of another, called through the class above.
Overrides ==
  {[MethodX("ask", ps, <<ret>>, <<BackX(<<NumX(1)>>)>>, access) EXCEPT !.static = static] :
     ps \in {<<>>, <<ParamX("n", IntTy)>>, <<ParamX("n", StringTy)>>, <<ParamX("n", IntTy), ParamX("o", IntTy)>>},
     ret \in {IntTy, VoidTy}, access \in {"public", "protected", "private"}, static \in BOOLEAN}
  \cup {MethodX("mine", <<>>, <<StringTy>>, <<BackX(<<StrX>>)>>, "public")}
Asks == FunX("asks", <<ParamX("v", ClassTy("Vault"))>>, <<IntTy>>, <<BackX(<<CallX(DotX(NameX("v"), "ask"), <<NumX(1)>>)>>)>>)
OverridePrograms ==
  {<<Vault, Sub(<<m>>), Asks, MainX(<<Say(CallX(NameX("asks"), <<NewX("Sub", <<>>)>>))>>)>> : m \in Overrides}

Asker == [is |-> "interface", name |-> "Asker", parent |-> "",
          methods |-> <<[name |-> "ask", params |-> <<ParamX("n", IntTy)>>, ret |-> <<IntTy>>]>>]
Answers(ms) == [ClassX("Sub", "", <<>>, ms) EXCEPT !.implements = {"Asker"}]
\* A class that has what an interface asks for passes for it; its signatures are not looked at.
InterfacePrograms ==
  {<<Asker, c, FunX("asks", <<ParamX("v", ClassTy("Asker"))>>, <<IntTy>>,
                              <<BackX(<<CallX(DotX(NameX("v"), "ask"), <<NumX(1)>>)>>)>>),
     MainX(<<Say(CallX(NameX("asks"), <<NewX("Sub", <<>>)>>))>>)>> : 
     c \in {Answers(ms) : ms \in {<<>>} \cup {<<m>> : m \in Overrides}} \cup {[Answers(<<>>) EXCEPT !.implements = {}]}
           \cup {[Answers(<<m>>) EXCEPT !.implements = {}] :
                    m \in {MethodX("ask", <<ParamX("n", IntTy)>>, <<IntTy>>, <<BackX(<<NumX(1)>>)>>, "public"),
                           MethodX("tell", <<ParamX("n", IntTy)>>, <<IntTy>>, <<BackX(<<NumX(1)>>)>>, "public")}}}

\* Constructors, and the ones above them.
Above(ps) == [ClassX("Top", "", <<FieldX("n", IntTy, NumX(0), "public")>>, <<>>) EXCEPT !.ctor = ps]
Below(parent, body) == [ClassX("Low", parent, <<>>, <<>>) EXCEPT !.ctor = body]
CallsSuper(args) == Say(CallX(SuperX, args))
SetsN == Say(SetX(DotX(ThisX, "n"), NameX("a")))
Constructors == {<<>>, CtorX(<<>>, <<>>), CtorX(<<ParamX("a", IntTy)>>, <<SetsN>>),
                 CtorX(<<ParamX("a", IntTy), Optionally(ParamX("b", IntTy), NumX(1))>>, <<SetsN>>)}
SubConstructors ==
  {<<>>} \cup {CtorX(<<>>, body) :
     body \in {<<>>, <<CallsSuper(<<>>)>>, <<CallsSuper(<<NumX(1)>>)>>, <<CallsSuper(<<StrX>>)>>, <<CallsSuper(<<NumX(1), NumX(2)>>)>>,
               <<Say(SetX(DotX(ThisX, "n"), NumX(1))), CallsSuper(<<>>)>>, <<Say(SetX(DotX(ThisX, "m"), NumX(1)))>>}}
ConstructorPrograms ==
  {<<Above(up), Below(parent, low), MainX(<<LetX("l", <<ClassTy("Low")>>, <<NewX("Low", args)>>), Say(DotX(NameX("l"), "n"))>>)>> :
     up \in Constructors, low \in SubConstructors, parent \in {"Top", "", "Gone"}, args \in {<<>>, <<NumX(1)>>, <<StrX>>}}
  \cup {<<[Above(<<>>) EXCEPT !.abstract = TRUE], Below("Top", <<>>), MainX(<<Say(NewX(c, <<>>))>>)>> : c \in {"Top", "Low", "Gone"}}

---------------------------------------------------------------------------
(* Names, lists and what is left. *)

PropsX(ks) == [is |-> "props", of |-> [i \in DOMAIN ks |-> [key |-> ks[i], to |-> [is |-> "id", name |-> ks[i]]]]]
ForX(x, of, body) == [is |-> "forof", pattern |-> [is |-> "id", name |-> x], of |-> of, body |-> BlockX(body)]
AtX(l, i) == [is |-> "index", arr |-> l, at |-> i]
ObjectX(ks, vs) == [is |-> "object", of |-> [i \in DOMAIN ks |-> [key |-> ks[i], value |-> vs[i]]]]
Coalesce(l, r) == [is |-> "coalesce", left |-> l, right |-> r]
Xs == LetX("xs", <<ListTy(IntTy)>>, <<ListX(<<NumX(1), NumX(2)>>)>>)
PairTy == ObjectTy([a |-> IntTy, b |-> OptionalTy(IntTy)])
Scripts1 ==
  {<<LetX("a", <<t>>, <<e>>)>> :
     t \in {IntTy, StringTy, Kind("byte"), PetTy, CatTy, OptionalTy(CatTy), ListTy(IntTy), ListTy(PetTy), PairTy, ClassTy("Num")},
     e \in {NumX(1), NumX(300), StrX, NoneX, NewX("Cat", <<>>), NewX("Pet", <<>>), ListX(<<>>), ListX(<<NumX(1)>>),
            ListX(<<StrX>>), ListX(<<NewX("Cat", <<>>), NewX("Pet", <<>>)>>), CallX(NameX("find"), <<>>),
            Coalesce(CallX(NameX("find"), <<>>), NewX("Cat", <<>>)), MaybeX(CallX(NameX("find"), <<>>), "age"),
            DotX(CallX(NameX("find"), <<>>), "age"), ObjectX(<<"a", "b">>, <<NumX(1), NoneX>>),
            ObjectX(<<"a", "b">>, <<StrX, NoneX>>), NameX("nobody"), NameX("find"),
            [is |-> "ternary", cond |-> FlipX, yes |-> NumX(1), no |-> NumX(2)],
            [is |-> "as", of |-> CallX(NameX("meet"), <<>>), type |-> CatTy]}}
  \cup
  {<<Xs, Say(e)>> :
     e \in {CallX(DotX(NameX("xs"), "push"), <<NumX(1)>>), CallX(DotX(NameX("xs"), "push"), <<StrX>>),
            CallX(DotX(NameX("xs"), "shift"), <<>>), SetX(AtX(NameX("xs"), NumX(0)), NumX(1)),
            SetX(AtX(NameX("xs"), NumX(0)), StrX), SetX(DotX(NameX("xs"), "length"), NumX(0)), AtX(NameX("xs"), StrX),
            BinX("+", AtX(NameX("xs"), NumX(1)), NumX(1)), SetX(NameX("xs"), NumX(1)), CallX(NameX("xs"), <<>>)}}
  \cup
  {<<s, Say(SetX(NameX("a"), e))>> : s \in {LetX("a", <<>>, <<NumX(1)>>), ConstX("a", <<>>, <<NumX(1)>>), BlockX(<<LetX("a", <<>>, <<NumX(1)>>)>>),
                                           LetX("a", <<OptionalTy(IntTy)>>, <<NumX(1)>>)},
                                   e \in {NumX(2), StrX, NoneX}}
  \cup
  {<<BreakX>>, <<WhileX(FlipX, <<BreakX>>)>>, <<ThrowX(StrX)>>, <<LetX("a", <<>>, <<NumX(1)>>), LetX("a", <<>>, <<StrX>>)>>,
   <<Xs, ForX("x", NameX("xs"), <<Say(BinX("+", NameX("x"), NumX(1)))>>)>>, <<ForX("x", NumX(3), <<>>)>>,
   <<Xs, ForX("x", NameX("xs"), <<Say(DotX(NameX("x"), "age"))>>)>>, <<Say(DotX(NameX("xs"), "length"))>>,
   <<[LetX("p", <<>>, <<NewX("Pet", <<>>)>>) EXCEPT !.pattern = PropsX(<<"age">>)], Say(BinX("+", NameX("age"), NumX(1)))>>,
   <<ConstX("a", <<>>, <<NumX(1)>>), LetX("f", <<>>, <<LambdaX(<<>>, <<Say(SetX(NameX("a"), NumX(2)))>>)>>), Say(CallX(NameX("f"), <<>>))>>}
NamePrograms ==
  {Pets \o <<[is |-> "alias", name |-> "Num", type |-> IntTy], MainX(body)>> : body \in Scripts1}

TypingPrograms == NarrowingPrograms \cup CallPrograms \cup ReturnPrograms \cup MemberPrograms \cup OverridePrograms
                  \cup InterfacePrograms \cup ConstructorPrograms \cup NamePrograms
TypingShort == {"T", "A", "K"}
=============================================================================
