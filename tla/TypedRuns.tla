------------------------------- MODULE TypedRuns -------------------------------
(***************************************************************************)
(* What a program does when it runs, told from the language and not from   *)
(* the compiler: the reference that the type checker is held against.  A   *)
(* run keeps the type of every variable beside its value, and it ends as a *)
(* "fault" when it does what the types are there to rule out: it uses      *)
(* nothing as an object, asks for a member that is not there or may not be *)
(* seen, stores or passes a value where one of another type is declared,   *)
(* calls what is no function or with the wrong arguments, changes a        *)
(* constant, or ends a function without the value it promises.             *)
(*                                                                         *)
(* CheckedPrograms are the trees of TypeChecker.  The function flip answers as    *)
(* the run's script says: it is the test a program makes of its input.     *)
(***************************************************************************)
EXTENDS Integers, SequencesExt

CONSTANTS
  MaxLooks,    \* how many tests of a run have their outcome chosen
  MaxTurns     \* how often a run turns in its loops and calls

ASSUME BoundsAreNat == MaxLooks \in Nat /\ MaxTurns \in Nat

---------------------------------------------------------------------------
(* Values, and the state of a run: a variable is a cell, an object a cell of fields. *)

NumV(n) == [k |-> "num", n |-> n]
StrV(s) == [k |-> "str", s |-> s]
TruthV(b) == [k |-> "bool", b |-> b]
NoneV == [k |-> "none"]
UnsetV == [k |-> "unset"]
RefV(a) == [k |-> "ref", at |-> a]
FnV(f, this, st) == [k |-> "fn", f |-> f, env |-> st.env, this |-> this, class |-> st.class]

RunStarts(p, script) ==
  [decls |-> [x \in {p[i].name : i \in DOMAIN p} |-> p[CHOOSE i \in DOMAIN p : p[i].name = x]],
   script |-> script, looks |-> 0, turns |-> 0, env |-> <<>>, class |-> "", cells |-> <<>>, sig |-> "", val |-> NoneV]

Give(v, st) == [st EXCEPT !.val = v]
Signal(s, st) == [st EXCEPT !.sig = s]
GoesWrong(st) == Signal("fault", st)
Stopped(st) == st.sig # ""
Turn(st) == IF st.turns = MaxTurns THEN Signal("long", st) ELSE [st EXCEPT !.turns = @ + 1]

NewCell(c, st) == [st EXCEPT !.cells = Append(@, c), !.val = RefV(Len(st.cells) + 1)]
NewVariable(x, c, st) ==
  [st EXCEPT !.cells = Append(@, c), !.env = (x :> Len(st.cells) + 1) @@ @]
Truthy(v) == IF v.k = "bool" THEN v.b ELSE v.k # "none"

RECURSIVE Line(_, _), FitsType(_, _, _)
Line(c, decls) ==
  IF c \notin DOMAIN decls THEN <<c>>
  ELSE <<c>> \o (IF decls[c].parent = "" THEN <<>> ELSE Line(decls[c].parent, decls))
Classes(c, st) == Line(c, st.decls)
Held(v, st) == st.cells[v.at]
\* A class may have an interface's methods without naming it.
HasMethods(c, i, st) ==
  /\ i \in DOMAIN st.decls /\ c \in DOMAIN st.decls
  /\ st.decls[i].is = "interface"
  /\ {m.name : m \in ToSet(st.decls[i].methods)} \subseteq {m.name : m \in ToSet(st.decls[c].methods)}
IsA(v, c, st) ==
  v.k = "ref" /\ (c \in ToSet(Classes(Held(v, st).class, st)) \/ HasMethods(Held(v, st).class, c, st))

FitsType(v, t, st) ==
  CASE t.k \in {"any", "inferred", "void"} -> TRUE
    [] t.k \in {"int", "float"} -> v.k = "num"
    [] t.k = "byte" -> v.k = "num" /\ v.n \in 0..255
    [] t.k = "bool" -> v.k = "bool"
    [] t.k = "string" -> v.k = "str"
    [] t.k = "None" -> v.k = "none"
    [] t.k = "opt" -> v.k = "none" \/ FitsType(v, t.of, st)
    [] t.k = "list" -> v.k = "ref" /\ Held(v, st).class = "list"
                       /\ \A i \in DOMAIN Held(v, st).elems : FitsType(Held(v, st).elems[i], t.of, st)
    [] t.k = "fn" -> v.k = "fn"
    [] t.k = "object" -> v.k = "ref" /\ Held(v, st).class = "object"
                         /\ \A x \in DOMAIN t.of : x \in DOMAIN Held(v, st).fields
                                                   /\ FitsType(Held(v, st).fields[x], t.of[x], st)
    [] t.k = "class" ->
         IF t.name \in DOMAIN st.decls /\ st.decls[t.name].is = "alias"
         THEN FitsType(v, st.decls[t.name].type, st)
         ELSE IsA(v, t.name, st) \/ (v.k = "enum" /\ v.name = t.name)

Zero(t) == CASE t.k \in {"int", "float", "byte"} -> NumV(0)
             [] t.k = "bool" -> TruthV(FALSE)
             [] t.k = "opt" -> NoneV
             [] OTHER -> UnsetV

---------------------------------------------------------------------------
(* Members. *)

NamedAs(s, x) == SelectSeq(s, LAMBDA m : m.name = x)
\* What a class, or one above it, has under a name: [owner, what, m].
MembersNamed(c, x, st) ==
  LET In(k) == IF k \notin DOMAIN st.decls THEN <<>>
               ELSE LET d == st.decls[k]
                        Of(s, what) == [i \in DOMAIN NamedAs(s, x) |->
                                          [owner |-> k, what |-> what, m |-> NamedAs(s, x)[i]]]
                    IN Of(d.methods, "method") \o Of(d.getters, "getter") \o Of(d.fields, "field")
                       \o Of(d.ctor, "constructor")
  IN FlattenSeq([i \in DOMAIN Classes(c, st) |-> In(Classes(c, st)[i])])
SettersNamed(c, x, st) ==
  FlattenSeq([i \in DOMAIN Classes(c, st) |->
                IF Classes(c, st)[i] \in DOMAIN st.decls
                THEN [j \in DOMAIN NamedAs(st.decls[Classes(c, st)[i]].setters, x) |->
                        [owner |-> Classes(c, st)[i], m |-> NamedAs(st.decls[Classes(c, st)[i]].setters, x)[j]]]
                ELSE <<>>])

MaySee(found, st) ==
  LET access == IF found.what \in {"method", "field"} THEN found.m.access ELSE "public"
  IN CASE access = "public" -> TRUE
       [] access = "private" -> st.class = found.owner
       [] access = "protected" -> st.class # "" /\ found.owner \in ToSet(Classes(st.class, st))

---------------------------------------------------------------------------
(* Running a tree. *)

RECURSIVE Do(_, _)

\* What is done with values rather than trees, as nodes: calling one, asking one for a member,
\* giving one to a pattern's variables.
Calling(v, args) == [is |-> "apply", f |-> v, args |-> args]
AskFor(v, x) == [is |-> "read", of |-> v, name |-> x]
GiveTo(p, v, t, const) == [is |-> "bind", pattern |-> p, of |-> v, type |-> t, const |-> const]
AnyKind == [k |-> "any"]

\* Going on from a state, unless the run has stopped there.
Then(st, F(_)) == IF st.sig # "" THEN st ELSE F(st)

\* The values of several expressions, in order: a record of them and the state.
Values(es, st) ==
  FoldLeft(LAMBDA a, e :
             IF Stopped(a.st) THEN a
             ELSE IF e.is # "spread" THEN LET r == Do(e, a.st) IN [st |-> r, vals |-> Append(a.vals, r.val)]
             ELSE LET r == Do(e.of, a.st)
                  IN [st |-> r, vals |-> a.vals \o IF Stopped(r) THEN <<>> ELSE Held(r.val, r).elems],
           [st |-> st, vals |-> <<>>], es)

\* A function, on values, with its parameters in a scope of its own.
BindOne(p, i, args, st) ==
  LET t == IF p.type = <<>> THEN [k |-> "any"] ELSE p.type[1]
      Keep(v, s) == IF FitsType(v, t, s) THEN NewVariable(p.name, [v |-> v, const |-> FALSE, type |-> t], s)
                    ELSE GoesWrong(s)
  IN IF Stopped(st) THEN st
     ELSE CASE p.rest -> LET r == NewCell([class |-> "list", elems |-> SubSeq(args, i, Len(args))], st)
                         IN Keep(r.val, r)
            [] ~p.rest /\ i <= Len(args) -> Keep(args[i], st)
            [] ~p.rest /\ i > Len(args) /\ p.default # <<>> ->
                 LET r == Do(p.default[1], st) IN IF Stopped(r) THEN r ELSE Keep(r.val, r)
            [] OTHER -> IF t.k = "opt" THEN Keep(NoneV, st) ELSE GoesWrong(st)
\* What is given beyond them is dropped.
Bind(params, args, st) ==
  FoldLeft(LAMBDA s, i : BindOne(params[i], i, args, s), st, [i \in DOMAIN params |-> i])

\* How a body ends: with the value it promises.
BodyEnds(f, st) ==
  LET ret == IF f.ret = <<>> THEN [k |-> "any"] ELSE f.ret[1]
  IN CASE st.sig = "return" -> IF FitsType(st.val, ret, st) THEN Signal("", st) ELSE GoesWrong(st)
       [] st.sig = "" -> IF ret.k \in {"any", "void"} THEN Give(UnsetV, st) ELSE GoesWrong(st)
       [] st.sig \in {"break", "continue"} -> GoesWrong(st)
       [] OTHER -> st

DoFunction(v, args, st) ==
  LET inside == [Turn(st) EXCEPT !.env = v.env, !.class = v.class]
      own == IF v.this = <<>> THEN inside
             ELSE NewVariable("this", [v |-> v.this[1], const |-> TRUE, type |-> [k |-> "any"]], inside)
      bound == Bind(v.f.params, args, own)
      r == IF Stopped(bound) THEN bound ELSE BodyEnds(v.f, Do(v.f.body, bound))
  IN [r EXCEPT !.env = st.env, !.class = st.class]

Builtin(v, args, st) ==
  LET at == v.this[1].at
      elems == st.cells[at].elems
  IN CASE v.f = "push" /\ Len(args) = 1 -> Give(NumV(Len(elems) + 1), [st EXCEPT !.cells[at].elems = Append(@, args[1])])
       [] v.f = "pop" /\ args = <<>> ->
            IF elems = <<>> THEN Signal("throw", st)
            ELSE Give(Last(elems), [st EXCEPT !.cells[at].elems = Front(@)])
       [] v.f = "flip" /\ args = <<>> ->
            Give(TruthV(st.looks < Len(st.script) /\ st.script[st.looks + 1]), [st EXCEPT !.looks = @ + 1])
       [] OTHER -> GoesWrong(st)

DoApply(v, args, st) ==
  CASE v.k = "fn" -> DoFunction(v, args, st)
    [] v.k = "builtin" -> Builtin(v, args, st)
    [] OTHER -> GoesWrong(st)

\* A method, with the class that declares it for what it may see.
Bound(found, this, st) ==
  [k |-> "fn", f |-> found.m, env |-> <<>>, this |-> this, class |-> found.owner]

ReadField(o, x, st) ==
  LET found == MembersNamed(Held(o, st).class, x, st)
  IN IF found = <<>> THEN GoesWrong(st)
     ELSE IF ~MaySee(found[1], st) THEN GoesWrong(st)
     ELSE CASE found[1].what = "getter" ->
                 Do(Calling(Bound([found[1] EXCEPT !.m = [params |-> <<>>, ret |-> <<@.ret>>, body |-> @.body]], <<o>>, st), <<>>), st)
            [] found[1].what = "method" -> IF found[1].m.static THEN GoesWrong(st) ELSE Give(Bound(found[1], <<o>>, st), st)
            [] found[1].what = "field" -> IF found[1].m.static THEN GoesWrong(st) ELSE Give(Held(o, st).fields[x], st)
            [] OTHER -> GoesWrong(st)
ReadMember(o, x, st) ==
  CASE o.k = "ref" ->
         CASE Held(o, st).class = "list" /\ x = "length" -> Give(NumV(Len(Held(o, st).elems)), st)
           [] Held(o, st).class = "list" /\ x \in {"push", "pop"} -> Give([k |-> "builtin", f |-> x, this |-> <<o>>], st)
           [] Held(o, st).class = "object" -> IF x \in DOMAIN Held(o, st).fields THEN Give(Held(o, st).fields[x], st) ELSE GoesWrong(st)
           [] OTHER -> ReadField(o, x, st)
    [] o.k = "str" -> IF x = "length" THEN Give(NumV(1), st) ELSE GoesWrong(st)
    [] o.k = "class" ->
         LET d == st.decls[o.name]
         IN IF d.is = "enum" THEN IF x \in d.members THEN Give([k |-> "enum", name |-> o.name, member |-> x], st) ELSE GoesWrong(st)
            ELSE IF NamedAs(d.methods, x) = <<>> THEN GoesWrong(st)
            ELSE LET m == [owner |-> o.name, what |-> "method", m |-> NamedAs(d.methods, x)[1]]
                 IN IF m.m.static /\ MaySee(m, st) THEN Give(Bound(m, <<>>, st), st) ELSE GoesWrong(st)
    [] OTHER -> GoesWrong(st)

WriteMember(o, x, v, st) ==
  LET setters == SettersNamed(Held(o, st).class, x, st)
      found == MembersNamed(Held(o, st).class, x, st)
  IN IF o.k # "ref" THEN GoesWrong(st)
     ELSE IF setters # <<>>
     THEN Do(Calling(Bound([setters[1] EXCEPT !.m = [params |-> <<[name |-> @.param, type |-> <<@.type>>, default |-> <<>>, rest |-> FALSE]>>,
                                                 ret |-> <<>>, body |-> @.body]], <<o>>, st), <<v>>), st)
     ELSE IF found = <<>> THEN GoesWrong(st)
     ELSE IF found[1].what = "field" /\ MaySee(found[1], st) /\ FitsType(v, found[1].m.type[1], st)
     THEN Give(v, [st EXCEPT !.cells[o.at].fields[x] = v]) ELSE GoesWrong(st)

\* A new object has the fields of its class and of those above it, with their first values.
DoNew(c, args, st) ==
  LET fields == FlattenSeq([i \in DOMAIN Classes(c, st) |-> st.decls[Classes(c, st)[i]].fields])
      init(m, s) == IF m.init = <<>> THEN Give(Zero(m.type[1]), s) ELSE Do(m.init[1], s)
      filled == FoldLeft(LAMBDA a, m : LET r == init(m, a.st)
                                       IN [st |-> r, of |-> a.of @@ (m.name :> r.val)],
                         [st |-> [st EXCEPT !.class = c, !.env = <<>>], of |-> <<>>], fields)
      made == NewCell([class |-> c, fields |-> filled.of], [filled.st EXCEPT !.class = st.class, !.env = st.env])
      ctor == MembersNamed(c, "constructor", st)
  IN IF c \notin DOMAIN st.decls THEN GoesWrong(st)
     ELSE IF st.decls[c].is # "class" \/ st.decls[c].abstract THEN GoesWrong(st)
     ELSE IF ctor = <<>> THEN made
     ELSE LET r == Do(Calling(Bound(ctor[1], <<made.val>>, made), args), made)
          IN IF Stopped(r) THEN r ELSE Give(made.val, r)
DoSuper(args, st) ==
  LET this == st.cells[st.env["this"]].v
      above == MembersNamed(st.decls[st.class].parent, "constructor", st)
  IN IF "this" \notin DOMAIN st.env \/ st.decls[st.class].parent = "" THEN GoesWrong(st)
     ELSE IF above = <<>> THEN st
     ELSE Do(Calling(Bound(above[1], <<this>>, st), args), st)

---------------------------------------------------------------------------

Operation(op, l, r, st) ==
  LET nums == l.k = "num" /\ r.k = "num"
  IN CASE op = "==" -> Give(TruthV(l = r), st)
       [] op = "!=" -> Give(TruthV(l # r), st)
       [] op = "instanceof" -> Give(TruthV(IsA(l, r.name, st)), st)
       [] op = "+" /\ "str" \in {l.k, r.k} -> Give(StrV(""), st)
       [] op = "+" /\ nums -> Give(NumV(l.n + r.n), st)
       [] op = "-" /\ nums -> Give(NumV(l.n - r.n), st)
       [] op = "<" /\ nums -> Give(TruthV(l.n < r.n), st)
       [] OTHER -> GoesWrong(st)

DoBinary(e, st) ==
  LET l == Do(e.left, st)
      r == Do(e.right, l)
  IN IF Stopped(l) THEN l
     ELSE IF e.op \in {"&&", "||"} THEN IF Truthy(l.val) = (e.op = "&&") THEN r ELSE l
     ELSE IF Stopped(r) THEN r ELSE Operation(e.op, l.val, r.val, r)

DoName(x, st) ==
  CASE x \in DOMAIN st.env -> Give(st.cells[st.env[x]].v, st)
    [] x = "flip" -> Give([k |-> "builtin", f |-> "flip"], st)
    [] x \notin DOMAIN st.env /\ x # "flip" /\ x \in DOMAIN st.decls ->
         IF st.decls[x].is = "function" THEN Give([FnV(st.decls[x], <<>>, st) EXCEPT !.env = <<>>, !.class = ""], st)
         ELSE Give([k |-> "class", name |-> x], st)
    [] OTHER -> GoesWrong(st)

DoAssign(e, st) ==
  LET v == Do(e.value, st)
      t == e.target
      o == Do(IF t.is = "member" THEN t.obj ELSE t.arr, st)
      at == Do(t.at, o)
      value == Do(e.value, at)
  IN CASE t.is = "id" ->
            IF Stopped(v) THEN v
            ELSE IF t.name \notin DOMAIN v.env THEN GoesWrong(v)
            ELSE IF v.cells[v.env[t.name]].const \/ ~FitsType(v.val, v.cells[v.env[t.name]].type, v) THEN GoesWrong(v)
            ELSE [v EXCEPT !.cells[v.env[t.name]].v = v.val]
       [] t.is = "member" ->
            IF Stopped(o) THEN o ELSE LET w == Do(e.value, o)
                                      IN IF Stopped(w) THEN w ELSE WriteMember(o.val, t.name, w.val, w)
       [] t.is = "index" ->
            IF Stopped(o) \/ Stopped(at) THEN at
            ELSE IF Stopped(value) THEN value
            ELSE IF o.val.k # "ref" \/ at.val.k # "num" THEN GoesWrong(value)
            ELSE IF at.val.n \notin 0..Len(Held(o.val, value).elems) - 1 THEN Signal("throw", value)
            ELSE [value EXCEPT !.cells[o.val.at].elems[at.val.n + 1] = value.val]

DoIndex(o, st) ==
  IF o.k # "ref" \/ st.val.k # "num" THEN GoesWrong(st)
  ELSE IF st.val.n \notin 0..Len(Held(o, st).elems) - 1 THEN Signal("throw", st)
  ELSE Give(Held(o, st).elems[st.val.n + 1], st)

\* The variables a pattern names.
DoBind(n, st) ==
  CASE n.pattern.is = "id" -> NewVariable(n.pattern.name, [v |-> n.of, const |-> n.const, type |-> n.type], st)
    [] n.pattern.is = "elems" ->
         FoldLeft(LAMBDA s, i :
                    IF i \in DOMAIN Held(n.of, s).elems
                    THEN Do(GiveTo(n.pattern.of[i], Held(n.of, s).elems[i], AnyKind, n.const), s)
                    ELSE Signal("throw", s),
                  st, [i \in DOMAIN n.pattern.of |-> i])
    [] n.pattern.is = "props" ->
         FoldLeft(LAMBDA s, q :
                    Then(Then(s, LAMBDA t : Do(AskFor(n.of, q.key), t)),
                         LAMBDA t : Do(GiveTo(q.to, t.val, AnyKind, n.const), t)),
                  st, n.pattern.of)

DoLet(s, st) ==
  LET t == IF s.type = <<>> THEN AnyKind ELSE s.type[1]
      r == IF s.init = <<>> THEN Give(Zero(t), st) ELSE Do(s.init[1], st)
  IN Then(r, LAMBDA u : IF s.init # <<>> /\ ~FitsType(u.val, t, u) THEN GoesWrong(u)
                        ELSE Do(GiveTo(s.pattern, u.val, t, s.const), u))

\* A local function knows itself.
DoDeclare(f, st) ==
  LET r == NewVariable(f.name, [v |-> UnsetV, const |-> TRUE, type |-> [k |-> "any"]], st)
  IN [r EXCEPT !.cells[r.env[f.name]].v = FnV(f, <<>>, r)]

Closing(r, st) == [r EXCEPT !.env = st.env]
DoEach(ss, st) == FoldLeft(LAMBDA s, n : IF Stopped(s) THEN s ELSE Do(n, s), st, ss)

\* A turn of a loop, and the ones after it.
DoLoop(n, cond, step, st) ==
  LET held == IF cond = <<>> THEN Give(TruthV(TRUE), Turn(st))
              ELSE IF Stopped(Turn(st)) THEN Turn(st) ELSE Do(cond[1], Turn(st))
      turned == Closing(Do(n.body, held), held)
      gone == IF turned.sig \in {"", "continue"} THEN DoEach(step, Signal("", turned)) ELSE turned
  IN IF Stopped(held) THEN held
     ELSE IF ~Truthy(held.val) THEN held
     ELSE CASE gone.sig = "" -> Do([n EXCEPT !.is = "turn"], gone)
            [] gone.sig = "break" -> Signal("", gone)
            [] OTHER -> gone
TurnEnds(s, r) == Closing(IF r.sig = "continue" THEN Signal("", r) ELSE r, s)
DoForOf(n, st) ==
  IF st.val.k # "ref" THEN GoesWrong(st)
  ELSE FoldLeft(LAMBDA s, v : Then(s, LAMBDA t :
                  TurnEnds(t, Do(n.body, Do(GiveTo(n.pattern, v, AnyKind, FALSE), t)))),
                st, Held(st.val, st).elems)
EndLoop(st) == IF st.sig = "break" THEN Signal("", st) ELSE st

DoTry(n, st) ==
  LET r == Closing(Do(n.body, st), st)
      handled == IF r.sig = "throw" /\ n.catch # ""
                 THEN Closing(Do(n.handler, NewVariable(n.catch, [v |-> r.val, const |-> FALSE, type |-> [k |-> "any"]],
                                                        Signal("", r))), st)
                 ELSE r
      last == Closing(Do(n.finally[1], Signal("", handled)), st)
  IN IF n.finally = <<>> \/ handled.sig \in {"fault", "long"} THEN handled
     ELSE IF Stopped(last) THEN last ELSE [last EXCEPT !.sig = handled.sig, !.val = handled.val]

Do(n, st) ==
  CASE n.is = "apply" -> DoApply(n.f, n.args, st)
    [] n.is = "num" -> Give(NumV(n.val), st)
    [] n.is = "str" -> Give(StrV(n.val), st)
    [] n.is = "bool" -> Give(TruthV(n.val), st)
    [] n.is = "none" -> Give(NoneV, st)
    [] n.is = "id" -> DoName(n.name, st)
    [] n.is = "this" -> DoName("this", st)
    [] n.is = "lambda" -> Give(FnV(n @@ [ret |-> <<>>], <<>>, st), st)
    [] n.is = "not" -> LET r == Do(n.of, st) IN IF Stopped(r) THEN r ELSE Give(TruthV(~Truthy(r.val)), r)
    [] n.is = "bin" -> DoBinary(n, st)
    [] n.is = "as" -> LET r == Do(n.of, st)
                      IN IF Stopped(r) \/ FitsType(r.val, n.type, r) THEN r ELSE Signal("throw", r)
    [] n.is = "read" -> ReadMember(n.of, n.name, st)
    [] n.is = "bind" -> DoBind(n, st)
    [] n.is = "member" -> Then(Do(n.obj, st), LAMBDA r : Do(AskFor(r.val, n.name), r))
    [] n.is = "omember" -> Then(Do(n.obj, st), LAMBDA r : IF r.val = NoneV THEN r ELSE Do(AskFor(r.val, n.name), r))
    [] n.is = "index" -> LET o == Do(n.arr, st)
                             r == Do(n.at, o)
                         IN IF Stopped(o) THEN o ELSE IF Stopped(r) THEN r ELSE DoIndex(o.val, r)
    [] n.is = "assign" -> DoAssign(n, st)
    [] n.is = "new" -> LET a == Values(n.args, st) IN IF Stopped(a.st) THEN a.st ELSE DoNew(n.class, a.vals, a.st)
    [] n.is = "call" ->
         IF n.callee.is = "super"
         THEN LET a == Values(n.args, st) IN IF Stopped(a.st) THEN a.st ELSE DoSuper(a.vals, a.st)
         ELSE LET f == Do(n.callee, st)
                  a == Values(n.args, f)
              IN IF Stopped(f) \/ (n.callee.is = "omember" /\ f.val = NoneV) THEN f
                 ELSE IF Stopped(a.st) THEN a.st ELSE Do(Calling(f.val, a.vals), a.st)
    [] n.is = "array" -> LET a == Values(n.elems, st)
                         IN IF Stopped(a.st) THEN a.st ELSE NewCell([class |-> "list", elems |-> a.vals], a.st)
    [] n.is = "object" ->
         LET a == Values([i \in DOMAIN n.of |-> n.of[i].value], st)
         IN IF Stopped(a.st) THEN a.st
            ELSE NewCell([class |-> "object",
                          fields |-> [x \in {n.of[i].key : i \in DOMAIN n.of} |->
                                        a.vals[CHOOSE i \in DOMAIN n.of : n.of[i].key = x]]], a.st)
    [] n.is = "coalesce" -> LET l == Do(n.left, st) IN IF Stopped(l) \/ l.val # NoneV THEN l ELSE Do(n.right, l)
    [] n.is = "ternary" -> LET c == Do(n.cond, st)
                           IN IF Stopped(c) THEN c ELSE Do(IF Truthy(c.val) THEN n.yes ELSE n.no, c)
    [] n.is = "let" -> DoLet(n, st)
    [] n.is = "expr" -> Do(n.of, st)
    [] n.is = "block" -> Closing(DoEach(n.of, st), st)
    [] n.is = "if" -> LET c == Do(n.cond, st)
                      IN IF Stopped(c) THEN c
                         ELSE IF Truthy(c.val) THEN Closing(Do(n.then, c), st)
                         ELSE Closing(DoEach(n.else, c), st)
    [] n.is = "while" -> DoLoop(n, <<n.cond>>, <<>>, st)
    [] n.is = "for" -> LET s == DoEach(n.init, st) IN Closing(IF Stopped(s) THEN s ELSE Do([n EXCEPT !.is = "turn"], s), st)
    [] n.is = "turn" -> IF "step" \in DOMAIN n THEN DoLoop(n, n.cond, n.step, st) ELSE DoLoop(n, <<n.cond>>, <<>>, st)
    [] n.is = "forof" -> Closing(EndLoop(Then(Do(n.of, st), LAMBDA r : DoForOf(n, r))), st)
    [] n.is \in {"break", "continue"} -> Signal(n.is, st)
    [] n.is = "return" -> LET r == IF n.of = <<>> THEN Give(UnsetV, st) ELSE Do(n.of[1], st)
                          IN IF Stopped(r) THEN r ELSE Signal("return", r)
    [] n.is = "throw" -> LET r == Do(n.of, st)
                         IN IF Stopped(r) THEN r ELSE IF IsA(r.val, "Error", r) THEN Signal("throw", r) ELSE GoesWrong(r)
    [] n.is = "try" -> DoTry(n, st)
    [] n.is = "function" -> DoDeclare(n, st)

\* How a run of the program ends.
RunEnds(p, script) == Do(Calling([k |-> "fn", f |-> RunStarts(p, script).decls["main"], env |-> <<>>, this |-> <<>>,
                              class |-> ""], <<>>), RunStarts(p, script)).sig
Scripts == [1..MaxLooks -> BOOLEAN]

=============================================================================
