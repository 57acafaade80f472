-------------------------------- MODULE Parser --------------------------------
(***************************************************************************)
(* The parser (compiler/frontend/parser.rs): recursive descent over a      *)
(* sequence of tokens that ends in "eof".  It goes on after an error, and  *)
(* some productions look ahead and go back, or rewrite tokens that the     *)
(* lexer split or joined.                                                  *)
(*                                                                         *)
(* A token is a string; a name is a member of Names.  A syntax tree has an *)
(* operation and a sequence of subtrees.  Strings, templates, characters   *)
(* and numbers are names here; positions and messages are left out.        *)
(***************************************************************************)
EXTENDS Naturals, SequencesExt

CONSTANTS
  Names,     \* identifiers and literals
  Sources    \* what is parsed: a sequence of tokens and the tree it stands for,
             \* Nothing if it is any sequence

VARIABLES
  meant,     \* the tree the source stands for
  cursor,    \* tokens, the current one, and the errors so far
  parsed     \* the declarations that were parsed

parserVars == <<meant, cursor, parsed>>

Tree(op, args) == [op |-> op, args |-> args]
Name(n) == Tree(n, <<>>)
Nothing == Name("")
Result(s, t) == [s |-> s, t |-> t]

---------------------------------------------------------------------------
(* Tokens: peek, check, match_token, consume *)

Current(s) == s.toks[s.at]
AtEnd(s) == Current(s) = "eof"
Following(s) == IF s.at < Len(s.toks) THEN s.toks[s.at + 1] ELSE "eof"
Advance(s) == IF AtEnd(s) THEN s ELSE [s EXCEPT !.at = @ + 1]
Fail(s) == [s EXCEPT !.errs = @ + 1]

Check(s, t) == Current(s) = t
Skip(s, t) == IF Check(s, t) THEN Advance(s) ELSE s
Consume(s, t) == IF Check(s, t) THEN Advance(s) ELSE Advance(Fail(s))

\* Operators that are also matched by their two characters.
Halves(t) ==
  CASE t = "==" -> <<"=", "=">> [] t = "!=" -> <<"!", "=">>
    [] t = "<=" -> <<"<", "=">> [] t = ">=" -> <<">", "=">>
    [] t = "++" -> <<"+", "+">> [] t = "--" -> <<"-", "-">>
    [] OTHER -> <<t, "">>

Matches(s, t) == Check(s, t) \/ <<Current(s), Following(s)>> = Halves(t)
Match(s, t) ==
  IF Check(s, t) THEN Advance(s)
  ELSE [s EXCEPT !.at = @ + 2, !.toks[s.at + 1] = t]

\* The first of some operators that matches, "" if none does.
OneOf(s, ops) ==
  IF \E k \in DOMAIN ops : Matches(s, ops[k])
  THEN ops[CHOOSE k \in DOMAIN ops : Matches(s, ops[k]) /\ \A j \in 1..k - 1 : ~Matches(s, ops[j])]
  ELSE ""

\* consume_identifier: some keywords are names too.
SoftKeywords == {"of", "as", "from", "type", "static", "abstract", "public", "private",
                 "namespace", "interface", "enum", "catch", "finally", "extends", "Some", "None",
                 "int", "string", "void", "Option", "Optional"}
IsName(s) == Current(s) \in Names \cup SoftKeywords
ConsumeName(s) ==
  IF IsName(s) THEN Result(Advance(s), Name(Current(s))) ELSE Result(Advance(Fail(s)), Name("error"))

\* Parse(what, s) is the production called what, from s.
RECURSIVE Parse(_, _)

\* Parse, and again after every ",".
RECURSIVE Commas(_, _, _)
Commas(what, s, ts) ==
  LET r == Parse(what, s)
  IN IF Check(r.s, ",") THEN Commas(what, Advance(r.s), Append(ts, r.t)) ELSE Result(r.s, Append(ts, r.t))

\* A list with commas up to close.
List(what, s, close) ==
  LET r == IF Check(s, close) THEN Result(s, <<>>) ELSE Commas(what, s, <<>>)
  IN Result(Consume(r.s, close), r.t)

\* A list between "<" and ">", which may be left out.
AngledList(r) == Result(Consume(r.s, ">"), r.t)
Angled(what, s) ==
  IF Check(s, "<") THEN AngledList(Commas(what, Advance(s), <<>>)) ELSE Result(s, <<>>)

\* Items up to close or the end of the tokens; sep after an item may be left out.
RECURSIVE Items(_, _, _, _, _)
Items(what, s, sep, close, ts) ==
  IF Current(s) \in close \cup {"eof"} THEN Result(s, ts)
  ELSE LET r == Parse(what, s) IN Items(what, Skip(r.s, sep), sep, close, Append(ts, r.t))

Closed(what, s, sep, close) ==
  LET r == Items(what, s, sep, {close}, <<>>) IN Result(Consume(r.s, close), r.t)

\* What follows t, if t is there.
Optional(s, t, what) == IF Matches(s, t) THEN Parse(what, Match(s, t)) ELSE Result(s, Nothing)
\* What may be left out before t.
Unless(s, t, what) == IF Check(s, t) THEN Result(s, Nothing) ELSE Parse(what, s)

---------------------------------------------------------------------------
(* Types *)

\* One or more type arguments; ">>" is cut in two.
TypeArguments(s) ==
  LET r == Commas("type", s, <<>>)
  IN Result(CASE Check(r.s, ">") -> Advance(r.s)
              [] Check(r.s, ">>") -> [r.s EXCEPT !.toks[r.s.at] = ">"]
              [] OTHER -> Consume(r.s, ">"), r.t)

FunctionType(s) ==
  LET p == List("typeParam", s, ")")
      r == Parse("type", Consume(p.s, "=>"))
  IN Result(r.s, Tree("fn", Append(p.t, r.t)))

TypeParam(s) ==
  IF IsName(s) /\ Following(s) = ":" THEN Parse("type", Advance(Advance(s))) ELSE Parse("type", s)

\* Option is not a type, Optional takes one argument.
NamedType(s) ==
  LET n == ConsumeName(s)
      a == TypeArguments(Advance(n.s))
      refused == n.t = Name("Option") \/ (n.t = Name("Optional") /\ Len(a.t) # 1)
  IN IF Check(n.s, "<") /\ IsName(s)
     THEN Result(IF refused THEN Fail(a.s) ELSE a.s, Tree("generic", <<n.t>> \o a.t)) ELSE n

TypeMember(s) ==
  LET k == ConsumeName(s)
      t == Parse("type", Consume(Skip(k.s, "?"), ":"))
  IN Result(t.s, Tree(IF Check(k.s, "?") THEN "maybe" ELSE "has", <<k.t, t.t>>))

\* The members of an object type stop at the first that is not followed by "," or ";".
RECURSIVE TypeMembers(_, _)
TypeMembers(s, ts) ==
  LET r == TypeMember(s)
      all == Append(ts, r.t)
  IN IF Check(s, "}") \/ AtEnd(s) THEN Result(s, ts)
     ELSE IF Current(r.s) \in {",", ";"} THEN TypeMembers(Advance(r.s), all) ELSE Result(r.s, all)

ObjectType(s) ==
  LET r == TypeMembers(s, <<>>) IN Result(Consume(r.s, "}"), Tree("{}", r.t))

\* int[2][] is an array of two arrays.
RECURSIVE Brackets(_)
Brackets(r) ==
  IF ~Check(r.s, "[") THEN r
  ELSE LET e == Unless(Advance(r.s), "]", "expression")
           rest == Brackets(Result(Consume(e.s, "]"), r.t))
       IN Result(rest.s, Tree("array", <<rest.t, e.t>>))

RECURSIVE Intersected(_, _)
Intersected(s, ts) ==
  IF Check(s, "&") THEN LET r == Parse("baseType", Advance(s)) IN Intersected(r.s, Append(ts, r.t))
  ELSE Result(s, IF Len(ts) = 1 THEN ts[1] ELSE Tree("&", ts))

BaseType(s) ==
  IF Check(s, "(") THEN FunctionType(Advance(s))
  ELSE IF Check(s, "{") THEN Brackets(ObjectType(Advance(s)))
  ELSE LET r == Brackets(NamedType(s)) IN Intersected(r.s, <<r.t>>)

\* A union is an error.
RECURSIVE Unions(_, _)
Unions(r, n) ==
  IF Check(r.s, "|") THEN Unions(Parse("baseType", Advance(r.s)), n + 1)
  ELSE IF n = 0 THEN r ELSE Result(Fail(r.s), Name("any"))

---------------------------------------------------------------------------
(* Expressions *)

\* The operators of each level, from the weakest, in the order they are tried, and the
\* level of their right operand.  Level 12 is that of unary operators.
Operators ==
  << <<"??">>, <<"||">>, <<"&&">>, <<"|">>, <<"^">>, <<"&">>, <<"==", "!=">>,
     <<">=", ">", "<=", "<", "instanceof">>, <<"<<", ">>">>, <<"+", "-">>, <<"*", "/", "%">> >>

RightLevel(l) ==
  CASE Operators[l] = <<"&&">> -> 7
    [] Operators[l][1] = ">=" -> 10
    [] OTHER -> l + 1

\* A level parses an operand of the next one, then takes its operators as long as they
\* follow: after an operator of level k, those of k and the weaker levels up to l.
\* The levels whose operators do not follow are passed over.
RECURSIVE Binaries(_, _, _)

Level(s, l) == Binaries(Parse("unary", s), Len(Operators), l)

\* Mutant: operators of a level group to the right.
BinariesRight(left, k, l) ==
  LET follow == {j \in l..k : OneOf(left.s, Operators[j]) # ""}
      j == CHOOSE n \in follow : \A m \in follow : m <= n
      op == OneOf(left.s, Operators[j])
      right == Level(Match(left.s, op), j)
  IN IF follow = {} THEN left ELSE Binaries(Result(right.s, Tree(op, <<left.t, right.t>>)), j, l)

Binaries(left, k, l) ==
  LET follow == {j \in l..k : OneOf(left.s, Operators[j]) # ""}
      j == CHOOSE n \in follow : \A m \in follow : m <= n
      op == OneOf(left.s, Operators[j])
      right == Level(Match(left.s, op), RightLevel(j))
  IN IF follow = {} THEN left ELSE Binaries(Result(right.s, Tree(op, <<left.t, right.t>>)), j, l)

Assignments == <<"=", "+=", "-=", "*=", "/=", "%=", "&=", "|=", "^=", "<<=", ">>=">>

Assignment(s) ==
  LET target == Parse("conditional", s)
      op == OneOf(target.s, Assignments)
      value == Parse("assignment", Match(target.s, op))
  IN IF op = "" THEN target ELSE Result(value.s, Tree(op, <<target.t, value.t>>))

\* Both branches are expressions with commas.
Branches(c) ==
  LET a == Parse("expression", Advance(c.s))
      b == Parse("expression", Consume(a.s, ":"))
  IN Result(b.s, Tree("?", <<c.t, a.t, b.t>>))
ConditionalFrom(c) == IF Check(c.s, "?") THEN Branches(c) ELSE c
Conditional(s) == ConditionalFrom(Level(s, 1))

Sequence(s) ==
  LET r == Commas("assignment", s, <<>>)
  IN Result(r.s, IF Len(r.t) = 1 THEN r.t[1] ELSE Tree(",", r.t))

Unary(s) ==
  LET op == OneOf(s, <<"++", "--", "!", "~", "-">>)
      right == Parse("unary", Match(s, op))
      r == Parse("call", s)
      post == OneOf(r.s, <<"++", "--">>)
  IN CASE op # "" -> Result(right.s, Tree("pre", <<Name(op), right.t>>))
       [] post # "" -> Result(Match(r.s, post), Tree("post", <<Name(post), r.t>>))
       [] OTHER -> r

\* is_generic_call_lookahead: "<" closed by a ">" before "(" or "?.", with nothing in
\* between that ends an expression.
RECURSIVE ClosesAngle(_, _)
ClosesAngle(s, depth) ==
  CASE AtEnd(s) \/ Current(s) \in {";", "{", "=", "let", "function"} -> FALSE
    [] Check(s, "<") -> ClosesAngle(Advance(s), depth + 1)
    [] Check(s, ">") /\ depth = 1 -> Following(s) \in {"(", "?."}
    [] Check(s, ">") -> ClosesAngle(Advance(s), depth - 1)
    [] OTHER -> ClosesAngle(Advance(s), depth)

IsGenericCall(s) == Check(s, "<") /\ ClosesAngle(Advance(s), 1)

\* What may follow a primary expression, again and again.  Type arguments are an
\* error but for a call.
RECURSIVE Chain(_)
CallArguments(s) == IF IsGenericCall(s) THEN List("type", Advance(s), ">") ELSE Result(s, <<>>)

Chained(r, g) ==
  LET s == g.s
      plain == IF IsGenericCall(r.s) THEN Fail(s) ELSE s
      Call(op, t) == LET a == List("assignment", t, ")")
                     IN Chain(Result(a.s, Tree(op, <<r.t, Tree("<", g.t)>> \o a.t)))
      Index(op, t) == LET i == Parse("assignment", t)
                      IN Chain(Result(Consume(i.s, "]"), Tree(op, <<r.t, i.t>>)))
      Member(op, t) == LET n == ConsumeName(t) IN Chain(Result(n.s, Tree(op, <<r.t, n.t>>)))
      Cast(t) == LET c == Parse("type", t) IN Chain(Result(c.s, Tree("as", <<r.t, c.t>>)))
      chained == Advance(plain)
  IN CASE Check(s, "(") -> Call("call", Advance(s))
       [] Check(s, "?.") /\ Check(Advance(s), "(") -> Call("?call", Advance(Advance(s)))
       [] Check(s, "?.") /\ Check(chained, "[") -> Index("?index", Advance(chained))
       [] Check(s, "?.") -> Member("?.", chained)
       [] Current(s) \in {".", "::"} -> Member(Current(s), chained)
       [] Check(s, "[") -> Index("index", chained)
       [] Check(s, "as") -> Cast(Advance(s))
       [] OTHER -> Result(plain, r.t)

Chain(r) == Chained(r, CallArguments(r.s))

NewExpression(s) ==
  LET c == Result(IF Current(s) \in Names THEN Advance(s) ELSE Consume(s, "name"), Name(Current(s)))
      g == Angled("type", c.s)
      a == List("assignment", Consume(g.s, "("), ")")
  IN Result(a.s, Tree("new", <<c.t, Tree("<", g.t)>> \o a.t))

\* A "(" begins a lambda if the next ")" is before "=>".
RECURSIVE BeginsLambda(_)
BeginsLambda(s) ==
  CASE AtEnd(s) \/ Check(s, ";") -> FALSE
    [] Check(s, ")") -> Following(s) = "=>"
    [] OTHER -> BeginsLambda(Advance(s))

\* A parameter: "...", a type and a default may be there.
Param(s) ==
  LET n == ConsumeName(Skip(s, "..."))
      t == Optional(n.s, ":", "type")
      d == Optional(t.s, "=", "assignment")
  IN Result(d.s, Tree(IF Check(s, "...") THEN "rest" ELSE "param", <<n.t, t.t, d.t>>))

Lambda(s) ==
  LET p == IF IsName(s) THEN LET n == ConsumeName(s) IN Result(n.s, <<Tree("param", <<n.t, Nothing, Nothing>>)>>)
           ELSE List("param", Consume(s, "("), ")")
      b == Consume(p.s, "=>")
      body == Parse(IF Check(b, "{") THEN "block" ELSE "assignment", b)
  IN Result(body.s, Tree("=>", Append(p.t, body.t)))

\* In a literal of an array or an object.
ItemOf(s) ==
  LET r == Parse("assignment", Skip(s, "..."))
  IN IF Check(s, "...") THEN Result(r.s, Tree("...", <<r.t>>)) ELSE r

Property(s) ==
  LET k == ConsumeName(s)
      v == Optional(k.s, ":", "assignment")
  IN IF Check(s, "...") THEN ItemOf(s)
     ELSE Result(v.s, Tree("property", <<k.t, IF v.t = Nothing THEN k.t ELSE v.t>>))

Some(s) ==
  LET e == Parse("expression", Consume(s, "(")) IN Result(Consume(e.s, ")"), Tree("Some", <<e.t>>))

Parenthesis(s) ==
  LET e == Parse("expression", Advance(s))
  IN IF BeginsLambda(s) THEN Lambda(s) ELSE Result(Consume(e.s, ")"), e.t)

Primary(s) ==
  LET a == Advance(s)
      Literal(op, r) == Result(r.s, Tree(op, r.t))
      named == Names \cup {"from", "of", "type", "as", "public", "private", "static", "abstract", "namespace"}
  IN CASE Current(s) \in {"true", "false", "this", "super", "None"} -> Result(a, Name(Current(s)))
       [] Check(s, "new") -> NewExpression(a)
       [] Check(s, "Some") -> Some(a)
       [] Current(s) \in named /\ Following(s) = "=>" -> Lambda(s)
       [] Current(s) \in named -> Result(a, Name(Current(s)))
       [] Check(s, "[") -> Literal("[", Closed("element", a, ",", "]"))
       [] Check(s, "{") -> Literal("{", Closed("property", a, ",", "}"))
       [] Check(s, "(") -> Parenthesis(s)
       [] OTHER -> Result(Advance(Fail(s)), Name("error"))

---------------------------------------------------------------------------
(* Statements *)

\* Binding patterns: names, arrays with a rest, objects.
Unpacked(a) ==
  LET rest == Parse("pattern", Advance(a.s))
  IN IF Check(a.s, "...") THEN Result(Consume(rest.s, "]"), Tree("[", Append(a.t, Tree("...", <<rest.t>>))))
     ELSE Result(Consume(a.s, "]"), Tree("[", a.t))

Pattern(s) ==
  CASE Check(s, "[") -> Unpacked(Items("pattern", Advance(s), ",", {"]", "..."}, <<>>))
    [] Check(s, "{") -> LET o == Closed("binding", Advance(s), ",", "}") IN Result(o.s, Tree("{", o.t))
    [] OTHER -> ConsumeName(s)

Binding(s) ==
  LET k == ConsumeName(s)
      p == Optional(k.s, ":", "pattern")
  IN Result(p.s, Tree("property", <<k.t, IF p.t = Nothing THEN k.t ELSE p.t>>))

\* A variable of an object type needs a value.
Declaring(v, t) == Result(IF v.t = Nothing /\ t.args[2].op = "{}" THEN Fail(v.s) ELSE v.s, t)
Declarator(s) ==
  LET p == Parse("pattern", s)
      t == Optional(p.s, ":", "type")
      v == Optional(t.s, "=", "assignment")
  IN Declaring(v, Tree("let", <<p.t, t.t, v.t>>))

Variables(s) ==
  LET r == Commas("declarator", Advance(s), <<>>)
  IN Result(Consume(r.s, ";"), IF Len(r.t) = 1 THEN r.t[1] ELSE Tree("block", r.t))

EndWith(r, op, ts) == Result(Consume(r.s, ";"), Tree(op, ts))

Statements(s, close) ==
  LET r == Items("declaration", s, "", close, <<>>)
  IN Result(r.s, SelectSeq(r.t, LAMBDA t : t # Nothing))

BlockOf(s) ==
  LET r == Statements(Consume(s, "{"), {"}"}) IN Result(Consume(r.s, "}"), Tree("block", r.t))

Parenthesized(s) ==
  LET e == Parse("expression", Consume(s, "(")) IN Result(Consume(e.s, ")"), e.t)

IfStatement(s) ==
  LET c == Parenthesized(s)
      a == Parse("statement", c.s)
      b == Optional(a.s, "else", "statement")
  IN Result(b.s, Tree("if", <<c.t, a.t, b.t>>))

WhileStatement(s) ==
  LET c == Parenthesized(s)
      b == Parse("statement", c.s)
  IN Result(b.s, Tree("while", <<c.t, b.t>>))

\* The look ahead for "of" goes back to its start; what it did to the tokens, and its
\* errors, stay.
LooksForOf(s) ==
  LET n == Advance(Advance(s))
      t == IF Check(n, ":") THEN Parse("type", Advance(n)).s ELSE n
      named == Current(s) \in {"let", "const"} /\ Following(s) \in Names
  IN [of |-> named /\ Check(t, "of"), s |-> IF named THEN [t EXCEPT !.at = s.at] ELSE s]

ForOf(s) ==
  LET p == Parse("pattern", Advance(s))
      t == Optional(p.s, ":", "type")
      e == Parse("expression", Consume(t.s, "of"))
      b == Parse("statement", Consume(e.s, ")"))
  IN Result(b.s, Tree("of", <<p.t, e.t, b.t>>))

ForLoop(s) ==
  LET i == CASE Check(s, ";") -> Result(Advance(s), Nothing)
             [] Current(s) \in {"let", "const"} -> Parse("variables", s)
             [] OTHER -> LET e == Parse("expression", s) IN EndWith(e, "do", <<e.t>>)
      c == Unless(i.s, ";", "expression")
      n == Unless(Consume(c.s, ";"), ")", "expression")
      b == Parse("statement", Consume(n.s, ")"))
  IN Result(b.s, Tree("for", <<i.t, c.t, n.t, b.t>>))

ForFrom(look) == IF look.of THEN ForOf(look.s) ELSE ForLoop(look.s)
ForStatement(s) == ForFrom(LooksForOf(Consume(s, "(")))

RECURSIVE Cases(_, _)
Cases(s, ts) ==
  LET v == IF Check(s, "case") THEN Parse("expression", Advance(s)) ELSE Result(Advance(s), Nothing)
      b == Statements(Consume(v.s, ":"), {"case", "default", "}"})
  IN IF Current(s) \in {"case", "default"} THEN Cases(b.s, Append(ts, Tree("case", <<v.t>> \o b.t)))
     ELSE Result(s, ts)

SwitchStatement(s) ==
  LET e == Parenthesized(s)
      c == Cases(Consume(e.s, "{"), <<>>)
  IN Result(Consume(c.s, "}"), Tree("switch", <<e.t>> \o c.t))

CatchBlock(s) ==
  LET n == Consume(s, "(")
      b == BlockOf(Consume(IF Current(n) \in Names THEN Advance(n) ELSE Fail(Advance(n)), ")"))
  IN Result(b.s, Tree("catch", <<Name(Current(n)), b.t>>))

TryStatement(s) ==
  LET t == BlockOf(s)
      c == IF Check(t.s, "catch") THEN CatchBlock(Advance(t.s)) ELSE Result(t.s, Nothing)
      f == Optional(c.s, "finally", "block")
  IN Result(f.s, Tree("try", <<t.t, c.t, f.t>>))

SimpleStatement(s, op) == LET e == Parse("expression", s) IN EndWith(e, op, <<e.t>>)

ParseStatement(s) ==
  LET a == Advance(s)
  IN CASE Check(s, "{") -> BlockOf(s)
       [] Check(s, "if") -> IfStatement(a)
       [] Check(s, "while") -> WhileStatement(a)
       [] Check(s, "for") -> ForStatement(a)
       [] Check(s, "return") /\ Check(a, ";") -> Result(Advance(a), Tree("return", <<>>))
       [] Current(s) \in {"return", "throw", "del"} -> SimpleStatement(a, Current(s))
       [] Current(s) \in {"break", "continue"} -> Result(Consume(a, ";"), Name(Current(s)))
       [] Check(s, "switch") -> SwitchStatement(a)
       [] Check(s, "try") -> TryStatement(a)
       [] OTHER -> SimpleStatement(s, "do")

---------------------------------------------------------------------------
(* Declarations *)

GenericParam(s) ==
  LET n == Result(Advance(s), Name(Current(s)))
      b == Optional(IF Current(s) \in Names THEN n.s ELSE Fail(n.s), ":", "type")
  IN Result(b.s, Tree("T", <<n.t, b.t>>))

\* <T: Bound, U>
Generics(s) == Angled("genericParam", s)

\* From "(": parameters, result and body, or ";" when there is no body.
Callable(s, hasBody) ==
  LET p == List("param", Consume(s, "("), ")")
      t == Optional(p.s, ":", "type")
      b == IF hasBody THEN BlockOf(t.s) ELSE Result(Consume(t.s, ";"), Nothing)
  IN Result(b.s, <<Tree("(", p.t), t.t, b.t>>)

Function(s, hasBody) ==
  LET n == ConsumeName(Consume(s, "function"))
      g == Generics(n.s)
      c == Callable(g.s, hasBody)
  IN Result(c.s, Tree("function", <<n.t, Tree("<", g.t)>> \o c.t))

Modifiers == {"public", "private", "static", "abstract"}
RECURSIVE Modified(_, _)
Modified(s, ms) ==
  IF Current(s) \in Modifiers THEN Modified(Advance(s), ms \cup {Current(s)}) ELSE [s |-> s, ms |-> ms]

\* Type parameters of a method are seen only when the first has no bound.
MethodGenerics(s) ==
  IF Check(s, "<") /\ Following(s) \in Names /\ Following(Advance(s)) \in {",", ">"}
  THEN Generics(s) ELSE Result(s, <<>>)

Constructor(s) ==
  LET c == Callable(s, TRUE) IN Result(c.s, Tree("constructor", c.t))

\* A member called n: a method or a field.
MemberNamed(n, g, ms) ==
  LET tag == IF "static" \in ms THEN "static" ELSE "member"
      method == Callable(g.s, "abstract" \notin ms)
      t == Optional(g.s, ":", "type")
      v == Optional(t.s, "=", "expression")
  IN IF Check(g.s, "(") THEN Result(method.s, Tree(tag, <<n.t, Tree("<", g.t)>> \o method.t))
     ELSE EndWith(v, tag, <<n.t, t.t, v.t>>)

MemberAfter(m) ==
  LET n == ConsumeName(m.s)
  IN IF Check(m.s, "constructor") THEN Constructor(Advance(m.s))
     ELSE MemberNamed(n, MethodGenerics(n.s), m.ms)

ClassMember(s) == MemberAfter(Modified(s, {}))

Parent(s) ==
  IF Check(s, "extends") THEN LET p == Result(Advance(s), Name(Following(s)))
                              IN Result(IF p.t.op \in Names THEN Advance(p.s) ELSE Advance(Fail(p.s)), p.t)
  ELSE Result(s, Nothing)

Implemented(s) ==
  IF Check(s, "implements") THEN Commas("name", Advance(s), <<>>) ELSE Result(s, <<>>)

Class(s) ==
  LET n == ConsumeName(Consume(s, "class"))
      g == Generics(n.s)
      p == Parent(g.s)
      i == Implemented(p.s)
      m == Closed("member", Consume(i.s, "{"), "", "}")
  IN Result(m.s, Tree("class", <<n.t, Tree("<", g.t), p.t, Tree("implements", i.t)>> \o m.t))

InterfaceParam(s) ==
  LET n == ConsumeName(s)
      t == Parse("type", Consume(n.s, ":"))
  IN Result(t.s, Tree("param", <<n.t, t.t, Nothing>>))

\* The fields of an interface are read and left out.
InterfaceMember(s) ==
  LET n == ConsumeName(s)
      p == List("interfaceParam", Advance(n.s), ")")
      r == Parse("type", Consume(p.s, ":"))
      f == Parse("type", Consume(n.s, ":"))
  IN IF Check(n.s, "(") THEN EndWith(r, "member", <<n.t, Tree("(", p.t), r.t>>)
     ELSE Result(Consume(f.s, ";"), Nothing)

EnumMember(s) ==
  LET n == ConsumeName(s)
      v == Optional(n.s, "=", "assignment")
  IN Result(v.s, Tree("=", <<n.t, v.t>>))

Braced(s, op, what, sep) ==
  LET n == ConsumeName(s)
      m == Closed(what, Consume(n.s, "{"), sep, "}")
  IN Result(m.s, Tree(op, <<n.t>> \o SelectSeq(m.t, LAMBDA t : t # Nothing)))

TypeAlias(s) ==
  LET n == ConsumeName(s)
      t == Parse("type", Consume(n.s, "="))
  IN EndWith(t, "type", <<n.t, t.t>>)

\* Anything but a function or a variable in a namespace is skipped, token by token.
NamespaceMember(start) ==
  LET s == Skip(start, "export")
  IN CASE Check(s, "function") -> Parse("function", s)
       [] Current(s) \in {"let", "const"} -> Parse("variables", s)
       [] OTHER -> Result(Advance(s), Nothing)

\* import name from "path"; or import {a, b} from "path"; from may be left out.
Import(s) ==
  LET n == CASE Check(s, "{") -> Closed("name", Advance(s), ",", "}")
             [] Current(s) \in Names -> Result(Advance(s), <<Name(Current(s))>>)
             [] OTHER -> Result(s, <<>>)
      path == Consume(Skip(n.s, "from"), "path")
  IN Result(Consume(path, ";"), Tree("import", n.t))

\* What an export may be followed by.
Exported(s) ==
  CASE Current(s) \in {"let", "const"} -> Parse("variables", s)
    [] Current(s) \in {"class", "abstract"} -> Class(Skip(s, "abstract"))
    [] Check(s, "interface") -> Braced(Advance(s), "interface", "interfaceMember", "")
    [] Check(s, "enum") -> Braced(Advance(s), "enum", "enumMember", ",")
    [] Check(s, "type") -> TypeAlias(Advance(s))
    [] Check(s, "namespace") -> Braced(Advance(s), "namespace", "namespaceMember", "")
    [] Check(s, "function") -> Parse("function", s)
    [] OTHER -> Result(s, Nothing)

Exporting(e) == Result(e.s, IF e.t = Nothing THEN Nothing ELSE Tree("export", <<e.t>>))
Export(s) ==
  LET d == Skip(s, "default")
  IN Exporting(IF Check(d, "extern") /\ Check(Advance(d), "function") THEN Parse("extern", Advance(d))
               ELSE Parse("exported", Skip(d, "extern")))

RECURSIVE ToBracket(_)
ToBracket(s) == IF Check(s, "]") \/ AtEnd(s) THEN Skip(s, "]") ELSE ToBracket(Advance(s))

\* Nothing when the tokens begin no declaration.
ParseDeclaration(s) ==
  LET a == Advance(s)
      starts == {"let", "const", "function", "class", "interface", "enum", "type", "namespace"}
  IN CASE Check(s, "#") /\ Check(a, "[") -> Parse("declaration", ToBracket(a))
       [] Check(s, "#") -> Result(a, Nothing)
       [] Current(s) \in starts \/ (Check(s, "abstract") /\ Check(a, "class")) -> Parse("exported", s)
       [] Check(s, "export") -> Export(a)
       [] Check(s, "extern") -> Parse("extern", a)
       [] Check(s, "import") -> Import(a)
       [] OTHER -> Parse("statement", s)

Parse(what, s) ==
  CASE what = "type" -> Unions(Parse("baseType", s), 0)
    [] what = "baseType" -> BaseType(s)
    [] what = "typeParam" -> TypeParam(s)
    [] what = "expression" -> Sequence(s)
    [] what = "assignment" -> Assignment(s)
    [] what = "conditional" -> Conditional(s)
    [] what = "unary" -> Unary(s)
    [] what = "call" -> Chain(Primary(s))
    [] what = "param" -> Param(s)
    [] what = "element" -> ItemOf(s)
    [] what = "property" -> Property(s)
    [] what = "pattern" -> Pattern(s)
    [] what = "binding" -> Binding(s)
    [] what = "declarator" -> Declarator(s)
    [] what = "block" -> BlockOf(s)
    [] what = "statement" -> ParseStatement(s)
    [] what = "declaration" -> ParseDeclaration(s)
    [] what = "genericParam" -> GenericParam(s)
    [] what = "member" -> ClassMember(s)
    [] what = "interfaceParam" -> InterfaceParam(s)
    [] what = "interfaceMember" -> InterfaceMember(s)
    [] what = "enumMember" -> EnumMember(s)
    [] what = "namespaceMember" -> NamespaceMember(s)
    [] what = "name" -> ConsumeName(s)
    [] what = "variables" -> Variables(s)
    [] what = "function" -> Function(s, TRUE)
    [] what = "extern" -> Function(s, FALSE)
    [] what = "exported" -> Exported(s)

---------------------------------------------------------------------------
(* parse_program *)

ParserInit ==
  /\ parsed = <<>>
  /\ \E src \in Sources : meant = src.tree /\ cursor = [toks |-> src.toks, at |-> 1, errs |-> 0]

\* d is what was read at the cursor.
TakeDeclaration(d) ==
  /\ d.t # Nothing
  /\ cursor' = d.s /\ parsed' = Append(parsed, d.t)
  /\ UNCHANGED meant

\* synchronize: the parser goes on at the next token that may begin a declaration, or
\* after the next ";".
Boundaries == {"class", "function", "let", "const", "for", "if", "while", "return",
               "switch", "export", "import", "}"}

RECURSIVE ToBoundary(_)
ToBoundary(s) ==
  IF AtEnd(s) \/ s.toks[s.at - 1] = ";" \/ Current(s) \in Boundaries THEN s ELSE ToBoundary(Advance(s))

\* Mutant: the recovery stays where it failed.
SynchronizeStays(d) ==
  /\ d.t = Nothing
  /\ cursor' = Fail(cursor)
  /\ UNCHANGED <<meant, parsed>>

Synchronize(d) ==
  /\ d.t = Nothing
  /\ cursor' = IF Current(d.s) \in Boundaries THEN d.s ELSE ToBoundary(Advance(d.s))
  /\ UNCHANGED <<meant, parsed>>

ParserNext ==
  /\ ~AtEnd(cursor)
  /\ \E d \in {Parse("declaration", cursor)} : TakeDeclaration(d) \/ Synchronize(d)

ParserSpec == ParserInit /\ [][ParserNext]_parserVars

---------------------------------------------------------------------------
(* How a tree is written, after docs/LANGUAGE_SPECIFICATION.md: Binding is the row of  *)
(* the table of precedence (5.1), and a parenthesis is set only where it is needed.    *)

Rows == << <<".", "::", "?.", "index", "?index", "call", "?call">>, <<"post">>, <<"pre">>, <<"as">>,
           <<"*", "/", "%">>, <<"+", "-">>, <<"<<", ">>">>, <<"<", "<=", ">", ">=", "instanceof">>,
           <<"==", "!=">>, <<"&">>, <<"^">>, <<"|">>, <<"&&">>, <<"||">>, <<"??">>, <<"?">>,
           Assignments \o <<"=>">>, <<",">> >>

RowOf(t) ==
  IF \E n \in DOMAIN Rows : t.args # <<>> /\ t.op \in ToSet(Rows[n])
  THEN CHOOSE n \in DOMAIN Rows : t.op \in ToSet(Rows[n]) ELSE 0

RECURSIVE Written(_), Joined(_, _, _)

\* t where a tree of row limit may stand.
Fits(t, limit) == IF RowOf(t) > limit THEN <<"(">> \o Written(t) \o <<")">> ELSE Written(t)

\* The trees of ts, each where a tree of row limit may stand, with sep between.
Joined(ts, sep, limit) ==
  IF ts = <<>> THEN <<>>
  ELSE Fits(ts[1], limit) \o (IF Len(ts) = 1 THEN <<>> ELSE sep) \o Joined(Tail(ts), sep, limit)

After(token, t, limit) == IF t = Nothing THEN <<>> ELSE <<token>> \o Fits(t, limit)
Angles(g) == IF g.args = <<>> THEN <<>> ELSE <<"<">> \o Joined(g.args, <<",">>, 0) \o <<">">>
Rest(t, n) == SubSeq(t.args, n, Len(t.args))

\* From the parameters of a function.
Signature(ts) ==
  <<"(">> \o Joined(ts[1].args, <<",">>, 0) \o <<")">> \o After(":", ts[2], 0)
  \o (IF ts[3] = Nothing THEN <<";">> ELSE Written(ts[3]))

Field(ts) == Written(ts[1]) \o After(":", ts[2], 0) \o After("=", ts[3], 17)

Written(t) ==
  LET a == t.args
      n == RowOf(t)
      One(k, limit) == Fits(a[k], limit)
      Perhaps(k, limit) == IF a[k] = Nothing THEN <<>> ELSE One(k, limit)
      Stop(toks) == toks \o <<";">>
      Declared(toks) == IF Len(a) = 3 THEN Stop(toks \o Field(a))
                        ELSE toks \o Written(a[1]) \o Angles(a[2]) \o Signature(Rest(t, 3))
  IN CASE t.op \in {"break", "continue"} -> Stop(<<t.op>>)
       [] t.op = "return" /\ a = <<>> -> Stop(<<t.op>>)
       [] t.op \in {"return", "throw", "del"} -> Stop(<<t.op>> \o One(1, 18))
       [] t.op = "block" -> <<"{">> \o Joined(a, <<>>, 18) \o <<"}">>
       [] t.op = "let" -> Stop(<<"let">> \o Field(a))
       [] t.op = "do" -> Stop(One(1, 18))
       [] t.op = "(" -> <<>>
       [] t.op = "[" -> <<"[">> \o Joined(a, <<",">>, 17) \o <<"]">>
       [] t.op = "{" -> <<"{">> \o Joined(a, <<",">>, 17) \o <<"}">>
       [] a = <<>> -> <<t.op>>
       [] t.op \in {"call", "?call"} ->
            One(1, 1) \o (IF t.op = "call" THEN <<>> ELSE <<"?.">>) \o Angles(a[2]) \o <<"(">> \o Joined(Rest(t, 3), <<",">>, 17) \o <<")">>
       [] t.op \in {"index", "?index"} ->
            One(1, 1) \o (IF t.op = "index" THEN <<"[">> ELSE <<"?.", "[">>) \o One(2, 17) \o <<"]">>
       [] t.op = "post" -> One(2, 1) \o Written(a[1])
       [] t.op = "pre" -> Written(a[1]) \o One(2, 3)
       [] t.op = "?" /\ Len(a) = 3 -> One(1, 15) \o <<"?">> \o One(2, 18) \o <<":">> \o One(3, 16)
       [] t.op = "," -> Joined(a, <<",">>, 17)
       [] t.op = "=>" -> <<"(">> \o Joined(SubSeq(a, 1, Len(a) - 1), <<",">>, 0) \o <<")", "=>">> \o One(Len(a), 17)
       [] t.op \in ToSet(Assignments) /\ n = 17 /\ Len(a) = 2 -> One(1, 16) \o <<t.op>> \o One(2, 17)
       [] n > 0 -> One(1, n) \o <<t.op>> \o One(2, n - 1)
       [] t.op = "new" -> <<"new">> \o One(1, 0) \o Angles(a[2]) \o <<"(">> \o Joined(Rest(t, 3), <<",">>, 17) \o <<")">>
       [] t.op = "Some" -> <<"Some", "(">> \o One(1, 18) \o <<")">>
       [] t.op = "..." -> <<"...">> \o One(1, 17)
       [] t.op = "property" -> One(1, 0) \o (IF a[1] = a[2] THEN <<>> ELSE <<":">> \o One(2, 17))
       [] t.op = "array" -> One(1, 0) \o <<"[">> \o Perhaps(2, 18) \o <<"]">>
       [] t.op = "generic" -> One(1, 0) \o <<"<">> \o Joined(Rest(t, 2), <<",">>, 0) \o <<">">>
       [] t.op = "fn" -> <<"(">> \o Joined(SubSeq(a, 1, Len(a) - 1), <<",">>, 0) \o <<")", "=>">> \o One(Len(a), 0)
       [] t.op = "param" -> Field(a)
       [] t.op = "T" -> One(1, 0) \o After(":", a[2], 0)
       [] t.op = "if" -> <<"if", "(">> \o One(1, 18) \o <<")">> \o One(2, 18) \o After("else", a[3], 18)
       [] t.op = "while" -> <<"while", "(">> \o One(1, 18) \o <<")">> \o One(2, 18)
       [] t.op = "of" -> <<"for", "(", "let">> \o One(1, 0) \o <<"of">> \o One(2, 18) \o <<")">> \o One(3, 18)
       [] t.op = "for" -> <<"for", "(">> \o Stop(SelectSeq(One(1, 18), LAMBDA k : k # ";"))
                          \o Stop(Perhaps(2, 18)) \o Perhaps(3, 18) \o <<")">> \o One(4, 18)
       [] t.op = "switch" -> <<"switch", "(">> \o One(1, 18) \o <<")", "{">> \o Joined(Rest(t, 2), <<>>, 18) \o <<"}">>
       [] t.op = "case" -> (IF a[1] = Nothing THEN <<"default">> ELSE <<"case">> \o One(1, 18)) \o <<":">> \o Joined(Rest(t, 2), <<>>, 18)
       [] t.op = "try" -> <<"try">> \o One(1, 18) \o Perhaps(2, 18) \o After("finally", a[3], 18)
       [] t.op = "catch" -> <<"catch", "(">> \o One(1, 18) \o <<")">> \o One(2, 18)
       [] t.op = "function" -> <<"function">> \o Declared(<<>>)
       [] t.op = "member" -> Declared(<<>>)
       [] t.op = "static" -> Declared(<<"static">>)
       [] t.op = "constructor" -> <<"constructor">> \o Signature(a)
       [] t.op = "class" -> <<"class">> \o One(1, 0) \o Angles(a[2]) \o After("extends", a[3], 0)
                            \o <<"{">> \o Joined(Rest(t, 5), <<>>, 18) \o <<"}">>
       [] t.op = "export" -> <<"export">> \o One(1, 18)

---------------------------------------------------------------------------
(* Properties. *)

\* A source that is written after the language specification is parsed without an
\* error to the tree it was written from.
ReadsAsWritten ==
  AtEnd(cursor) /\ meant # Nothing => parsed = <<meant>> /\ cursor.errs = 0

\* Every declaration, wrong or not, and every step of the recovery takes a token: the
\* parser comes to the end of any sequence of tokens (parse_program, synchronize).
ParserAdvances == [][cursor'.at > cursor.at]_parserVars

\* What is accepted was read in full: written again after the specification, it has the
\* tokens of the source, but for the parentheses and commas that group, and it reads
\* the same.
Bare(toks) == SelectSeq(toks, LAMBDA t : t \notin {"(", ")", ",", "eof"})

ReadsTheSame(again) == again.t = parsed /\ again.s.errs = 0
InFull(text) ==
  /\ Bare(text) = Bare(cursor.toks)
  /\ ReadsTheSame(Items("declaration", [toks |-> Append(text, "eof"), at |-> 1, errs |-> 0], "", {}, <<>>))

AcceptedInFull ==
  AtEnd(cursor) /\ cursor.errs = 0 /\ meant = Nothing => InFull(Joined(parsed, <<>>, Len(Rows)))

\* The parser accepts what the specification says, as it says, and nothing else without
\* an error.
ParsesAsSpecified == ReadsAsWritten /\ AcceptedInFull

=============================================================================
