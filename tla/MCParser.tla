------------------------------ MODULE MCParser ------------------------------
\* Sources for Parser: programs written after the specification, programs with one
\* token replaced or left out, and all short sequences of some tokens.
EXTENDS Parser

MCNames == {"x", "y", "z", "w", "A"}
NX == Name("x")
NY == Name("y")
NZ == Name("z")
NW == Name("w")
NA == Name("A")

Bin(op, l, r) == Tree(op, <<l, r>>)
Doing(e) == Tree("do", <<e>>)
Giving(e) == Tree("return", <<e>>)
Blocked(s) == Tree("block", s)
NoTypes == Tree("<", <<>>)
Letting(n, t, v) == Tree("let", <<n, t, v>>)
Taking(n, t, d) == Tree("param", <<n, t, d>>)
OfType(n, args) == Tree("generic", <<n>> \o args)

\* Expressions of one operation, of each row of the table of precedence.
Shapes(l, r) ==
  {Bin(op, l, r) : op \in {"??", "||", "&&", "|", "^", "&", "==", "<", "<<", "+", "-", "*", "%", "=", ",", "index"}}
  \cup {Tree("?", <<l, r, NW>>), Tree("call", <<l, NoTypes, r, NW>>), Bin(".", l, NA), Bin("as", l, NA),
        Tree("pre", <<Name("-"), l>>), Tree("pre", <<Name("!"), l>>), Bin("[", l, r),
        Bin("{", Tree("property", <<NA, l>>), Tree("property", <<NA, r>>)), Tree("new", <<NA, NoTypes, l, r>>),
        Bin("=>", Taking(NA, Nothing, Nothing), l)}
Expressions == UNION {Shapes(i, NW) \cup Shapes(NW, i) : i \in Shapes(NX, NY)}

\* <<operation, operand, operation of the operand>> that the parser reads otherwise than
\* the specification says, or not at all; the last ones are not written as the printer does.
Unlike ==
  ({"&&"} \X {2} \X {"|", "^", "&"}) \cup {<<"<", 2, "<<">>, <<"as", 1, "pre">>, <<"-", 2, "pre">>, <<"pre", 2, "pre">>}
  \cup ({",", "call", "new", "["} \X (1..3) \X {"?"}) \cup {<<"property", 2, "?">>}
  \cup ({"<", "|", "&"} \X {1} \X {"as"}) \cup {<<"=", 1, "?">>, <<"=>", 2, "{">>}
InParentheses == {"call", "new", "[", ",", "=", "=>"}
Likewise(e) ==
  \A k \in DOMAIN e.args :
    /\ <<e.op, k, e.args[k].op>> \notin Unlike
    /\ e.op = "{" => e.args[k].args[2].op # "?"
    /\ e.args[k].op = "=>" => e.op \in InParentheses /\ (k > 1 \/ e.op \in {",", "["})

Types ==
  {NA, Tree("array", <<NA, Nothing>>), Tree("array", <<NA, NY>>), OfType(NA, <<NX>>),
   OfType(NA, <<NX, OfType(NA, <<NY>>)>>), Tree("fn", <<NA, NX, NA>>)}

NestedStatements(s, r) ==
  {Blocked(<<s, r>>), Tree("if", <<NX, s, Nothing>>), Tree("if", <<NX, Blocked(<<s>>), r>>), Tree("while", <<NX, s>>),
   Tree("of", <<NX, NY, s>>), Tree("for", <<Letting(NX, Nothing, NY), Nothing, Nothing, s>>),
   Tree("for", <<Letting(NX, Nothing, NY), Bin("<", NX, NZ), Tree("post", <<Name("++"), NX>>), s>>),
   Tree("switch", <<NX, Tree("case", <<NY, s>>), Tree("case", <<NZ>>), Tree("case", <<Nothing, r>>)>>),
   Tree("try", <<Blocked(<<s>>), Tree("catch", <<NX, Blocked(<<r>>)>>), Nothing>>),
   Tree("try", <<Blocked(<<s>>), Nothing, Blocked(<<r>>)>>)}
NestedDeclarations(s, r) ==
  {Tree("function", <<NX, NoTypes, Tree("(", <<Taking(NY, NA, Nothing), Taking(NZ, Nothing, NW)>>), NA, Blocked(<<s>>)>>),
   Tree("export", <<Tree("function", <<NX, Tree("<", <<Tree("T", <<NA, NY>>)>>), Tree("(", <<>>), Nothing, Blocked(<<r, s>>)>>)>>),
   Tree("class", <<NA, NoTypes, Nothing, Tree("implements", <<>>), Tree("member", <<NX, NY, NZ>>),
                   Tree("static", <<NY, NoTypes, Tree("(", <<>>), NA, Blocked(<<s>>)>>)>>),
   Tree("class", <<NA, Tree("<", <<Tree("T", <<NX, Nothing>>)>>), NY, Tree("implements", <<>>),
                   Tree("constructor", <<Tree("(", <<Taking(NX, NA, Nothing)>>), Nothing, Blocked(<<r>>)>>)>>)}
Nests(s, r) == NestedStatements(s, r) \cup NestedDeclarations(s, r)

Inner == {Doing(Bin("=", NX, NY)), Name("break"), Giving(NX), Blocked(<<Doing(NX), Doing(NY)>>), Tree("throw", <<NX>>)}
LetStatements == {Letting(n, t, v) : n \in {NX, Bin("[", NX, NY)}, t \in Types, v \in {Nothing, NY, Bin("as", NX, NA)}}

Programs ==
  {Giving(e) : e \in {e \in Expressions : Likewise(e)}} \cup LetStatements
  \cup {d \in UNION {Nests(s, Doing(NW)) : s \in Inner \cup NestedStatements(Doing(NX), Doing(NZ))} :
          ~(d.op = "if" /\ d.args[2].op = "if" /\ d.args[3] # Nothing)}

Seeds ==
  {Written(d) : d \in Nests(Doing(NX), Doing(NZ)) \cup {Letting(NX, t, NY) : t \in Types} \cup {Giving(e) : e \in Shapes(NX, NY)}}
Broken ==
  UNION {{SubSeq(t, 1, k - 1) \o m \o SubSeq(t, k + 1, Len(t)) :
            k \in 1..Len(t), m \in {<<>>, <<")">>, <<"{">>, <<";">>, <<"?">>, <<"w">>, <<"let">>}} : t \in Seeds}
Alphabet == {"x", ";", "{", "}", "if", "(", ")", "=", "let", "else", "[", ",", "<", ">", "-", "?", ":"}

\* Some variables declared in one statement are read as a block, and two tokens as one.
Apart(q) == \A k \in 1..Len(q) - 2 : SubSeq(q, k, k + 2) \notin {<<"let", "x", ",">>, <<"x", ">", "=">>}

MCSources ==
  {[toks |-> Append(Written(d), "eof"), tree |-> d] : d \in Programs}
  \cup {[toks |-> Append(q, "eof"), tree |-> Nothing] : q \in {q \in Broken \cup SeqOf(Alphabet, 3) : Apart(q)}}

=============================================================================
