--------------------------- MODULE MCMirOptimizer ---------------------------
\* Functions for MirOptimizer: two branches that meet, or one block, over integers,
\* strings and arrays.
EXTENDS MirOptimizer

Move(x, v) == [op |-> "move", dst |-> x, in |-> <<v>>]
Binary(x, o, l, r) == [op |-> "binary", dst |-> x, operator |-> o, in |-> <<l, r>>]
Concat(x, l, r) == [op |-> "concat", dst |-> x, in |-> <<l, r>>]
CallTo(x, c, args) == [op |-> "call", dst |-> x, callee |-> c, in |-> args]
Show(v) == CallTo("", "print", <<v>>)
Load(x, a, i) == [op |-> "load", dst |-> x, in |-> <<a, i>>]
Store(a, i, v) == [op |-> "store", dst |-> "", in |-> <<a, i, v>>]
Return(v) == [op |-> "return", dst |-> "", in |-> <<v>>]
Jumping(b) == [op |-> "jump", dst |-> "", in |-> <<>>, to |-> b]
Branch(v, b, c) == [op |-> "branch", dst |-> "", in |-> <<v>>, to |-> b, else |-> c]

\* body runs once or twice, as n tells.
Twice(pre, body, post) ==
  << pre \o <<Move("c", Var("n")), Jumping(2)>>, body \o <<Branch(Var("c"), 3, 4)>>,
     <<Move("c", Lit(0)), Jumping(2)>>, post >>

MCTemps == {"_t0", "_t1"}
VX == Var("x")
NumMenu ==
  {Move("x", Lit(1)), Move("x", Lit(2)), Move("y", VX), Binary("_t0", "+", VX, Lit(1)),
   Binary("_t1", "/", Lit(3), VX), Move("x", Var("_t0")), Move("y", Var("_t1")), Binary("_t0", "-", Lit(2), Lit(2))}
VS == Var("s")
StrMenu ==
  {Move("s", Quoted(<<>>)), Move("s", Quoted(<<1>>)), Concat("_t0", VS, Quoted(<<2>>)), Move("s", Var("_t0")),
   Concat("_t1", VS, VS), Move("s", Var("_t1")), Move("t", VS), Show(VS)}
VA == Var("a")
ArrMenu ==
  {CallTo("_t0", "array", <<Lit(2)>>), Move("a", Var("_t0")), Move("b", VA), Store(VA, Lit(0), Lit(1)),
   Store(Var("b"), Lit(1), Lit(2)), Load("_t1", VA, Lit(1)), Show(Var("_t1")), Return(Lit(0))}

\* A variable is set before it is read; a temporary once.
WellFormed(seq) ==
  /\ \A k \in DOMAIN seq : \A j \in DOMAIN seq[k].in :
       seq[k].in[j].is = "var" => \E h \in 1..k - 1 : seq[h].dst = seq[k].in[j].name
  /\ \A k, h \in DOMAIN seq : k # h /\ seq[k].dst \in MCTemps => seq[h].dst # seq[k].dst
Seqs(pre, menu, n) == {q \in SeqOf(menu, n) : WellFormed(pre \o q)}

Typed(ints, others, type) == [v \in ints |-> "int"] @@ [v \in others |-> type]
OfInts == Typed({"x", "y", "c", "n", "_t0", "_t1"}, {}, "int")
OfStrings == Typed({"c", "n"}, {"s", "t", "_t0", "_t1"}, "string")
OfArrays == Typed({"c", "n", "_t1", "x"}, {"a", "b", "_t0"}, "array")
Func(types, blocks) == [params |-> <<"n">>, types |-> types, blocks |-> blocks]

NumStart == <<Move("x", Lit(3)), Move("y", Lit(0))>>
NumEnd == <<Show(VX), Return(Var("y"))>>
StrStart(k) == <<Move("s", Quoted(k)), Move("t", Quoted(<<>>))>>
StrEnd == <<Show(VS), Return(Var("t"))>>

MCFunctions ==
  {Func(OfInts, Twice(NumStart, q, NumEnd)) : q \in Seqs(NumStart, NumMenu, 3)}
  \cup {Func(OfInts, <<NumStart \o q \o NumEnd>>) : q \in Seqs(NumStart, NumMenu, 3)}
  \cup {Func(OfStrings, Twice(StrStart(<<3>>), q, StrEnd)) : q \in Seqs(StrStart(<<3>>), StrMenu, 3)}
  \cup {Func(OfStrings, <<StrStart(<<>>) \o q \o StrEnd>>) : q \in Seqs(StrStart(<<>>), StrMenu, 4)}
  \cup {Func(OfArrays, <<q>>) : q \in {p \in Seqs(<<>>, ArrMenu, 6) : p # <<>> /\ Head(p).op = "call"}}

=============================================================================
