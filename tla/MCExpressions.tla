---------------------------- MODULE MCExpressions ----------------------------
\* Expressions over two classes, a few functions, an array and an optional object.
EXTENDS Expressions

Num(k) == [is |-> "num", val |-> k]
Id(x) == [is |-> "id", name |-> x]
NoneTree == [is |-> "none"]
Dot(o, m) == [is |-> "member", obj |-> o, name |-> m]
OMember(o, m) == [is |-> "omember", obj |-> o, name |-> m]
Subscript(a, i) == [is |-> "index", arr |-> a, at |-> i]
OIndex(a, i) == [is |-> "oindex", arr |-> a, at |-> i]
Two(op, l, r) == [is |-> "bin", op |-> op, left |-> l, right |-> r]
Assigning(t, op, v) == [is |-> "assign", target |-> t, op |-> op, value |-> v]
Pre(t, op) == [is |-> "pre", op |-> op, of |-> t]
Post(t, op) == [is |-> "post", op |-> op, of |-> t]
CallTree(f, args) == [is |-> "call", callee |-> f, args |-> args]
Making(c, args) == [is |-> "new", class |-> c, args |-> args]
Choosing(c, a, b) == [is |-> "ternary", cond |-> c, yes |-> a, no |-> b]
OrElse(l, r) == [is |-> "coalesce", left |-> l, right |-> r]
Not(e) == [is |-> "not", of |-> e]
Negated(e) == [is |-> "neg", of |-> e]
CommaOf(s) == [is |-> "comma", of |-> s]
ArrayTree(s) == [is |-> "array", elems |-> s]
Spreading(e) == [is |-> "spread", of |-> e]
ObjectTree(keys, vals, spreads) == [is |-> "object", keys |-> keys, vals |-> vals, spreads |-> spreads]

MCClassTable ==
  [Base |-> [parent |-> "", fields |-> [v |-> IntType, items |-> ArrayOf(IntType), act |-> [k |-> "fn", ret |-> IntType]],
             statics |-> [count |-> IntType], getters |-> [size |-> "get_size"], setters |-> [size |-> "set_size"]],
   Sub |-> [parent |-> "Base", fields |-> [w |-> IntType], statics |-> <<>>, getters |-> <<>>, setters |-> <<>>]]

Sig(arity, defaults, rest, ret, gives) ==
  [arity |-> arity, defaults |-> defaults, rest |-> rest, ret |-> ret, gives |-> gives, sets |-> "", writes |-> "",
   method |-> FALSE]
OfMethod(sig) == [sig EXCEPT !.method = TRUE]

MCSignatures ==
  (<<"", "f">> :> Sig(2, <<Absent, Num(3)>>, -1, IntType, 5)) @@
  (<<"", "g">> :> [Sig(0, <<>>, -1, IntType, 6) EXCEPT !.writes = "i"]) @@
  (<<"", "mk">> :> Sig(0, <<>>, -1, Instance("Base"), 101)) @@
  (<<"", "opt">> :> Sig(1, <<Absent>>, -1, OptionOf(Instance("Base")), 0)) @@
  (<<"", "all">> :> Sig(2, <<>>, 1, IntType, 4)) @@
  (<<"Base", "constructor">> :> [Sig(2, <<Absent, Num(8)>>, -1, VoidType, 0) EXCEPT !.sets = "v"]) @@
  (<<"Base", "m">> :> OfMethod(Sig(3, <<Absent, Absent, Num(2)>>, -1, IntType, 9))) @@
  (<<"Base", "n">> :> OfMethod(Sig(1, <<Absent>>, -1, IntType, 1))) @@
  (<<"Base", "log">> :> OfMethod(Sig(2, <<>>, 0, IntType, 1))) @@
  (<<"Base", "make">> :> Sig(1, <<Num(3)>>, -1, Instance("Base"), 101)) @@
  (<<"Base", "get_size">> :> OfMethod(Sig(1, <<Absent>>, -1, IntType, 2))) @@
  (<<"Base", "set_size">> :> [OfMethod(Sig(2, <<Absent, Absent>>, -1, VoidType, 0)) EXCEPT !.sets = "v"]) @@
  (<<"Sub", "m">> :> OfMethod(Sig(3, <<Absent, Absent, Num(4)>>, -1, IntType, 8)))

MCScope ==
  [i |-> IntType, j |-> IntType, o |-> Instance("Base"), q |-> OptionOf(Instance("Base")),
   z |-> OptionOf(Instance("Base")), a |-> ArrayOf(IntType), r |-> OptionOf(ArrayOf(IntType)),
   h |-> [k |-> "fn", ret |-> IntType],
   this |-> Instance("Sub"), p |-> [k |-> "object", props |-> [v |-> IntType, w |-> IntType]]]
MCGlobals ==
  (<<"", "i">> :> 1) @@ (<<"", "j">> :> 0) @@ (<<"", "o">> :> 101) @@ (<<"", "q">> :> 101) @@ (<<"", "z">> :> 0) @@
  (<<"", "a">> :> 103) @@ (<<"", "r">> :> 0) @@ (<<"", "h">> :> 105) @@ (<<"", "this">> :> 102) @@ (<<"", "p">> :> 106) @@
  (<<"Base", "count">> :> 3)
MCCells ==
  << [is |-> "object", class |-> "Base", of |-> [v |-> 11, items |-> 104, act |-> 105]],
     [is |-> "object", class |-> "Sub", of |-> [v |-> 12, items |-> 104, act |-> 105, w |-> 13]],
     [is |-> "array", of |-> <<21, 22, 23>>], [is |-> "array", of |-> <<31, 32>>],
     [is |-> "closure", of |-> <<"", "f">>], [is |-> "object", class |-> "", of |-> [v |-> 41, w |-> 42]] >>

---------------------------------------------------------------------------
\* What the code does not do as the reference does.

Children(e) ==
  CASE e.is \in {"num", "id", "none"} -> <<>>
    [] e.is \in {"member", "omember"} -> <<e.obj>>
    [] e.is \in {"index", "oindex"} -> <<e.arr, e.at>>
    [] e.is = "coalesce" -> <<e.left, e.right>>
    [] e.is = "bin" -> IF e.op = "instanceof" THEN <<e.left>> ELSE <<e.left, e.right>>
    [] e.is = "assign" -> <<e.value, e.target>>
    [] e.is \in {"pre", "post", "not", "neg", "spread"} -> <<e.of>>
    [] e.is = "call" -> (IF e.callee.is \in {"member", "omember"} THEN <<e.callee.obj>> ELSE <<>>) \o e.args
    [] e.is = "new" -> e.args
    [] e.is = "ternary" -> <<e.cond, e.yes, e.no>>
    [] e.is = "comma" -> e.of
    [] e.is = "array" -> e.elems
    [] e.is = "object" -> e.vals \o e.spreads

RECURSIVE Plain(_), WrittenBy(_), VarsOf(_), LateOf(_), Faithful(_)
\* Evaluated twice, it does what it does once.
Plain(e) ==
  /\ e.is \in {"num", "none", "id", "member", "index"}
  /\ e.is = "member" => e.name # "size"
  /\ \A i \in DOMAIN Children(e) : Plain(Children(e)[i])
PartsPlain(e) == \A i \in DOMAIN Children(e) : Plain(Children(e)[i])
VariableOf(e) ==
  IF e.is = "id" THEN {e.name} ELSE IF e = Dot(Id("Base"), "count") THEN {"Base.count"} ELSE {}
WrittenBy(e) ==
  (CASE e.is = "assign" -> VariableOf(e.target)
     [] e.is \in {"pre", "post"} -> VariableOf(e.of)
     [] e.is = "call" -> IF e.callee = Id("g") THEN {"i"} ELSE {}
     [] OTHER -> {})
  \cup UNION {WrittenBy(Children(e)[i]) : i \in DOMAIN Children(e)}
VarsOf(e) == VariableOf(e) \cup UNION {VarsOf(Children(e)[i]) : i \in DOMAIN Children(e)}
\* The variables that the operand of e is.
LateOf(e) ==
  CASE e.is = "assign" -> LateOf(e.value)
    [] e.is = "comma" -> LateOf(Last(e.of))
    [] e.is = "spread" -> LateOf(e.of)
    [] OTHER -> VariableOf(e)

SetsProperty(e) == e.is = "assign" /\ e.target.is = "member" /\ e.target.name = "size"

\* Nothing is written twice, and no operand that is a variable is written before it is read.
FaithfulHere(e) ==
  /\ e.is = "coalesce" => Plain(e.left)
  /\ e.is \in {"omember", "oindex"} => PartsPlain(e)
  /\ \A k \in DOMAIN Children(e) :
       SetsProperty(Children(e)[k]) => e.is = "comma" /\ k < Len(Children(e))
  /\ e.is = "assign" => /\ (e.op # "=" => PartsPlain(e.target))
                        /\ (e.target.is = "index" /\ e.target.arr.is = "member" => PartsPlain(e.target.arr))
  /\ e.is \in {"pre", "post"} /\ e.of.is = "member" => e.of.name # "size"
  /\ e.is = "pre" => PartsPlain(e.of)
  /\ e.is = "call" => /\ (e.callee.is = "omember" => Plain(e.callee.obj))
                      /\ (e.callee.is = "member" /\ e.callee.name = "push" => PartsPlain(e.callee.obj))
                      /\ (e.callee.is = "member" => e.callee.name # "log" /\ (e.callee.name = "act" => e.callee.obj # Id("this")))
                      /\ (e.callee.is = "super" => Len(e.args) = 2)
  /\ e.is \notin {"ternary", "comma", "object"} =>
       \A i, k \in DOMAIN Children(e) :
         i < k /\ ~(e.is = "assign" /\ k = Len(Children(e)) /\ e.target.is = "id")
         => LateOf(Children(e)[i]) \cap WrittenBy(Children(e)[k]) = {}
  /\ e.is = "assign" /\ e.op # "=" => VarsOf(e.target) \cap WrittenBy(e.value) = {}
Faithful(e) ==
  FaithfulHere(e) /\ \A i \in DOMAIN Children(e) : Faithful(Children(e)[i])

---------------------------------------------------------------------------
Ints0 == {Num(2), Id("i")}
Objs == {Id("o"), CallTree(Id("mk"), <<>>)}
Opts == {Id("q"), Id("z"), CallTree(Id("opt"), <<Num(1)>>)}
Arrs == {Id("a"), Dot(Id("o"), "items"), Dot(CallTree(Id("mk"), <<>>), "items")}

Assignable == {Id("i"), Dot(Id("o"), "v"), Dot(Id("Base"), "count"), Subscript(Id("a"), Id("i")), Subscript(Dot(Id("o"), "items"), Id("j"))}

Ints1 ==
  {Id("i"), Num(1), Negated(Id("i")), Id("f")}
  \cup {CommaOf(<<Assigning(Dot(Id("o"), "size"), op, Num(4)), Num(3)>>) : op \in {"=", "-="}}
  \cup {Dot(o, m) : o \in Objs, m \in {"v", "size"}}
  \cup {Dot(a, "length") : a \in Arrs} \cup {Subscript(a, Id("j")) : a \in Arrs}
  \cup {Assigning(t, op, Num(5)) : t \in Assignable, op \in {"=", "+="}}
  \cup {Pre(t, "+") : t \in Assignable} \cup {Post(t, "-") : t \in Assignable}
  \cup {CallTree(Id(x), <<>>) : x \in {"g"}} \cup {CallTree(Id(x), <<Num(7)>>) : x \in {"f", "h", "all"}}
  \cup {CallTree(Id("all"), <<Num(7), Num(8), Num(9)>>), CallTree(Dot(Id("Base"), "make"), <<>>),
        CallTree(Dot(Id("super"), "m"), <<Num(6)>>), CallTree([is |-> "super"], <<Num(6), Num(7)>>),
        CallTree(Dot(Id("this"), "n"), <<>>)}
  \cup {CallTree(Dot(o, m), <<Num(6)>>) : o \in Objs \cup {Id("this")}, m \in {"m", "act"}}
  \cup {CallTree(Dot(a, "push"), <<Num(6)>>) : a \in Arrs \cup {ArrayTree(<<Num(1)>>)}}

Bools1 ==
  {Two("<", Id("i"), Num(2)), Two("==", Id("z"), NoneTree), Two("!=", Id("q"), NoneTree),
   Two("instanceof", Id("o"), "Sub"), Not(Two("==", Id("q"), NoneTree))}

Optionals ==
  {OMember(o, m) : o \in Opts, m \in {"v", "items"}}
  \cup {OIndex(a, Id("j")) : a \in {Id("r"), OMember(Id("q"), "items"), OMember(Id("z"), "items"), Id("a")}}
  \cup {CallTree(OMember(o, "m"), <<e>>) : o \in Opts, e \in Ints1}

Few == {Id("i"), Pre(Id("i"), "+"), CallTree(Id("f"), <<Num(7)>>), Dot(Id("o"), "v"), Assigning(Id("i"), "=", Num(5))}

Deep ==
  {Two("+", l, r) : l \in Ints1, r \in Ints1}
  \cup {Two(op, l, r) : op \in {"&&", "||"}, l \in Bools1, r \in Bools1 \cup {Two("==", OMember(Id("q"), "v"), Num(11)), Two("<", Num(0), CallTree(Id("f"), <<Num(7)>>))}}
  \cup {Choosing(c, l, r) : c \in Bools1, l \in Few, r \in Few}
  \cup {OrElse(o, Making("Base", <<e>>)) : o \in Opts, e \in Few} \cup {OrElse(OMember(o, "v"), e) : o \in Opts, e \in Ints1}
  \cup {Two(op, Two(eq, Id(x), NoneTree), Two("==", OMember(Id(x), "v"), e)) :
          op \in {"&&", "||"}, eq \in {"==", "!="}, x \in {"q", "z"}, e \in Few}
  \cup {CallTree(Id("f"), <<l, r>>) : l \in Few, r \in Ints1}
  \cup {CallTree(Dot(Id("this"), "m"), <<l, r>>) : l \in Few, r \in Few}
  \cup {Assigning(t, op, e) : t \in Assignable \cup {Subscript(Dot(CallTree(Id("mk"), <<>>), "items"), Num(0))}, op \in {"=", "-="}, e \in Ints1}
  \cup {Subscript(a, e) : a \in Arrs, e \in {Id("j"), Post(Id("j"), "+"), Two("-", Id("i"), Num(1))}}
  \cup {ArrayTree(<<l, Spreading(a), r>>) : l \in Few, a \in Arrs, r \in Few}
  \cup {ArrayTree(<<Spreading(a), Spreading(b)>>) : a \in Arrs, b \in Arrs} \cup {ArrayTree(<<Spreading(a)>>) : a \in Arrs}
  \cup {ObjectTree(<<"v">>, <<l>>, s) : l \in Few, s \in {<<>>}} \cup {ObjectTree(<<"x", "y">>, <<l, r>>, <<Id("p")>>) : l \in Few, r \in Few}
  \cup {Making(c, s) : c \in {"Base"}, s \in {<<l>> : l \in Few} \cup {<<l, r>> : l \in Few, r \in Few}}
  \cup {CommaOf(<<l, r>>) : l \in Few, r \in Few}

MCTrees ==
  {e \in Ints1 \cup Bools1 \cup Optionals \cup Deep : Faithful(e)}

=============================================================================
