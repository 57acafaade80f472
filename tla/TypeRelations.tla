----------------------------- MODULE TypeRelations -----------------------------
(***************************************************************************)
(* What the type checker knows and asks (compiler/middle/semantic/mod.rs,  *)
(* class.rs, compat.rs): types, symbols and their scopes, the members a     *)
(* class has through its parents, and which types go together.             *)
(*                                                                         *)
(* The state of the checker is a record, cx; its field ty is the type of   *)
(* the expression that was checked last.  Diagnostics are known by their   *)
(* codes.                                                                  *)
(***************************************************************************)
EXTENDS Integers, SequencesExt

CONSTANTS ShortNames   \* names of one or two letters, the first a capital

---------------------------------------------------------------------------
(* Types, symbols and scopes. *)

Kind(k) == [k |-> k]
IntTy == Kind("int")
BoolTy == Kind("bool")
StringTy == Kind("string")
VoidTy == Kind("void")
NoneTy == Kind("None")
AnyTy == Kind("any")
Inferred == Kind("inferred")
ClassTy(c) == [k |-> "class", name |-> c]
OptionalTy(t) == [k |-> "opt", of |-> t]
ListTy(t) == [k |-> "list", of |-> t]
FunctionTy(ps, r) == [k |-> "fn", params |-> ps, ret |-> r]
ObjectTy(fs) == [k |-> "object", of |-> fs]

Numeric == {"int", "float", "byte"}
Unknown(t) == t.k \in {"any", "inferred"}

SymbolOf(t) == [ty |-> t, const |-> FALSE, narrowed |-> FALSE, min |-> <<>>, variadic |-> FALSE,
                alias |-> <<>>, length |-> <<>>]

Starts == [scopes |-> <<<<>>>>, errs |-> {}, members |-> <<>>, parents |-> <<>>, ifaces |-> <<>>,
           abstracts |-> {}, class |-> "", ret |-> <<>>, static |-> FALSE, ctor |-> FALSE,
           loops |-> 0, expected |-> <<>>, lambda |-> <<>>, ty |-> VoidTy]

Report(cx, codes) == [cx EXCEPT !.errs = @ \cup codes]
ReportIf(bad, code, cx) == IF bad THEN Report(cx, {code}) ELSE cx
WithTy(cx, t) == [cx EXCEPT !.ty = t]
Refused(cx, code) == WithTy(Report(cx, {code}), Inferred)

EnterScope(cx) == [cx EXCEPT !.scopes = Append(@, <<>>)]
LeaveScope(cx) == [cx EXCEPT !.scopes = Front(@)]
Define(x, s, cx) == [cx EXCEPT !.scopes[Len(cx.scopes)] = (x :> s) @@ @]
DefineNarrowed(x, t, cx) == Define(x, [SymbolOf(t) EXCEPT !.narrowed = TRUE], cx)
DefineAll(names, types, cx) ==
  FoldLeft(LAMBDA c, i : Define(names[i], SymbolOf(types[i]), c), cx, [i \in DOMAIN names |-> i])

\* A name is declared once in a scope.
DefineVariable(x, s, cx) ==
  IF x \in DOMAIN Last(cx.scopes) THEN Report(cx, {"E0109"}) ELSE Define(x, s, cx)

HeldBy(x, cx) == {i \in DOMAIN cx.scopes : x \in DOMAIN cx.scopes[i]}
Innermost(x, held, cx) == IF held = {} THEN <<>> ELSE <<cx.scopes[Max(held)][x]>>
Lookup(x, cx) == Innermost(x, HeldBy(x, cx), cx)
\* What is assigned to is the variable as it was declared, when the declaration is there.
AssignmentTarget(x, cx) ==
  LET declared == {i \in HeldBy(x, cx) : ~cx.scopes[i][x].narrowed}
  IN Innermost(x, IF declared = {} THEN HeldBy(x, cx) ELSE declared, cx)
SymbolIs(x, kind, cx) == \E s \in ToSet(Lookup(x, cx)) : s.ty = kind

Aliased(t, cx) ==
  IF t.k = "class" /\ \E s \in ToSet(Lookup(t.name, cx)) : s.alias # <<>>
  THEN Lookup(t.name, cx)[1].alias[1] ELSE t

---------------------------------------------------------------------------
(* Classes. *)

RECURSIVE ChainAbove(_, _, _)
ChainAbove(c, seen, cx) ==
  IF c \notin DOMAIN cx.parents \/ cx.parents[c] \in seen THEN <<>>
  ELSE <<cx.parents[c]>> \o ChainAbove(cx.parents[c], seen \cup {cx.parents[c]}, cx)
ParentChain(c, cx) == ChainAbove(c, {}, cx)
IsSameOrSubclass(c, a, cx) == c = a \/ a \in ToSet(ParentChain(c, cx))
InCycle(c, cx) == \E p \in {c} \cup ToSet(ParentChain(c, cx)) : p \in ToSet(ParentChain(p, cx))

Public(t, static, readonly, min) ==
  [ty |-> t, static |-> static, access |-> "public", readonly |-> readonly, min |-> min]

\* The member that a name means on a value of type t, and the type that declares it.  (Of
\* classes that extend each other the code never finishes asking.)
ResolveMember(t, m, cx) ==
  IF t.k = "object"
  THEN IF m \in DOMAIN t.of THEN <<[owner |-> "", info |-> Public(t.of[m], FALSE, FALSE, <<>>)]>> ELSE <<>>
  ELSE IF t.k # "class" THEN <<>>
  ELSE LET Of(c) == CASE c \in DOMAIN cx.members /\ m \in DOMAIN cx.members[c] -> <<cx.members[c][m]>>
                      [] c \in DOMAIN cx.ifaces /\ m \in DOMAIN cx.ifaces[c] -> <<cx.ifaces[c][m]>>
                      [] OTHER -> <<>>
           owners == SelectSeq(<<t.name>> \o ParentChain(t.name, cx), LAMBDA c : Of(c) # <<>>)
       IN IF owners = <<>> THEN <<>> ELSE <<[owner |-> owners[1], info |-> Of(owners[1])[1]]>>

Accessible(owner, access, cx) ==
  CASE access = "public" -> TRUE
    [] access = "private" -> cx.class = owner
    [] access = "protected" -> cx.class # "" /\ IsSameOrSubclass(cx.class, owner, cx)

AccessRank == [private |-> 0, protected |-> 1, public |-> 2]

---------------------------------------------------------------------------
(* Which types go together. *)

RECURSIVE Compatible(_, _, _)

\* A name of one or two letters passes for a type parameter.
Wildcard(t) == t.k = "class" /\ t.name \in ShortNames

CompatibleFunctions(e, a, cx) ==
  /\ \/ Wildcard(e.ret) /\ a.ret = VoidTy
     \/ Wildcard(a.ret) /\ e.ret = VoidTy
     \/ Compatible(e.ret, a.ret, cx)
  /\ Len(a.params) <= Len(e.params)
  /\ \A i \in DOMAIN a.params : Compatible(e.params[i], a.params[i], cx)

CompatibleClasses(e, a, cx) ==
  \/ IsSameOrSubclass(a.name, e.name, cx)
  \/ /\ e.name \in DOMAIN cx.ifaces /\ a.name \in DOMAIN cx.members
     /\ DOMAIN cx.ifaces[e.name] \subseteq DOMAIN cx.members[a.name]

CompatibleFields(e, a, cx) ==
  /\ DOMAIN a \subseteq DOMAIN e
  /\ \A f \in DOMAIN e : IF f \in DOMAIN a THEN Compatible(e[f], a[f], cx) ELSE e[f].k = "opt"

\* An object passes for a class when it has its fields: the methods are not asked for.
FieldsOf(c, cx) == [f \in {f \in DOMAIN cx.members[c] : cx.members[c][f].ty.k # "fn"} |->
                      cx.members[c][f].ty]

CompatibleResolved(e, a, cx) ==
  \/ e = a
  \/ e.k \in Numeric /\ a.k \in Numeric
  \/ e.k = "opt" /\ a = NoneTy
  \/ e.k = "list" /\ a.k = "list" /\ Compatible(e.of, a.of, cx)
  \/ e.k = "class" /\ a.k = "class" /\ CompatibleClasses(e, a, cx)
  \/ e.k = "fn" /\ a.k = "fn" /\ CompatibleFunctions(e, a, cx)
  \/ e.k = "object" /\ a.k = "object" /\ CompatibleFields(e.of, a.of, cx)
  \/ /\ e.k = "class" /\ a.k = "object" /\ e.name \in DOMAIN cx.members
     /\ CompatibleFields(FieldsOf(e.name, cx), a.of, cx)

\* Whether a value of type a may go where one of type e is expected.
Compatible(e, a, cx) ==
  \/ e = a
  \/ Unknown(e) \/ Unknown(a)
  \/ Wildcard(e) \/ Wildcard(a)
  \/ /\ e.k = "opt"
     /\ \/ a = NoneTy
        \/ Compatible(e.of, IF a.k = "opt" THEN a.of ELSE a, cx)
  \/ CompatibleResolved(Aliased(e, cx), Aliased(a, cx), cx)

\* The signature of a member that takes the place of another.
MatchesStrictly(e, a, cx) ==
  IF e.k = "fn" /\ a.k = "fn"
  THEN /\ Len(e.params) = Len(a.params)
       /\ \A i \in DOMAIN e.params : Compatible(e.params[i], a.params[i], cx)
                                     /\ Compatible(a.params[i], e.params[i], cx)
       /\ Compatible(e.ret, a.ret, cx) /\ Compatible(a.ret, e.ret, cx)
  ELSE Compatible(e, a, cx) /\ Compatible(a, e, cx)

AssignmentCompatible(e, a, cx) ==
  IF e.k = "fn" /\ a.k = "fn" THEN MatchesStrictly(e, a, cx) ELSE Compatible(e, a, cx)

CommonAncestor(s, t, cx) ==
  LET Descent(u) == IF u.k = "class" THEN <<u.name>> \o ParentChain(u.name, cx) ELSE <<>>
      shared == SelectSeq(Descent(t), LAMBDA c : c \in ToSet(Descent(s)))
  IN CASE s = t -> s
       [] s.k \in Numeric /\ t.k \in Numeric /\ "float" \notin {s.k, t.k} -> IntTy
       [] s = Inferred -> t
       [] t = Inferred -> s
       [] shared # <<>> -> ClassTy(Head(shared))
       [] OTHER -> Inferred

RECURSIVE ValidType(_, _)
ValidType(t, cx) ==
  CASE t.k \in {"opt", "list"} -> ValidType(t.of, cx)
    [] t.k = "fn" -> (\A i \in DOMAIN t.params : ValidType(t.params[i], cx)) /\ ValidType(t.ret, cx)
    [] t.k = "object" -> \A f \in DOMAIN t.of : ValidType(t.of[f], cx)
    [] t.k = "class" -> Lookup(t.name, cx) # <<>>
    [] OTHER -> t # Inferred
=============================================================================
