-------------------------- MODULE MirOptimizer_proofs --------------------------
(***************************************************************************)
(* Proofs about MirOptimizer for any functions, number of bits and length  *)
(* of run.                                                                 *)
(*                                                                         *)
(* The passes come to rest: OptimizerStops is not inductive.  OptInv adds  *)
(* that a pass other than eliminate_dead_code that changes something uses  *)
(* up Work: an instruction that reads a known variable, that can be folded *)
(* or rewritten, or an array to promote.                                   *)
(*                                                                         *)
(* The passes keep the runs: eliminate_dead_code of every function;        *)
(* fold_constants of every function whose folded divisions divide numbers  *)
(* that fit; all of them of a function over integers that sets a variable  *)
(* before it reads it.  States is a recursive function over the steps of a *)
(* run: Reaches stands for induction over them.                            *)
(***************************************************************************)
EXTENDS MirOptimizer, FiniteSetTheorems, WellFoundedInduction, TLAPS
-----------------------------------------------------------------------------
(* Least numbers, and functions defined by recursion *)

\* A set of naturals has a smallest member.
LEMMA SmallestOf ==
  ASSUME NEW T \in SUBSET Nat, T # {}
  PROVE  \E x \in T : \A y \in T : x <= y
<1> DEFINE below == OpToRel(<, Nat)
<1>1. IsWellFoundedOn(below, Nat)
  BY ONLY NatLessThanWellFounded, Zenon
<1>2. \A x, y \in Nat : <<y, x>> \in below <=> y < x
  BY Zenon DEF OpToRel
<1> HIDE DEF below
<1>3. PICK x \in T : \A y \in T : <<y, x>> \notin below
  BY <1>1, WFMin
<1>4. \A y \in T : ~ (y < x)
  BY <1>2, <1>3
<1> QED
  BY <1>4

\* What holds at 0, and at n + 1 whenever it holds at n, holds on a set of naturals.
LEMMA Reaches ==
  ASSUME NEW T \in SUBSET Nat, 0 \in T, \A n \in Nat : n \in T => n + 1 \in T
  PROVE  T = Nat
<1> SUFFICES ASSUME Nat \ T # {} PROVE FALSE
  OBVIOUS
<1>1. PICK x \in Nat \ T : \A y \in Nat \ T : x <= y
  BY SmallestOf
<1>2. x # 0 /\ x - 1 \in Nat /\ (x - 1) + 1 = x
  BY <1>1
<1>3. ~ (x <= x - 1)
  BY <1>1
<1>4. x - 1 \in T
  BY <1>1, <1>2, <1>3
<1> QED
  BY <1>1, <1>2, <1>4

Unrolled(F, R) == R = [n \in Nat |-> IF n = 0 THEN Entry(F) ELSE Onward(F, R[n - 1])]

\* The states of a run begin with the entry, and each follows from the one before.
LEMMA StatesFollow ==
  ASSUME NEW F
  PROVE  States(F)[0] = Entry(F) /\ \A n \in Nat : States(F)[n + 1] = Onward(F, States(F)[n])
<1> DEFINE e == Entry(F)
           G(r) == Onward(F, r)
           Upto(g, n) == g[0] = e /\ \A i \in 1 .. n : g[i] = G(g[i - 1])
<1> HIDE DEF e, G
<1>1. \A n \in Nat : \E g : Upto(g, n)
  <2> DEFINE T == {n \in Nat : \E g : Upto(g, n)}
  <2>1. 0 \in T
    <3>1. Upto([i \in {0} |-> e], 0)
      OBVIOUS
    <3> QED
      BY <3>1
  <2>2. ASSUME NEW n \in Nat, n \in T PROVE n + 1 \in T
    <3>1. PICK g : Upto(g, n)
      BY <2>2
    <3> DEFINE h == [i \in 0 .. (n + 1) |-> IF i = n + 1 THEN G(g[n]) ELSE g[i]]
    <3>2. h[0] = e
      BY <3>1
    <3>3. ASSUME NEW i \in 1 .. (n + 1) PROVE h[i] = G(h[i - 1])
      <4>1. i - 1 \in 0 .. (n + 1) /\ i - 1 # n + 1 /\ i \in 0 .. (n + 1)
        OBVIOUS
      <4>2. h[i - 1] = g[i - 1]
        BY <4>1
      <4>3. i = n + 1 \/ i \in 1 .. n
        OBVIOUS
      <4>4. i = n + 1 => i - 1 = n
        OBVIOUS
      <4> QED
        BY <3>1, <4>1, <4>2, <4>3, <4>4
    <3> HIDE DEF h
    <3>4. Upto(h, n + 1)
      BY <3>2, <3>3
    <3> QED
      BY <3>4
  <2> HIDE DEF T
  <2>3. T = Nat
    <3>1. T \in SUBSET Nat
      BY DEF T
    <3> QED
      BY <2>1, <2>2, <3>1, Reaches
  <2> QED
    BY <2>3 DEF T
<1>2. ASSUME NEW n \in Nat, NEW g, NEW h, Upto(g, n), Upto(h, n + 1) PROVE g[n] = h[n]
  <2> DEFINE T == {i \in Nat : i <= n => g[i] = h[i]}
  <2>1. 0 \in T
    BY <1>2
  <2>2. ASSUME NEW i \in Nat, i \in T PROVE i + 1 \in T
    <3> SUFFICES ASSUME i + 1 <= n PROVE g[i + 1] = h[i + 1]
      OBVIOUS
    <3>1. i + 1 \in 1 .. n /\ i + 1 \in 1 .. (n + 1) /\ (i + 1) - 1 = i /\ i <= n
      OBVIOUS
    <3>2. g[i + 1] = G(g[i])
      BY <1>2, <3>1
    <3>3. h[i + 1] = G(h[i])
      BY <1>2, <3>1
    <3> QED
      BY <2>2, <3>1, <3>2, <3>3
  <2> HIDE DEF T
  <2>3. T = Nat
    <3>1. T \in SUBSET Nat
      BY DEF T
    <3> QED
      BY <2>1, <2>2, <3>1, Reaches
  <2> QED
    BY <2>3 DEF T
<1> DEFINE A(n) == CHOOSE g : Upto(g, n)
<1>3. \A n \in Nat : Upto(A(n), n)
  BY <1>1, Zenon
<1> HIDE DEF A, Upto
<1> DEFINE R == [n \in Nat |-> A(n)[n]]
<1>4. ASSUME NEW n \in Nat PROVE R[n] = IF n = 0 THEN e ELSE G(R[n - 1])
  <2>1. CASE n = 0
    <3>1. A(0)[0] = e
      BY <1>3 DEF Upto
    <3> QED
      BY <2>1, <3>1
  <2>2. CASE n # 0
    <3>1. n - 1 \in Nat /\ (n - 1) + 1 = n /\ n \in 1 .. n
      BY <2>2
    <3>2. A(n)[n] = G(A(n)[n - 1])
      BY <1>3, <3>1 DEF Upto
    <3>3. A(n - 1)[n - 1] = A(n)[n - 1]
      BY <1>2, <1>3, <3>1
    <3> QED
      BY <2>2, <3>1, <3>2, <3>3
  <2> QED
    BY <2>1, <2>2
<1> HIDE DEF R
<1>5. Unrolled(F, R)
  <2>1. R = [n \in Nat |-> R[n]]
    BY DEF R
  <2>2. R = [n \in Nat |-> IF n = 0 THEN e ELSE G(R[n - 1])]
    BY <1>4, <2>1
  <2> QED
    BY <2>2, Zenon DEF Unrolled, e, G
<1>6. Unrolled(F, States(F))
  BY <1>5, Zenon DEF Unrolled, States
<1>7. \A n \in Nat : States(F)[n] = IF n = 0 THEN e ELSE G(States(F)[n - 1])
  BY <1>6 DEF Unrolled, e, G
<1>8. ASSUME NEW n \in Nat PROVE States(F)[n + 1] = G(States(F)[n])
  <2>1. n + 1 \in Nat /\ n + 1 # 0 /\ (n + 1) - 1 = n
    OBVIOUS
  <2> QED
    BY <1>7, <2>1
<1> QED
  BY <1>7, <1>8 DEF e, G

-----------------------------------------------------------------------------
(* The shape of a function *)

Variables(F) == DOMAIN F.types

LEMMA Blocks ==
  ASSUME NEW F, IsFunction(F)
  PROVE  /\ F = [params |-> F.params, types |-> F.types, blocks |-> F.blocks]
         /\ DOMAIN F.blocks = 1 .. Len(F.blocks) /\ Len(F.blocks) \in Nat
         /\ \A b \in DOMAIN F.blocks :
              /\ F.blocks[b] \in Seq(InstructionOver(Variables(F)))
              /\ DOMAIN F.blocks[b] = 1 .. Len(F.blocks[b]) /\ Len(F.blocks[b]) \in Nat
         /\ \A b \in DOMAIN F.blocks : \A k \in DOMAIN F.blocks[b] :
              F.blocks[b][k] \in InstructionOver(Variables(F))
<1> DEFINE I == InstructionOver(Variables(F))
<1>1. F.blocks \in Seq(Seq(I))
  BY Zenon DEF IsFunction, Variables
<1> HIDE DEF I
<1>2. DOMAIN F.blocks = 1 .. Len(F.blocks) /\ Len(F.blocks) \in Nat
      /\ \A b \in DOMAIN F.blocks : F.blocks[b] \in Seq(I)
  BY <1>1
<1>3. \A b \in DOMAIN F.blocks : DOMAIN F.blocks[b] = 1 .. Len(F.blocks[b]) /\ Len(F.blocks[b]) \in Nat
      /\ \A k \in DOMAIN F.blocks[b] : F.blocks[b][k] \in I
  BY <1>2
<1>4. F = [params |-> F.params, types |-> F.types, blocks |-> F.blocks]
  BY Zenon DEF IsFunction
<1> QED
  BY <1>2, <1>3, <1>4 DEF I

LEMMA PlaceOf ==
  ASSUME NEW F, NEW p
  PROVE  p \in Places(F) <=>
           \E b \in DOMAIN F.blocks : \E k \in DOMAIN F.blocks[b] : p = <<b, k>>
BY DEF Places

LEMMA PlaceParts ==
  ASSUME NEW F, NEW p \in Places(F)
  PROVE  p[1] \in DOMAIN F.blocks /\ p[2] \in DOMAIN F.blocks[p[1]] /\ p = <<p[1], p[2]>>
<1>1. PICK b \in DOMAIN F.blocks : \E k \in DOMAIN F.blocks[b] : p = <<b, k>>
  BY PlaceOf
<1> QED
  BY <1>1

LEMMA InstructionAt ==
  ASSUME NEW F, IsFunction(F), NEW p \in Places(F)
  PROVE  At(F, p) \in InstructionOver(Variables(F))
BY Blocks, PlaceParts DEF At

LEMMA PlacesFinite ==
  ASSUME NEW F, IsFunction(F)
  PROVE  IsFiniteSet(Places(F))
<1> DEFINE S == {{b} \X DOMAIN F.blocks[b] : b \in DOMAIN F.blocks}
<1>0. \A n \in Nat : IsFiniteSet(1 .. n)
  BY FS_Interval
<1>1. IsFiniteSet(DOMAIN F.blocks)
  BY <1>0, Blocks
<1>2. IsFiniteSet(S)
  <2> DEFINE f == [b \in DOMAIN F.blocks |-> {b} \X DOMAIN F.blocks[b]]
  <2>1. f \in Surjection(DOMAIN F.blocks, S)
    BY DEF Surjection
  <2> QED
    BY <1>1, <2>1, FS_Surjection
<1>3. ASSUME NEW b \in DOMAIN F.blocks PROVE IsFiniteSet({b} \X DOMAIN F.blocks[b])
  <2>0. DOMAIN F.blocks[b] = 1 .. Len(F.blocks[b]) /\ Len(F.blocks[b]) \in Nat
    BY Blocks
  <2>1. IsFiniteSet(DOMAIN F.blocks[b]) /\ IsFiniteSet({b})
    BY <1>0, <2>0, FS_Singleton
  <2> QED
    BY <2>1, FS_Product
<1>4. \A x \in S : IsFiniteSet(x)
  BY <1>3
<1> HIDE DEF S
<1>5. IsFiniteSet(UNION S)
  BY <1>2, <1>4, FS_UNION
<1> QED
  BY <1>5 DEF S, Places

\* F with the instructions that the table t gives for its places.
Relabel(F, t) ==
  [F EXCEPT !.blocks = [b \in DOMAIN F.blocks |-> [k \in DOMAIN F.blocks[b] |-> t[<<b, k>>]]]]

LEMMA Relabelled ==
  ASSUME NEW F, IsFunction(F), NEW t \in [Places(F) -> InstructionOver(Variables(F))]
  PROVE  /\ IsFunction(Relabel(F, t))
         /\ Relabel(F, t).types = F.types /\ Relabel(F, t).params = F.params
         /\ DOMAIN Relabel(F, t).blocks = DOMAIN F.blocks
         /\ \A b \in DOMAIN F.blocks : DOMAIN Relabel(F, t).blocks[b] = DOMAIN F.blocks[b]
         /\ Places(Relabel(F, t)) = Places(F)
         /\ \A p \in Places(F) : At(Relabel(F, t), p) = t[p]
<1> DEFINE bs == [b \in DOMAIN F.blocks |-> [k \in DOMAIN F.blocks[b] |-> t[<<b, k>>]]]
           G == Relabel(F, t)
           I == InstructionOver(Variables(F))
<1>1. F = [params |-> F.params, types |-> F.types, blocks |-> F.blocks]
  BY Blocks
<1>2. G = [params |-> F.params, types |-> F.types, blocks |-> bs]
  <2> DEFINE P == F.params
             T == F.types
             B == F.blocks
  <2>1. F = [params |-> P, types |-> T, blocks |-> B]
    BY <1>1
  <2>2. G = [F EXCEPT !.blocks = bs]
    BY Zenon DEF Relabel
  <2> HIDE DEF P, T, B, bs, G
  <2>3. G = [params |-> P, types |-> T, blocks |-> bs]
    BY <2>1, <2>2
  <2> QED
    BY <2>3 DEF P, T
<1>3. G.params = F.params /\ G.types = F.types /\ G.blocks = bs
  BY <1>2
<1>4. /\ DOMAIN bs = DOMAIN F.blocks
      /\ \A b \in DOMAIN F.blocks : DOMAIN bs[b] = DOMAIN F.blocks[b]
      /\ \A b \in DOMAIN F.blocks : \A k \in DOMAIN F.blocks[b] : bs[b][k] = t[<<b, k>>]
  OBVIOUS
<1> HIDE DEF bs, G, I
<1>5. \A b \in DOMAIN F.blocks : \A k \in DOMAIN F.blocks[b] : t[<<b, k>>] \in I
  BY PlaceOf DEF I
<1>6. \A b \in DOMAIN F.blocks : bs[b] \in Seq(I)
  <2> TAKE b \in DOMAIN F.blocks
  <2>1. DOMAIN bs[b] = 1 .. Len(F.blocks[b]) /\ Len(F.blocks[b]) \in Nat
    BY <1>4, Blocks
  <2>2. bs[b] = [k \in 1 .. Len(F.blocks[b]) |-> t[<<b, k>>]]
    BY <2>1 DEF bs
  <2>3. \A k \in 1 .. Len(F.blocks[b]) : t[<<b, k>>] \in I
    BY <1>4, <1>5, <2>1
  <2> QED
    BY <2>1, <2>2, <2>3
<1>7. bs \in Seq(Seq(I))
  <2>1. DOMAIN F.blocks = 1 .. Len(F.blocks) /\ Len(F.blocks) \in Nat
    BY Blocks
  <2>2. bs = [b \in 1 .. Len(F.blocks) |-> bs[b]]
    BY <2>1 DEF bs
  <2> DEFINE N == Len(F.blocks)
             S == Seq(I)
  <2>3. N \in Nat /\ bs = [b \in 1 .. N |-> bs[b]] /\ \A b \in 1 .. N : bs[b] \in S
    BY <1>6, <2>1, <2>2
  <2> HIDE DEF N, S
  <2>4. bs \in Seq(S)
    BY ONLY <2>3
  <2> QED
    BY <2>4 DEF S
<1>8. IsFunction(G)
  <2>1. IsFiniteSet(DOMAIN F.types) /\ "" \notin DOMAIN F.types
        /\ F.types = [x \in DOMAIN F.types |-> F.types[x]]
        /\ F.params \in Seq(DOMAIN F.types)
    BY Zenon DEF IsFunction
  <2>2. G = [params |-> G.params, types |-> G.types, blocks |-> G.blocks]
    BY <1>2, <1>3
  <2>3. G.blocks \in Seq(Seq(InstructionOver(DOMAIN G.types)))
    BY <1>3, <1>7 DEF I, Variables
  <2> QED
    BY <1>3, <2>1, <2>2, <2>3 DEF IsFunction
<1>9. Places(G) = Places(F)
  <2>1. \A p : p \in Places(G) <=> p \in Places(F)
    BY PlaceOf, <1>3, <1>4
  <2> QED
    BY <2>1
<1>10. \A p \in Places(F) : At(G, p) = t[p]
  BY <1>3, <1>4, PlaceParts DEF At
<1> QED
  BY <1>3, <1>4, <1>8, <1>9, <1>10 DEF G

\* What an instruction has, by its operation.
LEMMA InstructionFields ==
  ASSUME NEW V, NEW i \in InstructionOver(V)
  PROVE  /\ i.op \in {"move", "concat", "load", "binary", "call", "store", "return", "throw", "branch", "jump"}
         /\ i.op \in {"move", "concat", "load", "binary"} => i.dst \in V
         /\ i.op \in {"store", "return", "throw", "branch", "jump"} => i.dst = ""
         /\ i.op \in {"move", "return", "throw", "branch"} => i.in \in [1 .. 1 -> ValueOver(V)]
         /\ i.op \in {"concat", "load", "binary"} => i.in \in [1 .. 2 -> ValueOver(V)]
         /\ i.op = "store" => i.in \in [1 .. 3 -> ValueOver(V)]
         /\ i.op = "jump" => i.in = <<>> /\ i.to \in Nat
         /\ i.op = "branch" => i.to \in Nat /\ i.else \in Nat
         /\ i.op = "call" => i.callee \in RuntimeCallees /\ i.in \in Seq(ValueOver(V))
                             /\ (i.dst \in V \/ (i.dst = "" /\ i.callee # "array"))
         /\ i.op = "binary" => i.operator \in {"+", "-", "*", "/", "%"}
<1> DEFINE R(n) == [1 .. n -> ValueOver(V)]
<1>1. CASE i \in [op : {"move"}, dst : V, in : R(1)]
  BY <1>1
<1>2. CASE i \in [op : {"concat", "load"}, dst : V, in : R(2)]
  BY <1>2
<1>3. CASE i \in [op : {"binary"}, dst : V, operator : {"+", "-", "*", "/", "%"}, in : R(2)]
  BY <1>3
<1>4. CASE i \in [op : {"call"}, dst : V, callee : RuntimeCallees, in : Seq(ValueOver(V))]
  BY <1>4
<1>5. CASE i \in [op : {"call"}, dst : {""}, callee : RuntimeCallees \ {"array"}, in : Seq(ValueOver(V))]
  BY <1>5
<1>6. CASE i \in [op : {"store"}, dst : {""}, in : R(3)]
  BY <1>6
<1>7. CASE i \in [op : {"return", "throw"}, dst : {""}, in : R(1)]
  BY <1>7
<1>8. CASE i \in [op : {"branch"}, dst : {""}, in : R(1), to : Nat, else : Nat]
  BY <1>8
<1>9. CASE i \in [op : {"jump"}, dst : {""}, in : {<<>>}, to : Nat]
  BY <1>9
<1> QED
  BY <1>1, <1>2, <1>3, <1>4, <1>5, <1>6, <1>7, <1>8, <1>9, Zenon DEF InstructionOver
-----------------------------------------------------------------------------
(* What the passes use up *)

\* The variables with one definition that are read somewhere.
ReadOnce(F) ==
  {x \in Variables(F) : /\ \E p \in Places(F) : Reads(At(F, p), x)
                        /\ \E q \in Places(F) : Definitions(F, x) = {q}}

\* What folding, the string pass or the array pass may still rewrite.
CanRewrite(types, i) ==
  \/ i.op \in {"binary", "concat"}
  \/ i.op = "move" /\ i.in[1].is # "int"
  \/ i.op = "call" /\ i.callee = "array" /\ types[i.dst] = "array"

Rewritable(F) == {p \in Places(F) : CanRewrite(F.types, At(F, p))}

Work(F) == ({0} \X ReadOnce(F)) \cup ({1} \X Rewritable(F))

\* No block goes on after an instruction that leaves it.
IsCut(F) == \A p \in Places(F) : Terminates(At(F, p)) => p[2] = Len(F.blocks[p[1]])

\* G is F with other instructions at its places, or other types.
SamePlaces(F, G) ==
  /\ IsFunction(G)
  /\ Variables(G) = Variables(F) /\ G.params = F.params
  /\ DOMAIN G.blocks = DOMAIN F.blocks
  /\ \A b \in DOMAIN F.blocks : DOMAIN G.blocks[b] = DOMAIN F.blocks[b]

\* A pass that changes something uses up some of the work.
Progress(F, G) ==
  /\ SamePlaces(F, G)
  /\ IsCut(F) => IsCut(G)
  /\ G # F => Work(G) \subseteq Work(F) /\ Work(G) # Work(F)

LEMMA SamePlacesPlaces ==
  ASSUME NEW F, NEW G, SamePlaces(F, G)
  PROVE  Places(G) = Places(F)
<1>1. \A p : p \in Places(G) <=> p \in Places(F)
  BY PlaceOf DEF SamePlaces
<1> QED
  BY <1>1

LEMMA RelabelSame ==
  ASSUME NEW F, IsFunction(F), NEW t \in [Places(F) -> InstructionOver(Variables(F))],
         \A p \in Places(F) : t[p] = At(F, p)
  PROVE  Relabel(F, t) = F
<1> DEFINE bs == [b \in DOMAIN F.blocks |-> [k \in DOMAIN F.blocks[b] |-> t[<<b, k>>]]]
           B == F.blocks
<1>1. ASSUME NEW b \in DOMAIN B PROVE [k \in DOMAIN B[b] |-> t[<<b, k>>]] = B[b]
  <2>1. B[b] \in Seq(InstructionOver(Variables(F)))
    BY Blocks
  <2>2. B[b] = [k \in DOMAIN B[b] |-> B[b][k]]
    BY <2>1
  <2>3. \A k \in DOMAIN B[b] : t[<<b, k>>] = B[b][k]
    BY PlaceOf DEF At
  <2> QED
    BY <2>2, <2>3
<1>2. B = [b \in DOMAIN B |-> B[b]]
  <2>1. B \in Seq(Seq(InstructionOver(Variables(F))))
    BY Zenon DEF IsFunction, Variables
  <2> QED
    BY <2>1
<1>3. bs = B
  BY <1>1, <1>2
<1>4. Relabel(F, t) = [F EXCEPT !.blocks = B]
  BY <1>3, Zenon DEF Relabel
<1>5. F = [params |-> F.params, types |-> F.types, blocks |-> B]
  BY Blocks
<1> HIDE DEF B, bs
<1>6. [F EXCEPT !.blocks = B] = F
  <2> DEFINE P == F.params
             T == F.types
  <2>1. F = [params |-> P, types |-> T, blocks |-> B]
    BY <1>5
  <2> HIDE DEF P, T
  <2> QED
    BY <2>1
<1> QED
  BY <1>4, <1>6

LEMMA WorkOf ==
  ASSUME NEW F
  PROVE  /\ \A x : <<0, x>> \in Work(F) <=> x \in ReadOnce(F)
         /\ \A p : <<1, p>> \in Work(F) <=> p \in Rewritable(F)
         /\ \A w \in Work(F) : \/ \E x \in ReadOnce(F) : w = <<0, x>>
                               \/ \E p \in Rewritable(F) : w = <<1, p>>
BY DEF Work

LEMMA WorkShrinks ==
  ASSUME NEW F, NEW G, ReadOnce(G) \subseteq ReadOnce(F), Rewritable(G) \subseteq Rewritable(F)
  PROVE  /\ Work(G) \subseteq Work(F)
         /\ ReadOnce(G) # ReadOnce(F) \/ Rewritable(G) # Rewritable(F) => Work(G) # Work(F)
<1>1. Work(G) \subseteq Work(F)
  BY DEF Work
<1>2. ASSUME NEW x \in ReadOnce(F), x \notin ReadOnce(G) PROVE Work(G) # Work(F)
  BY <1>2, WorkOf
<1>3. ASSUME NEW p \in Rewritable(F), p \notin Rewritable(G) PROVE Work(G) # Work(F)
  BY <1>3, WorkOf
<1> QED
  BY <1>1, <1>2, <1>3

\* A pass makes progress if what it puts in the place of an instruction ends the block
\* and sets a variable as before, can be rewritten only if the old one could be, reads
\* no variable with one definition that the old one did not, and uses something up.
LEMMA RelabelProgress ==
  ASSUME NEW F, IsFunction(F), NEW t \in [Places(F) -> InstructionOver(Variables(F))],
         \A p \in Places(F) : Terminates(t[p]) <=> Terminates(At(F, p)),
         \A p \in Places(F) : t[p].dst = At(F, p).dst,
         \A p \in Places(F) : CanRewrite(F.types, t[p]) => CanRewrite(F.types, At(F, p)),
         \A p \in Places(F) : \A x \in Variables(F) :
            Reads(t[p], x) => Reads(At(F, p), x) \/ ~ \E q \in Places(F) : Definitions(F, x) = {q},
         \A p \in Places(F) : t[p] # At(F, p) =>
            \/ CanRewrite(F.types, At(F, p)) /\ ~ CanRewrite(F.types, t[p])
            \/ \E x \in ReadOnce(F) : \A q \in Places(F) : ~ Reads(t[q], x)
  PROVE  Progress(F, Relabel(F, t))
<1> DEFINE G == Relabel(F, t)
<1>1. SamePlaces(F, G)
  BY Relabelled, Zenon DEF SamePlaces, Variables
<1>2. Places(G) = Places(F) /\ G.types = F.types /\ Variables(G) = Variables(F)
      /\ \A p \in Places(F) : At(G, p) = t[p]
  BY Relabelled DEF Variables
<1> HIDE DEF G
<1>3. IsCut(F) => IsCut(G)
  <2> SUFFICES ASSUME IsCut(F), NEW p \in Places(F), Terminates(t[p])
               PROVE  p[2] = Len(G.blocks[p[1]])
    BY <1>2 DEF IsCut
  <2>1. p[2] = Len(F.blocks[p[1]])
    BY DEF IsCut
  <2>2. p[1] \in DOMAIN F.blocks
    BY PlaceParts
  <2>3. DOMAIN G.blocks[p[1]] = DOMAIN F.blocks[p[1]] /\ IsFunction(G) /\ p[1] \in DOMAIN G.blocks
    BY <1>1, <2>2 DEF SamePlaces
  <2>4. DOMAIN F.blocks[p[1]] = 1 .. Len(F.blocks[p[1]]) /\ Len(F.blocks[p[1]]) \in Nat
    BY <2>2, Blocks
  <2>5. DOMAIN G.blocks[p[1]] = 1 .. Len(G.blocks[p[1]]) /\ Len(G.blocks[p[1]]) \in Nat
    BY <2>3, Blocks
  <2> DEFINE m == Len(F.blocks[p[1]])
             n == Len(G.blocks[p[1]])
  <2>6. 1 .. m = 1 .. n /\ m \in Nat /\ n \in Nat
    BY <2>3, <2>4, <2>5
  <2> HIDE DEF m, n
  <2>7. m = n
    BY <2>6
  <2> QED
    BY <2>1, <2>7 DEF m, n
<1>4. \A x : Definitions(G, x) = Definitions(F, x)
  BY <1>2 DEF Definitions
<1>5. ReadOnce(G) \subseteq ReadOnce(F)
  BY <1>2, <1>4 DEF ReadOnce
<1>6. Rewritable(G) \subseteq Rewritable(F)
  BY <1>2 DEF Rewritable
<1>7. ASSUME G # F PROVE ReadOnce(G) # ReadOnce(F) \/ Rewritable(G) # Rewritable(F)
  <2>1. PICK p \in Places(F) : t[p] # At(F, p)
    BY <1>7, RelabelSame DEF G
  <2>2. CASE CanRewrite(F.types, At(F, p)) /\ ~ CanRewrite(F.types, t[p])
    <3>1. p \in Rewritable(F) /\ p \notin Rewritable(G)
      BY <1>2, <2>2 DEF Rewritable
    <3> QED
      BY <3>1
  <2>3. CASE \E x \in ReadOnce(F) : \A q \in Places(F) : ~ Reads(t[q], x)
    <3>1. PICK x \in ReadOnce(F) : \A q \in Places(F) : ~ Reads(t[q], x)
      BY <2>3
    <3>2. x \notin ReadOnce(G)
      BY <1>2, <3>1 DEF ReadOnce
    <3> QED
      BY <3>1, <3>2
  <2> QED
    BY <2>1, <2>2, <2>3
<1> QED
  BY <1>1, <1>3, <1>5, <1>6, <1>7, WorkShrinks DEF G, Progress
-----------------------------------------------------------------------------
(* propagate_constants *)

LEMMA ValueFields ==
  ASSUME NEW V, NEW v \in ValueOver(V)
  PROVE  /\ v.is \in {"var", "int", "str"}
         /\ v.is = "var" => v.name \in V /\ v = Var(v.name)
         /\ v.is = "int" => v.val \in Int /\ v = Lit(v.val)
         /\ v.is = "str" => v.val \in Seq(Nat) /\ v = Quoted(v.val)
<1>1. CASE v \in [is : {"var"}, name : V]
  BY <1>1 DEF Var
<1>2. CASE v \in [is : {"int"}, val : Int]
  BY <1>2 DEF Lit
<1>3. CASE v \in [is : {"str"}, val : Seq(Nat)]
  BY <1>3 DEF Quoted
<1> QED
  BY <1>1, <1>2, <1>3, Zenon DEF ValueOver

\* An instruction with other values to read is an instruction.
LEMMA WithInputs ==
  ASSUME NEW V, NEW i \in InstructionOver(V), NEW g \in [DOMAIN i.in -> ValueOver(V)]
  PROVE  /\ [i EXCEPT !.in = g] \in InstructionOver(V)
         /\ [i EXCEPT !.in = g].in = g
         /\ [i EXCEPT !.in = g].op = i.op
         /\ [i EXCEPT !.in = g].dst = i.dst
         /\ i.op = "binary" => [i EXCEPT !.in = g].operator = i.operator
         /\ i.op = "call" => [i EXCEPT !.in = g].callee = i.callee
         /\ i.op \in {"jump", "branch"} => [i EXCEPT !.in = g].to = i.to
         /\ i.op = "branch" => [i EXCEPT !.in = g].else = i.else
<1> DEFINE R(n) == [1 .. n -> ValueOver(V)]
           W == ValueOver(V)
           K(j) == /\ j.in = g /\ j.op = i.op /\ j.dst = i.dst
                   /\ i.op = "binary" => j.operator = i.operator
                   /\ i.op = "call" => j.callee = i.callee
                   /\ i.op \in {"jump", "branch"} => j.to = i.to
                   /\ i.op = "branch" => j.else = i.else
           j == [i EXCEPT !.in = g]
<1> SUFFICES j \in InstructionOver(V) /\ K(j)
  BY Zenon
<1>0. \A s \in Seq(W) : [DOMAIN s -> W] \subseteq Seq(W)
  <2> TAKE s \in Seq(W)
  <2>1. DOMAIN s = 1 .. Len(s) /\ Len(s) \in Nat
    OBVIOUS
  <2> HIDE DEF W
  <2> QED
    BY <2>1
<1>1. CASE i \in [op : {"move"}, dst : V, in : R(1)]
  <2>1. j \in [op : {"move"}, dst : V, in : R(1)] /\ K(j)
    BY <1>1
  <2> QED
    BY <2>1, Zenon DEF InstructionOver
<1>2. CASE i \in [op : {"concat", "load"}, dst : V, in : R(2)]
  <2>1. j \in [op : {"concat", "load"}, dst : V, in : R(2)] /\ K(j)
    BY <1>2
  <2> QED
    BY <2>1, Zenon DEF InstructionOver
<1>3. CASE i \in [op : {"binary"}, dst : V, operator : {"+", "-", "*", "/", "%"}, in : R(2)]
  <2>1. j \in [op : {"binary"}, dst : V, operator : {"+", "-", "*", "/", "%"}, in : R(2)] /\ K(j)
    BY <1>3
  <2> QED
    BY <2>1, Zenon DEF InstructionOver
<1>4. CASE i \in [op : {"call"}, dst : V, callee : RuntimeCallees, in : Seq(W)]
  <2>0. g \in Seq(W)
    BY <1>0, <1>4
  <2>1. j \in [op : {"call"}, dst : V, callee : RuntimeCallees, in : Seq(W)] /\ K(j)
    BY <1>4, <2>0
  <2> QED
    BY <2>1, Zenon DEF InstructionOver
<1>5. CASE i \in [op : {"call"}, dst : {""}, callee : RuntimeCallees \ {"array"}, in : Seq(W)]
  <2>0. g \in Seq(W)
    BY <1>0, <1>5
  <2>1. j \in [op : {"call"}, dst : {""}, callee : RuntimeCallees \ {"array"}, in : Seq(W)] /\ K(j)
    BY <1>5, <2>0
  <2> QED
    BY <2>1, Zenon DEF InstructionOver
<1>6. CASE i \in [op : {"store"}, dst : {""}, in : R(3)]
  <2>1. j \in [op : {"store"}, dst : {""}, in : R(3)] /\ K(j)
    BY <1>6
  <2> QED
    BY <2>1, Zenon DEF InstructionOver
<1>7. CASE i \in [op : {"return", "throw"}, dst : {""}, in : R(1)]
  <2>1. j \in [op : {"return", "throw"}, dst : {""}, in : R(1)] /\ K(j)
    BY <1>7
  <2> QED
    BY <2>1, Zenon DEF InstructionOver
<1>8. CASE i \in [op : {"branch"}, dst : {""}, in : R(1), to : Nat, else : Nat]
  <2>1. j \in [op : {"branch"}, dst : {""}, in : R(1), to : Nat, else : Nat] /\ K(j)
    BY <1>8
  <2> QED
    BY <2>1, Zenon DEF InstructionOver
<1>9. CASE i \in [op : {"jump"}, dst : {""}, in : {<<>>}, to : Nat]
  <2>0. g = <<>>
    <3>1. DOMAIN i.in = {}
      <4>1. i.in = <<>>
        BY <1>9
      <4> QED
        BY <4>1
    <3>2. g \in Seq(W) /\ Len(g) = 0
      <4>1. g \in [1 .. 0 -> W]
        BY <3>1
      <4> QED
        BY <4>1
    <3> QED
      BY <3>2
  <2>1. j \in [op : {"jump"}, dst : {""}, in : {<<>>}, to : Nat] /\ K(j)
    BY <1>9, <2>0
  <2> QED
    BY <2>1, Zenon DEF InstructionOver
<1> QED
  BY <1>1, <1>2, <1>3, <1>4, <1>5, <1>6, <1>7, <1>8, <1>9, Zenon DEF InstructionOver

LEMMA InputsOf ==
  ASSUME NEW V, NEW i \in InstructionOver(V), NEW k \in DOMAIN i.in
  PROVE  i.in[k] \in ValueOver(V)
<1>1. i.op \in {"move", "concat", "load", "binary", "call", "store", "return", "throw", "branch", "jump"}
  BY InstructionFields
<1>2. CASE i.op \in {"move", "return", "throw", "branch"}
  BY <1>2, InstructionFields
<1>3. CASE i.op \in {"concat", "load", "binary"}
  BY <1>3, InstructionFields
<1>4. CASE i.op = "store"
  BY <1>4, InstructionFields
<1>5. CASE i.op = "jump"
  <2>1. i.in = <<>>
    BY <1>5, InstructionFields
  <2>2. DOMAIN i.in = {}
    BY <2>1
  <2> QED
    BY <2>2
<1>6. CASE i.op = "call"
  <2>1. i.in \in Seq(ValueOver(V))
    BY <1>6, InstructionFields
  <2> QED
    BY <2>1
<1> QED
  BY <1>1, <1>2, <1>3, <1>4, <1>5, <1>6

\* A known variable has one definition, whose value is a constant.
LEMMA KnownConstant ==
  ASSUME NEW F, IsFunction(F), NEW x \in SingleConstants(F)
  PROVE  /\ x \in Variables(F) /\ x \notin ToSet(F.params)
         /\ \E p \in Places(F) : /\ Definitions(F, x) = {p} /\ At(F, p).dst = x
                                 /\ At(F, p).op = "move" /\ ConstantOf(F, x) = At(F, p).in[1]
         /\ ConstantOf(F, x) \in ValueOver(Variables(F)) /\ ConstantOf(F, x).is # "var"
<1>1. PICK p \in Places(F) : Definitions(F, x) = {p} /\ At(F, p).op = "move" /\ IsConst(At(F, p).in[1])
  BY DEF SingleConstants
<1>2. x \in Variables(F) /\ x \notin ToSet(F.params)
  BY DEF SingleConstants, Variables
<1>3. At(F, p).dst = x
  BY <1>1 DEF Definitions
<1>4. (CHOOSE q \in Definitions(F, x) : TRUE) = p
  BY <1>1
<1>5. ConstantOf(F, x) = At(F, p).in[1]
  BY <1>4, Zenon DEF ConstantOf
<1>6. 1 \in DOMAIN At(F, p).in
  <2>1. At(F, p) \in InstructionOver(Variables(F))
    BY InstructionAt
  <2>2. At(F, p).in \in [1 .. 1 -> ValueOver(Variables(F))]
    BY <1>1, <2>1, InstructionFields
  <2> QED
    BY <2>2
<1>7. At(F, p).in[1] \in ValueOver(Variables(F))
  BY <1>6, InstructionAt, InputsOf
<1> QED
  BY <1>1, <1>2, <1>3, <1>5, <1>7 DEF IsConst

LEMMA PropagatedInputs ==
  ASSUME NEW F, IsFunction(F), NEW i \in InstructionOver(Variables(F)),
         NEW j, j = Propagated(F, SingleConstants(F), i)
  PROVE  /\ j \in InstructionOver(Variables(F))
         /\ j.op = i.op /\ j.dst = i.dst
         /\ i.op = "binary" => j.operator = i.operator
         /\ i.op = "call" => j.callee = i.callee
         /\ i.op \in {"jump", "branch"} => j.to = i.to
         /\ i.op = "branch" => j.else = i.else
         /\ DOMAIN j.in = DOMAIN i.in
         /\ \A k \in DOMAIN i.in :
              j.in[k] = IF i.in[k].is = "var" /\ i.in[k].name \in SingleConstants(F)
                        THEN ConstantOf(F, i.in[k].name) ELSE i.in[k]
         /\ (\A k \in DOMAIN i.in : ~ (i.in[k].is = "var" /\ i.in[k].name \in SingleConstants(F))) => j = i
<1> DEFINE W == ValueOver(Variables(F))
           known == SingleConstants(F)
           g == [k \in DOMAIN i.in |->
                   IF i.in[k].is = "var" /\ i.in[k].name \in known
                   THEN ConstantOf(F, i.in[k].name) ELSE i.in[k]]
<1>1. j = [i EXCEPT !.in = g]
  BY Zenon DEF Propagated
<1>2. \A x \in known : ConstantOf(F, x) \in W
  BY KnownConstant
<1>3. \A k \in DOMAIN i.in : i.in[k] \in W
  BY InputsOf
<1> HIDE DEF W, known
<1>4. g \in [DOMAIN i.in -> W]
  BY <1>2, <1>3
<1>5. /\ j \in InstructionOver(Variables(F))
      /\ j.in = g /\ j.op = i.op /\ j.dst = i.dst
      /\ i.op = "binary" => j.operator = i.operator
      /\ i.op = "call" => j.callee = i.callee
      /\ i.op \in {"jump", "branch"} => j.to = i.to
      /\ i.op = "branch" => j.else = i.else
  <2>1. g \in [DOMAIN i.in -> ValueOver(Variables(F))]
    BY <1>4 DEF W
  <2> HIDE DEF g
  <2> QED
    BY <1>1, <2>1, WithInputs
<1>6. ASSUME \A k \in DOMAIN i.in : ~ (i.in[k].is = "var" /\ i.in[k].name \in known) PROVE j = i
  <2>1. i.in = [k \in DOMAIN i.in |-> i.in[k]]
    <3>1. i.op \in {"move", "concat", "load", "binary", "call", "store", "return", "throw", "branch", "jump"}
      BY InstructionFields
    <3>2. CASE i.op \in {"move", "return", "throw", "branch"}
      BY <3>2, InstructionFields
    <3>3. CASE i.op \in {"concat", "load", "binary"}
      BY <3>3, InstructionFields
    <3>4. CASE i.op = "store"
      BY <3>4, InstructionFields
    <3>5. CASE i.op = "jump"
      <4>1. i.in = <<>>
        BY <3>5, InstructionFields
      <4>2. DOMAIN i.in = {}
        BY <4>1
      <4>3. i.in \in Seq({})
        BY <4>1
      <4> QED
        BY <4>3
    <3>6. CASE i.op = "call"
      <4>1. i.in \in Seq(ValueOver(Variables(F)))
        BY <3>6, InstructionFields
      <4> QED
        BY <4>1
    <3> QED
      BY <3>1, <3>2, <3>3, <3>4, <3>5, <3>6
  <2>2. g = i.in
    BY <1>6, <2>1
  <2>3. j = [i EXCEPT !.in = i.in]
    BY <1>1, <2>2, Zenon
  <2> HIDE DEF g
  <2> DEFINE R(n) == [1 .. n -> ValueOver(Variables(F))]
  <2>4. [i EXCEPT !.in = i.in] = i
    <3> DEFINE V == Variables(F)
    <3>1. CASE i \in [op : {"move"}, dst : V, in : R(1)]
      BY <3>1
    <3>2. CASE i \in [op : {"concat", "load"}, dst : V, in : R(2)]
      BY <3>2
    <3>3. CASE i \in [op : {"binary"}, dst : V, operator : {"+", "-", "*", "/", "%"}, in : R(2)]
      BY <3>3
    <3>4. CASE i \in [op : {"call"}, dst : V, callee : RuntimeCallees, in : Seq(ValueOver(V))]
      BY <3>4
    <3>5. CASE i \in [op : {"call"}, dst : {""}, callee : RuntimeCallees \ {"array"}, in : Seq(ValueOver(V))]
      BY <3>5
    <3>6. CASE i \in [op : {"store"}, dst : {""}, in : R(3)]
      BY <3>6
    <3>7. CASE i \in [op : {"return", "throw"}, dst : {""}, in : R(1)]
      BY <3>7
    <3>8. CASE i \in [op : {"branch"}, dst : {""}, in : R(1), to : Nat, else : Nat]
      BY <3>8
    <3>9. CASE i \in [op : {"jump"}, dst : {""}, in : {<<>>}, to : Nat]
      BY <3>9
    <3> QED
      BY <3>1, <3>2, <3>3, <3>4, <3>5, <3>6, <3>7, <3>8, <3>9, Zenon DEF InstructionOver
  <2> QED
    BY <2>3, <2>4
<1>7. DOMAIN g = DOMAIN i.in /\ \A k \in DOMAIN i.in :
        g[k] = IF i.in[k].is = "var" /\ i.in[k].name \in known THEN ConstantOf(F, i.in[k].name) ELSE i.in[k]
  OBVIOUS
<1> HIDE DEF g
<1> QED
  BY <1>5, <1>6, <1>7 DEF known

PropagatedTable(F) == [p \in Places(F) |-> Propagated(F, SingleConstants(F), At(F, p))]

LEMMA PropagateIsRelabel ==
  ASSUME NEW F, IsFunction(F)
  PROVE  /\ PropagateConstants(F) = Relabel(F, PropagatedTable(F))
         /\ PropagatedTable(F) \in [Places(F) -> InstructionOver(Variables(F))]
<1> DEFINE t == PropagatedTable(F)
           s == [b \in DOMAIN F.blocks |-> [k \in DOMAIN F.blocks[b] |->
                   Propagated(F, SingleConstants(F), At(F, <<b, k>>))]]
           u == [b \in DOMAIN F.blocks |-> [k \in DOMAIN F.blocks[b] |-> t[<<b, k>>]]]
<1>1. PropagateConstants(F) = [F EXCEPT !.blocks = s]
  BY Zenon DEF PropagateConstants, Rewritten
<1>2. \A b \in DOMAIN F.blocks : \A k \in DOMAIN F.blocks[b] :
        t[<<b, k>>] = Propagated(F, SingleConstants(F), At(F, <<b, k>>))
  BY PlaceOf DEF PropagatedTable
<1> HIDE DEF t
<1>3. s = u
  BY <1>2
<1>4. Relabel(F, t) = [F EXCEPT !.blocks = u]
  BY Zenon DEF Relabel
<1>5. \A p \in Places(F) : Propagated(F, SingleConstants(F), At(F, p)) \in InstructionOver(Variables(F))
  BY InstructionAt, PropagatedInputs
<1>6. PropagatedTable(F) \in [Places(F) -> InstructionOver(Variables(F))]
  BY <1>5 DEF PropagatedTable
<1> QED
  BY <1>1, <1>3, <1>4, <1>6 DEF t
-----------------------------------------------------------------------------
(* Every pass makes progress *)

LEMMA ReadValue ==
  ASSUME NEW V, NEW i \in InstructionOver(V), NEW x, Reads(i, x)
  PROVE  \E k \in DOMAIN i.in : i.in[k].is = "var" /\ i.in[k].name = x /\ i.in[k] = Var(x)
BY DEF Reads, Var

\* Once its constant is put in, nothing reads a known variable any more.
LEMMA PropagateProgress ==
  ASSUME NEW F, IsFunction(F)
  PROVE  Progress(F, PropagateConstants(F))
<1> DEFINE t == PropagatedTable(F)
           known == SingleConstants(F)
<1>1. t \in [Places(F) -> InstructionOver(Variables(F))] /\ PropagateConstants(F) = Relabel(F, t)
  BY PropagateIsRelabel
<1>2. ASSUME NEW p \in Places(F)
      PROVE  /\ At(F, p) \in InstructionOver(Variables(F)) /\ t[p] \in InstructionOver(Variables(F))
             /\ t[p] = Propagated(F, known, At(F, p))
  BY <1>1, InstructionAt DEF PropagatedTable
<1> HIDE DEF t, known
<1>3. ASSUME NEW p \in Places(F)
      PROVE  /\ t[p].op = At(F, p).op /\ t[p].dst = At(F, p).dst
             /\ At(F, p).op = "call" => t[p].callee = At(F, p).callee
             /\ DOMAIN t[p].in = DOMAIN At(F, p).in
             /\ \A k \in DOMAIN At(F, p).in :
                  t[p].in[k] = IF At(F, p).in[k].is = "var" /\ At(F, p).in[k].name \in known
                               THEN ConstantOf(F, At(F, p).in[k].name) ELSE At(F, p).in[k]
             /\ (\A k \in DOMAIN At(F, p).in : ~ (At(F, p).in[k].is = "var" /\ At(F, p).in[k].name \in known))
                   => t[p] = At(F, p)
  <2>1. t[p] = Propagated(F, SingleConstants(F), At(F, p)) /\ At(F, p) \in InstructionOver(Variables(F))
    BY <1>2 DEF known
  <2> QED
    BY <2>1, PropagatedInputs DEF known
<1>4. \A x \in known : ConstantOf(F, x).is # "var"
  BY KnownConstant DEF known
<1>5. ASSUME NEW p \in Places(F) PROVE Terminates(t[p]) <=> Terminates(At(F, p))
  BY <1>3 DEF Terminates
<1>6. ASSUME NEW p \in Places(F), NEW x, Reads(t[p], x) PROVE Reads(At(F, p), x) /\ x \notin known
  <2>1. PICK k \in DOMAIN t[p].in : t[p].in[k] = Var(x)
    BY <1>6 DEF Reads
  <2>2. t[p].in[k].is = "var" /\ t[p].in[k].name = x
    BY <2>1 DEF Var
  <2>3. k \in DOMAIN At(F, p).in
    BY <1>3
  <2>4. t[p].in[k] = At(F, p).in[k] /\ x \notin known
    BY <1>3, <1>4, <2>2, <2>3
  <2> QED
    BY <2>1, <2>3, <2>4 DEF Reads
<1>7. ASSUME NEW p \in Places(F), CanRewrite(F.types, t[p]) PROVE CanRewrite(F.types, At(F, p))
  <2>1. CASE At(F, p).op # "move"
    BY <1>3, <1>7, <2>1 DEF CanRewrite
  <2>2. CASE At(F, p).op = "move"
    <3>1. At(F, p).in \in [1 .. 1 -> ValueOver(Variables(F))]
      BY <1>2, <2>2, InstructionFields
    <3>2. 1 \in DOMAIN At(F, p).in
      BY <3>1
    <3>3. At(F, p).in[1].is = "int" => t[p].in[1] = At(F, p).in[1]
      BY <1>3, <3>2
    <3> QED
      BY <1>3, <1>7, <2>2, <3>3 DEF CanRewrite
  <2> QED
    BY <2>1, <2>2
<1>8. ASSUME NEW p \in Places(F), t[p] # At(F, p)
      PROVE  \E x \in ReadOnce(F) : \A q \in Places(F) : ~ Reads(t[q], x)
  <2>1. PICK k \in DOMAIN At(F, p).in : At(F, p).in[k].is = "var" /\ At(F, p).in[k].name \in known
    BY <1>3, <1>8
  <2> DEFINE x == At(F, p).in[k].name
  <2>2. At(F, p).in[k] = Var(x)
    BY <1>2, <2>1, InputsOf, ValueFields
  <2>3. x \in Variables(F) /\ \E q \in Places(F) : Definitions(F, x) = {q}
    BY <2>1, KnownConstant DEF known
  <2>4. x \in ReadOnce(F)
    BY <2>2, <2>3 DEF ReadOnce, Reads
  <2>5. \A q \in Places(F) : ~ Reads(t[q], x)
    BY <1>6, <2>1
  <2> QED
    BY <2>4, <2>5
<1>9. Progress(F, Relabel(F, t))
  BY <1>1, <1>3, <1>5, <1>6, <1>7, <1>8, RelabelProgress
<1> QED
  BY <1>1, <1>9

FoldedTable(F) == [p \in Places(F) |-> Folded(At(F, p))]

LEMMA MoveInstruction ==
  ASSUME NEW V, NEW x \in V, NEW v \in ValueOver(V)
  PROVE  /\ [op |-> "move", dst |-> x, in |-> <<v>>] \in InstructionOver(V)
         /\ [op |-> "move", dst |-> x, in |-> <<v>>].in = <<v>>
<1> DEFINE W == ValueOver(V)
<1> HIDE DEF W
<1>1. v \in W
  BY DEF W
<1>2. <<v>> \in [1 .. 1 -> W]
  BY <1>1
<1>3. [op |-> "move", dst |-> x, in |-> <<v>>] \in [op : {"move"}, dst : V, in : [1 .. 1 -> W]]
  BY <1>2
<1> QED
  BY <1>3 DEF InstructionOver, W

\* Division by a number other than 0, and every other operation, gives an integer.
LEMMA ArithmeticInt ==
  ASSUME NEW o \in {"+", "-", "*", "/", "%"}, NEW a \in Int, NEW b \in Int,
         o \in {"/", "%"} => b # 0
  PROVE  Arithmetic(o, a, b) \in Int
<1>1. b # 0 => Quotient(a, b) \in Int
  <2> SUFFICES ASSUME b # 0 PROVE Quotient(a, b) \in Int
    OBVIOUS
  <2> DEFINE m == IF a < 0 THEN -a ELSE a
             n == IF b < 0 THEN -b ELSE b
  <2>1. m \in Int /\ n \in Int /\ n > 0
    OBVIOUS
  <2> HIDE DEF m, n
  <2>2. m \div n \in Int
    BY <2>1
  <2>3. Quotient(a, b) = IF (a < 0) = (b < 0) THEN m \div n ELSE -(m \div n)
    BY Zenon DEF Quotient, m, n
  <2> QED
    BY <2>2, <2>3
<1>2. CASE o = "+"
  BY <1>2 DEF Arithmetic
<1>3. CASE o = "-"
  BY <1>3 DEF Arithmetic
<1>4. CASE o = "*"
  BY <1>4 DEF Arithmetic
<1>5. CASE o = "/"
  <2>1. Arithmetic(o, a, b) = Quotient(a, b)
    BY <1>5 DEF Arithmetic
  <2> QED
    BY <1>1, <1>5, <2>1
<1>6. CASE o = "%"
  <2>1. Arithmetic(o, a, b) = a - b * Quotient(a, b)
    BY <1>6 DEF Arithmetic
  <2> QED
    BY <1>1, <1>6, <2>1
<1> QED
  BY <1>2, <1>3, <1>4, <1>5, <1>6

LEMMA FoldedInstruction ==
  ASSUME NEW V, NEW i \in InstructionOver(V), Folds(i)
  PROVE  /\ Folded(i) \in InstructionOver(V)
         /\ i.op = "binary" /\ i.dst \in V /\ i.operator \in {"+", "-", "*", "/", "%"}
         /\ Folded(i).op = "move" /\ Folded(i).dst = i.dst
         /\ i.in[1].val \in Int /\ i.in[2].val \in Int
         /\ i.in[1] = Lit(i.in[1].val) /\ i.in[2] = Lit(i.in[2].val)
         /\ i.operator \in {"/", "%"} => i.in[2].val # 0
         /\ Arithmetic(i.operator, i.in[1].val, i.in[2].val) \in Int
         /\ Folded(i).in = <<Lit(Arithmetic(i.operator, i.in[1].val, i.in[2].val))>>
         /\ i.in \in [1 .. 2 -> ValueOver(V)]
<1>1. i.op = "binary" /\ i.in[1].is = "int" /\ i.in[2].is = "int"
      /\ (i.operator \in {"/", "%"} => i.in[2].val # 0)
  BY DEF Folds
<1>2. i.dst \in V /\ i.operator \in {"+", "-", "*", "/", "%"} /\ i.in \in [1 .. 2 -> ValueOver(V)]
  BY <1>1, InstructionFields
<1>3. i.in[1] \in ValueOver(V) /\ i.in[2] \in ValueOver(V)
  BY <1>2
<1>4. i.in[1].val \in Int /\ i.in[2].val \in Int /\ i.in[1] = Lit(i.in[1].val) /\ i.in[2] = Lit(i.in[2].val)
  BY <1>1, <1>3, ValueFields
<1> DEFINE n == Arithmetic(i.operator, i.in[1].val, i.in[2].val)
<1>5. n \in Int
  BY <1>1, <1>2, <1>4, ArithmeticInt
<1>6. Folded(i) = [op |-> "move", dst |-> i.dst, in |-> <<Lit(n)>>]
  BY Zenon DEF Folded
<1> HIDE DEF n
<1>7. Lit(n) \in ValueOver(V)
  BY <1>5 DEF Lit, ValueOver
<1>8. Folded(i) \in InstructionOver(V) /\ Folded(i).in = <<Lit(n)>>
  BY <1>2, <1>6, <1>7, MoveInstruction
<1> QED
  BY <1>1, <1>2, <1>4, <1>5, <1>6, <1>8 DEF n

LEMMA FoldIsRelabel ==
  ASSUME NEW F, IsFunction(F)
  PROVE  /\ FoldConstants(F) = Relabel(F, FoldedTable(F))
         /\ FoldedTable(F) \in [Places(F) -> InstructionOver(Variables(F))]
<1> DEFINE t == FoldedTable(F)
           s == [b \in DOMAIN F.blocks |-> [k \in DOMAIN F.blocks[b] |-> Folded(At(F, <<b, k>>))]]
           u == [b \in DOMAIN F.blocks |-> [k \in DOMAIN F.blocks[b] |-> t[<<b, k>>]]]
<1>1. FoldConstants(F) = [F EXCEPT !.blocks = s]
  BY Zenon DEF FoldConstants, Rewritten
<1>2. \A b \in DOMAIN F.blocks : \A k \in DOMAIN F.blocks[b] : t[<<b, k>>] = Folded(At(F, <<b, k>>))
  BY PlaceOf DEF FoldedTable
<1> HIDE DEF t
<1>3. s = u
  BY <1>2
<1>4. Relabel(F, t) = [F EXCEPT !.blocks = u]
  BY Zenon DEF Relabel
<1>5. ASSUME NEW p \in Places(F) PROVE Folded(At(F, p)) \in InstructionOver(Variables(F))
  <2>1. CASE Folds(At(F, p))
    BY <2>1, InstructionAt, FoldedInstruction
  <2>2. CASE ~ Folds(At(F, p))
    BY <2>2, InstructionAt DEF Folded
  <2> QED
    BY <2>1, <2>2
<1>6. FoldedTable(F) \in [Places(F) -> InstructionOver(Variables(F))]
  BY <1>5 DEF FoldedTable
<1> QED
  BY <1>1, <1>3, <1>4, <1>6 DEF t

\* A folded instruction is one less to fold.
LEMMA FoldProgress ==
  ASSUME NEW F, IsFunction(F)
  PROVE  Progress(F, FoldConstants(F))
<1> DEFINE t == FoldedTable(F)
<1>1. t \in [Places(F) -> InstructionOver(Variables(F))] /\ FoldConstants(F) = Relabel(F, t)
  BY FoldIsRelabel
<1>2. ASSUME NEW p \in Places(F)
      PROVE  At(F, p) \in InstructionOver(Variables(F)) /\ t[p] = Folded(At(F, p))
  BY <1>1, InstructionAt DEF FoldedTable
<1> HIDE DEF t
<1>3. ASSUME NEW p \in Places(F), ~ Folds(At(F, p)) PROVE t[p] = At(F, p)
  BY <1>2, <1>3 DEF Folded
<1>4. ASSUME NEW p \in Places(F), Folds(At(F, p))
      PROVE  /\ t[p].dst = At(F, p).dst
             /\ ~ Terminates(t[p]) /\ ~ Terminates(At(F, p))
             /\ ~ CanRewrite(F.types, t[p]) /\ CanRewrite(F.types, At(F, p))
             /\ \A x : ~ Reads(t[p], x)
  <2> DEFINE n == Arithmetic(At(F, p).operator, At(F, p).in[1].val, At(F, p).in[2].val)
  <2>1. t[p].op = "move" /\ t[p].dst = At(F, p).dst /\ t[p].in = <<Lit(n)>> /\ At(F, p).op = "binary"
    BY <1>2, <1>4, FoldedInstruction
  <2> HIDE DEF n
  <2>2. DOMAIN t[p].in = {1} /\ t[p].in[1] = Lit(n)
    BY <2>1
  <2>3. t[p].in[1].is = "int"
    BY <2>2 DEF Lit
  <2> QED
    BY <2>1, <2>2, <2>3 DEF Terminates, CanRewrite, Reads, Var
<1>5. Progress(F, Relabel(F, t))
  BY <1>1, <1>3, <1>4, RelabelProgress
<1> QED
  BY <1>1, <1>5
-----------------------------------------------------------------------------
(* promote_local_constant_arrays and rewrite_local_string_appends *)

LEMMA AliasOfItself ==
  ASSUME NEW F, NEW x
  PROVE  x \in Aliases(F, x)
BY DEF Aliases

PromotedTypes(F, promoted) == [x \in Variables(F) |-> IF x \in promoted THEN "fixed" ELSE F.types[x]]

\* A promoted array is one less to promote.
LEMMA PromoteProgress ==
  ASSUME NEW F, IsFunction(F)
  PROVE  Progress(F, PromoteArrays(F))
<1> DEFINE made == {i \in Instructions(F) :
                      /\ i.op = "call" /\ i.callee = "array" /\ i.in[1].is = "int" /\ i.in[1].val > 0
                      /\ F.types[i.dst] = "array" /\ StaysLocal(F, i.dst, i.in[1].val)}
           promoted == UNION {Aliases(F, i.dst) : i \in made}
           T == PromotedTypes(F, promoted)
           G == PromoteArrays(F)
           V == Variables(F)
<1>0. PromoteArrays(F) = [F EXCEPT !.types = T]
  BY Zenon DEF PromoteArrays, PromotedTypes, Variables
<1>1. \A i \in made : /\ i \in Instructions(F) /\ i.op = "call" /\ i.callee = "array"
                      /\ F.types[i.dst] = "array" /\ i.dst \in promoted
  BY AliasOfItself
<1>2. \A x \in promoted : \E i \in made : TRUE
  OBVIOUS
<1> HIDE DEF made, promoted, G
<1>3. F = [params |-> F.params, types |-> F.types, blocks |-> F.blocks]
  BY Blocks
<1>4. IsFiniteSet(V) /\ "" \notin V /\ F.types = [x \in V |-> F.types[x]] /\ F.params \in Seq(V)
      /\ F.blocks \in Seq(Seq(InstructionOver(V)))
  BY Zenon DEF IsFunction, Variables
<1>5. DOMAIN T = V /\ T = [x \in V |-> T[x]]
      /\ \A x \in V : T[x] = IF x \in promoted THEN "fixed" ELSE F.types[x]
  <2> DEFINE Y == F.types
  <2>1. T = [x \in V |-> IF x \in promoted THEN "fixed" ELSE Y[x]]
    BY DEF PromotedTypes
  <2>2. Y = [x \in V |-> Y[x]]
    BY <1>4
  <2> HIDE DEF T, V, Y
  <2>3. DOMAIN T = V /\ T = [x \in V |-> T[x]] /\ \A x \in V : T[x] = IF x \in promoted THEN "fixed" ELSE Y[x]
    BY <2>1, <2>2
  <2> QED
    BY <2>3 DEF Y
<1> HIDE DEF T
<1>6. G = [params |-> F.params, types |-> T, blocks |-> F.blocks]
  <2> DEFINE P == F.params
             Y == F.types
             B == F.blocks
  <2>1. F = [params |-> P, types |-> Y, blocks |-> B]
    BY <1>3
  <2> HIDE DEF P, Y, B
  <2>2. G = [params |-> P, types |-> T, blocks |-> B]
    BY <1>0, <2>1 DEF G
  <2> QED
    BY <2>2 DEF P, B
<1>7. G.params = F.params /\ G.types = T /\ G.blocks = F.blocks /\ Variables(G) = V
  BY <1>5, <1>6 DEF Variables
<1>8. IsFunction(G)
  <2>1. G = [params |-> G.params, types |-> G.types, blocks |-> G.blocks]
    BY <1>6, <1>7
  <2>2. DOMAIN G.types = V
    BY <1>5, <1>7
  <2> HIDE DEF V
  <2> QED
    BY <1>4, <1>5, <1>7, <2>1, <2>2 DEF IsFunction
<1>9. SamePlaces(F, G)
  BY <1>7, <1>8 DEF SamePlaces
<1>10. Places(G) = Places(F) /\ \A p \in Places(F) : At(G, p) = At(F, p)
  BY <1>7 DEF Places, At
<1>11. IsCut(F) => IsCut(G)
  BY <1>7, <1>10 DEF IsCut
<1>12. \A x : Definitions(G, x) = Definitions(F, x)
  BY <1>10 DEF Definitions
<1>13. ReadOnce(G) = ReadOnce(F)
  BY <1>7, <1>10, <1>12 DEF ReadOnce
<1>14. \A p \in Places(F) : At(F, p).op = "call" /\ At(F, p).callee = "array" => At(F, p).dst \in V
  BY InstructionAt, InstructionFields
<1>15. Rewritable(G) \subseteq Rewritable(F)
  <2>1. \A p \in Places(F) : CanRewrite(T, At(F, p)) => CanRewrite(F.types, At(F, p))
    BY <1>5, <1>14 DEF CanRewrite
  <2> QED
    BY <1>7, <1>10, <2>1 DEF Rewritable
<1>16. ASSUME G # F PROVE Rewritable(G) # Rewritable(F)
  <2>1. T # F.types
    BY <1>3, <1>6, <1>16
  <2>2. \E x \in V : x \in promoted
    <3>1. F.types = [x \in V |-> F.types[x]] /\ T = [x \in V |-> T[x]]
      BY <1>4, <1>5
    <3> QED
      BY <1>5, <2>1, <3>1
  <2>3. PICK i \in made : TRUE
    BY <1>2, <2>2
  <2>4. PICK p \in Places(F) : At(F, p) = i
    BY <1>1, <2>3 DEF Instructions
  <2>5. p \in Rewritable(F)
    BY <1>1, <2>3, <2>4 DEF Rewritable, CanRewrite
  <2>6. T[i.dst] = "fixed" /\ i.op = "call"
    BY <1>1, <1>5, <1>14, <2>3, <2>4
  <2>7. p \notin Rewritable(G)
    BY <1>7, <1>10, <2>4, <2>6 DEF Rewritable, CanRewrite
  <2> QED
    BY <2>5, <2>7
<1> QED
  BY <1>9, <1>11, <1>13, <1>15, <1>16, WorkShrinks DEF Progress, G

InPlaceTable(F) == [p \in Places(F) |-> GrownInPlace(F, Owned(F), p)]

LEMMA CallInstruction ==
  ASSUME NEW V, NEW x \in V, NEW c \in RuntimeCallees, NEW s \in Seq(ValueOver(V))
  PROVE  [op |-> "call", dst |-> x, callee |-> c, in |-> s] \in InstructionOver(V)
<1> DEFINE W == ValueOver(V)
<1>1. [op |-> "call", dst |-> x, callee |-> c, in |-> s]
        \in [op : {"call"}, dst : V, callee : RuntimeCallees, in : Seq(W)]
  OBVIOUS
<1> QED
  BY <1>1, Zenon DEF InstructionOver

Cleared(i) == [op |-> "call", dst |-> i.dst, callee |-> "rt_str_clear_local", in |-> <<Var(i.dst)>>]
Appended(i) == [op |-> "call", dst |-> i.dst, callee |-> "rt_str_append_local", in |-> i.in]

LEMMA InPlaceForms ==
  ASSUME NEW F, NEW owned, NEW p
  PROVE  GrownInPlace(F, owned, p) = IF Clears(F, owned, p) THEN Cleared(At(F, p))
                                ELSE IF Appends(F, owned, p) THEN Appended(At(F, p)) ELSE At(F, p)
BY Zenon DEF GrownInPlace, Cleared, Appended

LEMMA AppendIsRelabel ==
  ASSUME NEW F, IsFunction(F)
  PROVE  /\ RewriteAppends(F) = Relabel(F, InPlaceTable(F))
         /\ InPlaceTable(F) \in [Places(F) -> InstructionOver(Variables(F))]
<1> DEFINE t == InPlaceTable(F)
           owned == Owned(F)
           V == Variables(F)
           s == [b \in DOMAIN F.blocks |-> [k \in DOMAIN F.blocks[b] |-> GrownInPlace(F, owned, <<b, k>>)]]
           u == [b \in DOMAIN F.blocks |-> [k \in DOMAIN F.blocks[b] |-> t[<<b, k>>]]]
<1>1. RewriteAppends(F) = [F EXCEPT !.blocks = s]
  BY Zenon DEF RewriteAppends, Rewritten
<1>2. \A b \in DOMAIN F.blocks : \A k \in DOMAIN F.blocks[b] : t[<<b, k>>] = GrownInPlace(F, owned, <<b, k>>)
  BY PlaceOf DEF InPlaceTable
<1>0. owned \subseteq V
  BY DEF Owned, Variables
<1> HIDE DEF t, owned, V
<1>3. s = u
  BY <1>2
<1>4. Relabel(F, t) = [F EXCEPT !.blocks = u]
  BY Zenon DEF Relabel
<1>5. ASSUME NEW p \in Places(F) PROVE GrownInPlace(F, owned, p) \in InstructionOver(V)
  <2> DEFINE i == At(F, p)
  <2>0. i \in InstructionOver(V)
    BY InstructionAt DEF V
  <2>1. CASE Clears(F, owned, p)
    <3>1. i.dst \in V
      BY <1>0, <2>1 DEF Clears
    <3>2. Var(i.dst) \in ValueOver(V)
      BY <3>1 DEF Var, ValueOver
    <3>3. <<Var(i.dst)>> \in Seq(ValueOver(V))
      BY <3>2
    <3>4. "rt_str_clear_local" \in RuntimeCallees
      BY DEF RuntimeCallees
    <3>5. Cleared(i) \in InstructionOver(V)
      BY <3>1, <3>3, <3>4, CallInstruction, Zenon DEF Cleared
    <3> QED
      BY <2>1, <3>5, InPlaceForms
  <2>2. CASE Appends(F, owned, p) /\ ~ Clears(F, owned, p)
    <3>1. i.op = "concat"
      BY <2>2 DEF Appends
    <3>2. i.dst \in V /\ i.in \in [1 .. 2 -> ValueOver(V)]
      BY <2>0, <3>1, InstructionFields
    <3>3. i.in \in Seq(ValueOver(V))
      <4> DEFINE W == ValueOver(V)
      <4> HIDE DEF W
      <4>1. \A n \in Nat : [1 .. n -> W] \subseteq Seq(W)
        OBVIOUS
      <4> QED
        BY <3>2, <4>1 DEF W
    <3>4. "rt_str_append_local" \in RuntimeCallees
      BY DEF RuntimeCallees
    <3>5. Appended(i) \in InstructionOver(V)
      BY <3>2, <3>3, <3>4, CallInstruction, Zenon DEF Appended
    <3> QED
      BY <2>2, <3>5, InPlaceForms
  <2>3. CASE ~ Appends(F, owned, p) /\ ~ Clears(F, owned, p)
    BY <2>0, <2>3, InPlaceForms
  <2> QED
    BY <2>1, <2>2, <2>3
<1>6. InPlaceTable(F) \in [Places(F) -> InstructionOver(Variables(F))]
  BY <1>5 DEF InPlaceTable, owned, V
<1> QED
  BY <1>1, <1>3, <1>4, <1>6 DEF t

\* A variable is cleared only where it has been set before: the clearing reads no
\* variable with one definition.
LEMMA AppendProgress ==
  ASSUME NEW F, IsFunction(F)
  PROVE  Progress(F, RewriteAppends(F))
<1> DEFINE t == InPlaceTable(F)
           owned == Owned(F)
<1>1. t \in [Places(F) -> InstructionOver(Variables(F))] /\ RewriteAppends(F) = Relabel(F, t)
  BY AppendIsRelabel
<1>2. ASSUME NEW p \in Places(F)
      PROVE  t[p] = IF Clears(F, owned, p) THEN Cleared(At(F, p))
                    ELSE IF Appends(F, owned, p) THEN Appended(At(F, p)) ELSE At(F, p)
  BY <1>1, InPlaceForms DEF InPlaceTable
<1> HIDE DEF t, owned
<1>3. ASSUME NEW p \in Places(F), Clears(F, owned, p)
      PROVE  /\ t[p].dst = At(F, p).dst
             /\ ~ Terminates(t[p]) /\ ~ Terminates(At(F, p))
             /\ ~ CanRewrite(F.types, t[p]) /\ CanRewrite(F.types, At(F, p))
             /\ \A x : Reads(t[p], x) => ~ \E q \in Places(F) : Definitions(F, x) = {q}
  <2>1. At(F, p).op = "move" /\ At(F, p).in[1] = Quoted(<<>>)
        /\ \E q \in Definitions(F, At(F, p).dst) : Before(q, p)
    BY <1>3 DEF Clears
  <2>2. t[p] = Cleared(At(F, p))
    BY <1>2, <1>3
  <2>3. t[p].op = "call" /\ t[p].callee = "rt_str_clear_local" /\ t[p].dst = At(F, p).dst
        /\ t[p].in = <<Var(At(F, p).dst)>>
    BY <2>2 DEF Cleared
  <2>4. At(F, p).in[1].is = "str"
    BY <2>1 DEF Quoted
  <2>5. ASSUME NEW x, Reads(t[p], x) PROVE ~ \E q \in Places(F) : Definitions(F, x) = {q}
    <3>1. PICK k \in DOMAIN t[p].in : t[p].in[k] = Var(x)
      BY <2>5 DEF Reads
    <3>2. Var(At(F, p).dst) = Var(x)
      BY <2>3, <3>1
    <3>3. x = At(F, p).dst
      BY <3>2 DEF Var
    <3>4. p \in Definitions(F, x)
      BY <3>3 DEF Definitions
    <3>5. PICK q \in Definitions(F, x) : Before(q, p)
      BY <2>1, <3>3
    <3>6. ~ Before(p, p)
      <4>1. p[1] \in DOMAIN F.blocks /\ p[2] \in DOMAIN F.blocks[p[1]]
        BY PlaceParts
      <4>2. p[1] \in Int /\ p[2] \in Int
        BY <4>1, Blocks
      <4> QED
        BY <4>2 DEF Before
    <3>7. q # p
      BY <3>5, <3>6
    <3> QED
      BY <3>4, <3>7
  <2> QED
    BY <2>1, <2>3, <2>4, <2>5 DEF Terminates, CanRewrite
<1>4. ASSUME NEW p \in Places(F), Appends(F, owned, p), ~ Clears(F, owned, p)
      PROVE  /\ t[p].dst = At(F, p).dst
             /\ ~ Terminates(t[p]) /\ ~ Terminates(At(F, p))
             /\ ~ CanRewrite(F.types, t[p]) /\ CanRewrite(F.types, At(F, p))
             /\ \A x : Reads(t[p], x) => Reads(At(F, p), x)
  <2>1. At(F, p).op = "concat"
    BY <1>4 DEF Appends
  <2>2. t[p] = Appended(At(F, p))
    BY <1>2, <1>4
  <2>3. t[p].op = "call" /\ t[p].callee = "rt_str_append_local" /\ t[p].dst = At(F, p).dst
        /\ t[p].in = At(F, p).in
    BY <2>2 DEF Appended
  <2> QED
    BY <2>1, <2>3 DEF Terminates, CanRewrite, Reads
<1>5. ASSUME NEW p \in Places(F), ~ Appends(F, owned, p), ~ Clears(F, owned, p) PROVE t[p] = At(F, p)
  BY <1>2, <1>5
<1>6. Progress(F, Relabel(F, t))
  BY <1>1, <1>3, <1>4, <1>5, RelabelProgress
<1> QED
  BY <1>1, <1>6
-----------------------------------------------------------------------------
(* eliminate_dead_code and remove_unused_variables *)

\* A block ends with its first instruction that leaves it.
LEMMA CutBlock ==
  ASSUME NEW S, NEW s \in Seq(S)
  PROVE  /\ Cut(s) \in Seq(S)
         /\ DOMAIN Cut(s) \subseteq DOMAIN s
         /\ \A k \in DOMAIN Cut(s) : Cut(s)[k] = s[k]
         /\ \A k \in DOMAIN Cut(s) : Terminates(Cut(s)[k]) => k = Len(Cut(s))
         /\ \A k \in DOMAIN s : k \in DOMAIN Cut(s) \/ \E j \in DOMAIN Cut(s) : j < k /\ Terminates(s[j])
         /\ (\A k \in DOMAIN s : Terminates(s[k]) => k = Len(s)) => Cut(s) = s
<1> DEFINE ends == {k \in DOMAIN s : Terminates(s[k])}
<1>0. DOMAIN s = 1 .. Len(s) /\ Len(s) \in Nat
  OBVIOUS
<1>1. CASE ends = {}
  <2>1. Cut(s) = s
    BY <1>1, Zenon DEF Cut
  <2> QED
    BY <1>1, <2>1
<1>2. CASE ends # {}
  <2>1. Cut(s) = SubSeq(s, 1, Min(ends))
    BY <1>2, Zenon DEF Cut
  <2>2. ends \in SUBSET Nat
    BY <1>0
  <2>3. \E x \in ends : \A y \in ends : x <= y
    BY <1>2, <2>2, SmallestOf
  <2> DEFINE m == Min(ends)
  <2>4. m \in ends /\ \A y \in ends : m <= y
    BY <2>3, Zenon DEF Min
  <2>5. \A k \in DOMAIN s : k \in ends <=> Terminates(s[k])
    OBVIOUS
  <2> HIDE DEF m
  <2>6. m \in 1 .. Len(s) /\ Terminates(s[m]) /\ m \in Nat
    BY <1>0, <2>4
  <2>7. Cut(s) \in Seq(S) /\ Len(Cut(s)) = m /\ DOMAIN Cut(s) = 1 .. m
        /\ \A k \in 1 .. m : Cut(s)[k] = s[k]
    <3>1. Cut(s) = SubSeq(s, 1, m)
      BY <2>1 DEF m
    <3>2. SubSeq(s, 1, m) \in Seq(S)
      BY <2>6
    <3>3. Len(SubSeq(s, 1, m)) = m
      BY <2>6
    <3>4. \A k \in 1 .. m : SubSeq(s, 1, m)[k] = s[k]
      BY <2>6
    <3> QED
      BY <3>1, <3>2, <3>3, <3>4
  <2>8. \A k \in 1 .. m : Terminates(s[k]) => k = m
    BY <1>0, <2>4, <2>5, <2>6
  <2>9. \A k \in DOMAIN s : k \in 1 .. m \/ (m \in 1 .. m /\ m < k)
    BY <1>0, <2>6
  <2>10. ASSUME m = Len(s) PROVE Cut(s) = s
    <3>1. s = [k \in 1 .. m |-> s[k]]
      BY <2>10
    <3>2. Cut(s) = [k \in 1 .. m |-> Cut(s)[k]]
      BY <2>7
    <3> QED
      BY <2>7, <3>1, <3>2
  <2>11. (\A k \in DOMAIN s : Terminates(s[k]) => k = Len(s)) => Cut(s) = s
    BY <1>0, <2>6, <2>10
  <2>12. DOMAIN Cut(s) \subseteq DOMAIN s
    BY <1>0, <2>6, <2>7
  <2> QED
    BY <2>6, <2>7, <2>8, <2>9, <2>11, <2>12
<1> QED
  BY <1>1, <1>2

\* G is F with shorter blocks, each cut behind what leaves it.
LEMMA DeadEliminated ==
  ASSUME NEW F, IsFunction(F), NEW G, G = EliminateDead(F)
  PROVE  /\ IsFunction(G) /\ G.types = F.types /\ G.params = F.params /\ IsCut(G)
         /\ DOMAIN G.blocks = DOMAIN F.blocks
         /\ \A b \in DOMAIN F.blocks : G.blocks[b] = Cut(F.blocks[b])
         /\ Places(G) \subseteq Places(F)
         /\ \A p \in Places(G) : At(G, p) = At(F, p)
         /\ IsCut(F) => G = F
<1> DEFINE I == InstructionOver(Variables(F))
           B == F.blocks
           C == [b \in DOMAIN B |-> Cut(B[b])]
           P == F.params
           T == F.types
<1>1. F = [params |-> P, types |-> T, blocks |-> B]
  BY Blocks
<1>2. B \in Seq(Seq(I)) /\ P \in Seq(DOMAIN T) /\ IsFiniteSet(DOMAIN T) /\ "" \notin DOMAIN T /\ T = [x \in DOMAIN T |-> T[x]]
      /\ DOMAIN T = Variables(F)
  BY Zenon DEF IsFunction, Variables
<1>3. G = [F EXCEPT !.blocks = C]
  BY Zenon DEF EliminateDead
<1> HIDE DEF I, B, C, P, T
<1>4. G = [params |-> P, types |-> T, blocks |-> C]
  BY <1>1, <1>3
<1>5. G.params = P /\ G.types = T /\ G.blocks = C
  BY <1>4
<1>0. B \in Seq(Seq(I))
  BY <1>2
<1>6. DOMAIN B = 1 .. Len(B) /\ Len(B) \in Nat /\ \A b \in DOMAIN B : B[b] \in Seq(I)
  BY <1>0
<1>7. DOMAIN C = DOMAIN B /\ \A b \in DOMAIN B : C[b] = Cut(B[b])
  BY DEF C
<1>8. \A b \in DOMAIN B :
        /\ C[b] \in Seq(I) /\ DOMAIN C[b] \subseteq DOMAIN B[b]
        /\ \A k \in DOMAIN C[b] : C[b][k] = B[b][k]
        /\ \A k \in DOMAIN C[b] : Terminates(C[b][k]) => k = Len(C[b])
        /\ (\A k \in DOMAIN B[b] : Terminates(B[b][k]) => k = Len(B[b])) => C[b] = B[b]
  BY <1>6, <1>7, CutBlock
<1>9. C \in Seq(Seq(I))
  <2>1. C = [b \in 1 .. Len(B) |-> C[b]]
    BY <1>6, <1>7 DEF C
  <2> QED
    BY <1>6, <1>7, <1>8, <2>1
<1>10. IsFunction(G)
  <2>1. G = [params |-> G.params, types |-> G.types, blocks |-> G.blocks]
    BY <1>4, <1>5
  <2>2. InstructionOver(DOMAIN G.types) = I
    BY <1>2, <1>5 DEF I
  <2> QED
    BY <1>2, <1>5, <1>9, <2>1, <2>2, Zenon DEF IsFunction
<1>11. Places(G) \subseteq Places(F) /\ \A p \in Places(G) : At(G, p) = At(F, p)
  <2> SUFFICES ASSUME NEW p \in Places(G) PROVE p \in Places(F) /\ At(G, p) = At(F, p)
    OBVIOUS
  <2>1. p[1] \in DOMAIN C /\ p[2] \in DOMAIN C[p[1]] /\ p = <<p[1], p[2]>>
    BY <1>5, PlaceParts
  <2>2. p[1] \in DOMAIN B /\ p[2] \in DOMAIN B[p[1]] /\ C[p[1]][p[2]] = B[p[1]][p[2]]
    BY <1>7, <1>8, <2>1
  <2>3. p \in Places(F)
    BY <2>1, <2>2, PlaceOf DEF B
  <2> QED
    BY <1>5, <2>2, <2>3 DEF At, B
<1>12. IsCut(G)
  <2> SUFFICES ASSUME NEW p \in Places(G), Terminates(At(G, p)) PROVE p[2] = Len(G.blocks[p[1]])
    BY DEF IsCut
  <2>1. p[1] \in DOMAIN C /\ p[2] \in DOMAIN C[p[1]]
    BY <1>5, PlaceParts
  <2> QED
    BY <1>5, <1>7, <1>8, <2>1 DEF At
<1>13. ASSUME IsCut(F) PROVE G = F
  <2>1. ASSUME NEW b \in DOMAIN B, NEW k \in DOMAIN B[b], Terminates(B[b][k]) PROVE k = Len(B[b])
    <3>1. <<b, k>> \in Places(F)
      BY PlaceOf DEF B
    <3>2. At(F, <<b, k>>) = B[b][k]
      BY DEF At, B
    <3>3. <<b, k>>[2] = Len(F.blocks[<<b, k>>[1]])
      BY <1>13, <2>1, <3>1, <3>2 DEF IsCut
    <3> QED
      BY <3>3 DEF B
  <2>2. \A b \in DOMAIN B : C[b] = B[b]
    BY <1>8, <2>1
  <2>3. B = [b \in DOMAIN B |-> B[b]] /\ C = [b \in DOMAIN B |-> C[b]]
    BY <1>0, <1>7 DEF C
  <2>4. C = B
    BY <2>2, <2>3
  <2> QED
    BY <1>1, <1>4, <2>4
<1> QED
  BY <1>5, <1>7, <1>10, <1>11, <1>12, <1>13 DEF B, P, T

\* Every place picked, the sequence is what it was.
LEMMA PickedAll ==
  ASSUME NEW S, NEW s \in Seq(S)
  PROVE  Picked(s, DOMAIN s) = s
<1>1. DOMAIN s = 1 .. Len(s) /\ Len(s) \in Nat
  OBVIOUS
<1> DEFINE K == DOMAIN s
           C(n) == CHOOSE k \in K : Cardinality({j \in K : j <= k}) = n
<1>2. \A m \in Nat : Cardinality(1 .. m) = m
  BY FS_Interval
<1>3. ASSUME NEW k \in K PROVE Cardinality({j \in K : j <= k}) = k
  <2>1. {j \in K : j <= k} = 1 .. k /\ k \in Nat
    BY <1>1
  <2> QED
    BY <1>2, <2>1
<1>4. ASSUME NEW n \in K PROVE C(n) = n
  <2>1. \E k \in K : Cardinality({j \in K : j <= k}) = n
    BY <1>3
  <2>2. C(n) \in K /\ Cardinality({j \in K : j <= C(n)}) = n
    BY <2>1, Zenon
  <2> HIDE DEF C
  <2> QED
    BY <1>3, <2>2
<1>5. Cardinality(K) = Len(s)
  BY <1>1, <1>2
<1>6. Picked(s, K) = [n \in 1 .. Cardinality(K) |-> s[C(n)]]
  BY Zenon DEF Picked
<1> HIDE DEF C, K
<1>7. Picked(s, K) = [n \in 1 .. Len(s) |-> s[n]]
  BY <1>1, <1>4, <1>5, <1>6 DEF K
<1>8. s = [n \in 1 .. Len(s) |-> s[n]]
  OBVIOUS
<1> QED
  BY <1>7, <1>8 DEF K

\* Every variable has a type: no instruction is unused.
LEMMA NothingUnused ==
  ASSUME NEW F, IsFunction(F)
  PROVE  RemoveUnused(F) = F
<1> DEFINE B == F.blocks
           U(b) == {k \in DOMAIN B[b] : ~ Unused(F, B[b][k])}
           C == [b \in DOMAIN B |-> Picked(B[b], U(b))]
<1>1. RemoveUnused(F) = [F EXCEPT !.blocks = C]
  BY Zenon DEF RemoveUnused
<1>2. ASSUME NEW b \in DOMAIN B PROVE Picked(B[b], U(b)) = B[b]
  <2>1. ASSUME NEW k \in DOMAIN B[b] PROVE ~ Unused(F, B[b][k])
    <3>1. B[b][k] \in InstructionOver(Variables(F))
      BY Blocks
    <3> QED
      BY <3>1, InstructionFields DEF Unused, Variables
  <2>2. U(b) = DOMAIN B[b]
    BY <2>1
  <2>3. B[b] \in Seq(InstructionOver(Variables(F)))
    BY Blocks
  <2> QED
    BY <2>2, <2>3, PickedAll
<1> HIDE DEF U
<1>3. B = [b \in DOMAIN B |-> B[b]]
  <2>1. B \in Seq(Seq(InstructionOver(Variables(F))))
    BY Zenon DEF IsFunction, Variables
  <2> QED
    BY <2>1
<1>4. C = B
  BY <1>2, <1>3
<1>5. RemoveUnused(F) = [F EXCEPT !.blocks = B]
  BY <1>1, <1>4, Zenon
<1>6. F = [params |-> F.params, types |-> F.types, blocks |-> B]
  BY Blocks
<1> HIDE DEF B, C
<1>7. [F EXCEPT !.blocks = B] = F
  <2> DEFINE P == F.params
             T == F.types
  <2>1. F = [params |-> P, types |-> T, blocks |-> B]
    BY <1>6
  <2> HIDE DEF P, T
  <2> QED
    BY <2>1
<1> QED
  BY <1>5, <1>7
-----------------------------------------------------------------------------
(* The passes come to rest *)

MaxWork == Cardinality(Places(original)) + Cardinality(Variables(original))

\* The function keeps its variables and never gets a new place; from the second round
\* on no block goes on after its end, and every round but the last uses up some work.
OptInv ==
  /\ IsFunction(original) /\ IsFunction(func)
  /\ Variables(func) = Variables(original) /\ Places(func) \subseteq Places(original)
  /\ pass \in 0 .. 7 /\ changed \in BOOLEAN /\ round \in Nat \ {0}
  /\ round > 1 \/ pass > 5 => IsCut(func)
  /\ round > 1 => round + Cardinality(Work(func)) + (IF changed THEN 1 ELSE 0) <= 2 + MaxWork

LEMMA WorkBounded ==
  ASSUME NEW F, IsFunction(F), NEW O, IsFunction(O),
         Variables(F) = Variables(O), Places(F) \subseteq Places(O)
  PROVE  /\ IsFiniteSet(Work(F)) /\ Cardinality(Work(F)) \in Nat
         /\ Cardinality(Work(F)) <= Cardinality(Places(O)) + Cardinality(Variables(O))
         /\ Cardinality(Places(O)) \in Nat /\ Cardinality(Variables(O)) \in Nat
<1> DEFINE A == {0} \X Variables(O)
           B == {1} \X Places(O)
           P == Places(O)
           V == Variables(O)
<1>1. IsFiniteSet(P) /\ IsFiniteSet(V)
  BY PlacesFinite, Zenon DEF IsFunction, Variables
<1>2. IsFiniteSet({0}) /\ Cardinality({0}) = 1 /\ IsFiniteSet({1}) /\ Cardinality({1}) = 1
  BY FS_Singleton
<1>3. Cardinality(P) \in Nat /\ Cardinality(V) \in Nat
  BY <1>1, FS_CardinalityType
<1>4. IsFiniteSet(A) /\ Cardinality(A) = 1 * Cardinality(V)
  BY <1>1, <1>2, FS_Product
<1>5. IsFiniteSet(B) /\ Cardinality(B) = 1 * Cardinality(P)
  BY <1>1, <1>2, FS_Product
<1>6. A \cap B = {}
  OBVIOUS
<1>7. Work(F) \subseteq A \cup B
  BY DEF Work, ReadOnce, Rewritable
<1> HIDE DEF A, B, P, V
<1>8. IsFiniteSet(A \cup B)
      /\ Cardinality(A \cup B) = Cardinality(A) + Cardinality(B) - Cardinality(A \cap B)
  BY <1>4, <1>5, FS_Union
<1>9. Cardinality(A \cap B) = 0
  BY <1>6, FS_EmptySet
<1>10. IsFiniteSet(Work(F)) /\ Cardinality(Work(F)) <= Cardinality(A \cup B)
  BY <1>7, <1>8, FS_Subset
<1>11. Cardinality(Work(F)) \in Nat
  BY <1>10, FS_CardinalityType
<1>12. Cardinality(A \cup B) = Cardinality(P) + Cardinality(V)
  BY <1>3, <1>4, <1>5, <1>8, <1>9
<1> QED
  BY <1>3, <1>10, <1>11, <1>12 DEF P, V

LEMMA ProgressCounts ==
  ASSUME NEW F, IsFunction(F), NEW G, Progress(F, G), G # F
  PROVE  Cardinality(Work(G)) + 1 <= Cardinality(Work(F))
<1>1. Work(G) \subseteq Work(F) /\ Work(G) # Work(F)
  BY DEF Progress
<1>2. IsFiniteSet(Work(F)) /\ Cardinality(Work(F)) \in Nat
  BY WorkBounded
<1>3. Cardinality(Work(G)) <= Cardinality(Work(F)) /\ IsFiniteSet(Work(G))
      /\ (Cardinality(Work(F)) = Cardinality(Work(G)) => Work(F) = Work(G))
  BY <1>1, <1>2, FS_Subset
<1>4. Cardinality(Work(G)) \in Nat
  BY <1>3, FS_CardinalityType
<1> DEFINE m == Cardinality(Work(G))
           n == Cardinality(Work(F))
<1>5. m <= n /\ m # n /\ m \in Nat /\ n \in Nat
  BY <1>1, <1>2, <1>3, <1>4
<1> HIDE DEF m, n
<1>6. m + 1 <= n
  BY <1>5
<1> QED
  BY <1>6 DEF m, n

LEMMA OptInitInv == OptInit => OptInv
<1> SUFFICES ASSUME OptInit PROVE OptInv
  OBVIOUS
<1>1. IsFunction(original) /\ func = original
  BY FunctionsAssumption DEF OptInit
<1>2. pass = 1 /\ changed = FALSE /\ round = 1
  BY DEF OptInit
<1>3. pass \in 0 .. 7 /\ changed \in BOOLEAN /\ round \in Nat \ {0} /\ ~ (round > 1 \/ pass > 5)
  <2>1. changed \in BOOLEAN
    BY <1>2, Zenon
  <2> QED
    BY <1>2, <2>1
<1> QED
  BY <1>1, <1>3, Zenon DEF OptInv

\* A pass that makes progress keeps the invariant.
LEMMA ProgressKeeps ==
  ASSUME OptInv, NEW New, Progress(func, New),
         func' = New, changed' = (changed \/ New # func), pass \in 1 .. 6, pass' = pass + 1,
         original' = original, round' = round, pass # 5
  PROVE  OptInv'
<1> DEFINE W == Cardinality(Work(func))
           X == Cardinality(Work(New))
           M == MaxWork
<1>1. IsFunction(New) /\ Variables(New) = Variables(func) /\ Places(New) = Places(func)
  BY SamePlacesPlaces DEF Progress, SamePlaces
<1>2. IsFunction(func)' /\ (Variables(func) = Variables(original))'
      /\ (Places(func) \subseteq Places(original))' /\ IsFunction(original)'
  BY <1>1 DEF OptInv
<1>3. (pass \in 0 .. 7)' /\ (changed \in BOOLEAN)' /\ (round \in Nat \ {0})'
  BY DEF OptInv
<1>4. (round > 1 \/ pass > 5 => IsCut(func))'
  <2>1. round > 1 \/ pass > 5 => IsCut(New)
    BY DEF OptInv, Progress
  <2> QED
    BY <2>1 DEF OptInv
<1>5. ASSUME round > 1 PROVE round + X + (IF changed' THEN 1 ELSE 0) <= 2 + M
  <2>1. round + W + (IF changed THEN 1 ELSE 0) <= 2 + M
    BY <1>5 DEF OptInv
  <2>2. W \in Nat /\ X \in Nat /\ M \in Nat /\ round \in Nat
    BY <1>1, WorkBounded DEF OptInv, MaxWork
  <2>3. New = func => X = W
    OBVIOUS
  <2>4. New # func => X + 1 <= W
    BY ProgressCounts DEF OptInv
  <2> HIDE DEF W, X, M
  <2>5. CASE New = func
    BY <2>1, <2>3, <2>5
  <2>6. CASE New # func
    BY <2>1, <2>2, <2>4, <2>6
  <2> QED
    BY <2>5, <2>6
<1>6. (round > 1 => round + Cardinality(Work(func)) + (IF changed THEN 1 ELSE 0) <= 2 + MaxWork)'
  <2>1. MaxWork' = MaxWork
    BY DEF MaxWork, Variables, Places
  <2> QED
    BY <1>5, <2>1
<1> QED
  BY <1>2, <1>3, <1>4, <1>6, Zenon DEF OptInv

\* A pass that changes nothing makes progress.
LEMMA NoChange ==
  ASSUME NEW F, IsFunction(F)
  PROVE  Progress(F, F)
BY DEF Progress, SamePlaces

LEMMA OptStepInv == OptInv /\ [OptNext]_optVars => OptInv'
<1> SUFFICES ASSUME OptInv, [OptNext]_optVars PROVE OptInv'
  OBVIOUS
<1>0. IsFunction(func) /\ Passes = <<"propagate", "fold", "promote", "append", "dead", "unused">>
      /\ DOMAIN Passes = 1 .. 6 /\ Len(Passes) = 6
  BY DEF OptInv, Passes
<1>1. CASE Apply("propagate", PropagateConstants(func))
  <2>1. pass \in 1 .. 6 /\ pass # 5
    BY <1>0, <1>1 DEF Apply
  <2> QED
    BY <1>0, <1>1, <2>1, PropagateProgress, ProgressKeeps DEF Apply
<1>2. CASE Apply("fold", FoldConstants(func))
  <2>1. pass \in 1 .. 6 /\ pass # 5
    BY <1>0, <1>2 DEF Apply
  <2> QED
    BY <1>0, <1>2, <2>1, FoldProgress, ProgressKeeps DEF Apply
<1>3. CASE Apply("promote", PromoteArrays(func))
  <2>1. pass \in 1 .. 6 /\ pass # 5
    BY <1>0, <1>3 DEF Apply
  <2> QED
    BY <1>0, <1>3, <2>1, PromoteProgress, ProgressKeeps DEF Apply
<1>4. CASE Apply("append", RewriteAppends(func))
  <2>1. pass \in 1 .. 6 /\ pass # 5
    BY <1>0, <1>4 DEF Apply
  <2> QED
    BY <1>0, <1>4, <2>1, AppendProgress, ProgressKeeps DEF Apply
<1>5. CASE Apply("dead", EliminateDead(func))
  <2> DEFINE G == EliminateDead(func)
  <2>1. func' = G /\ changed' = (changed \/ G # func) /\ pass \in 1 .. 6 /\ pass' = pass + 1
        /\ original' = original /\ round' = round
    BY <1>0, <1>5 DEF Apply
  <2>2. IsFunction(G) /\ G.types = func.types /\ IsCut(G) /\ Places(G) \subseteq Places(func)
        /\ (IsCut(func) => G = func)
    BY <1>0, DeadEliminated
  <2>3. IsFunction(func)' /\ (Variables(func) = Variables(original))'
        /\ (Places(func) \subseteq Places(original))' /\ IsFunction(original)'
    BY <2>1, <2>2 DEF OptInv, Variables
  <2>4. (pass \in 0 .. 7)' /\ (changed \in BOOLEAN)' /\ (round \in Nat \ {0})'
    BY <2>1 DEF OptInv
  <2>5. (round > 1 \/ pass > 5 => IsCut(func))'
    BY <2>1, <2>2
  <2>6. (round > 1 => round + Cardinality(Work(func)) + (IF changed THEN 1 ELSE 0) <= 2 + MaxWork)'
    <3> SUFFICES ASSUME round > 1
                 PROVE  round + Cardinality(Work(G)) + (IF changed' THEN 1 ELSE 0) <= 2 + MaxWork
      <4>1. MaxWork' = MaxWork
        BY <2>1 DEF MaxWork, Variables, Places
      <4> QED
        BY <2>1, <4>1
    <3>1. G = func
      BY <2>2 DEF OptInv
    <3>2. changed' = changed
      BY <2>1, <3>1 DEF OptInv
    <3> QED
      BY <3>1, <3>2 DEF OptInv
  <2> QED
    BY <2>3, <2>4, <2>5, <2>6, Zenon DEF OptInv
<1>6. CASE Apply("unused", RemoveUnused(func))
  <2>1. pass \in 1 .. 6 /\ pass # 5
    BY <1>0, <1>6 DEF Apply
  <2>2. Progress(func, RemoveUnused(func))
    BY <1>0, NothingUnused, NoChange
  <2> QED
    BY <1>0, <1>6, <2>1, <2>2, ProgressKeeps DEF Apply
<1>7. CASE Again
  <2>1. pass = 7 /\ original' = original /\ func' = func
    BY <1>0, <1>7 DEF Again
  <2>2. IsCut(func)
    BY <2>1 DEF OptInv
  <2>3. IsFunction(func)' /\ (Variables(func) = Variables(original))'
        /\ (Places(func) \subseteq Places(original))' /\ IsFunction(original)'
        /\ IsCut(func)'
    BY <2>1, <2>2 DEF OptInv
  <2>4. (pass \in 0 .. 7)' /\ (changed \in BOOLEAN)' /\ (round \in Nat \ {0})'
    <3>1. round \in Nat \ {0} /\ changed \in BOOLEAN
      BY DEF OptInv
    <3>2. CASE changed
      <4>1. pass' = 1 /\ changed' = FALSE /\ round' = round + 1
        BY <1>7, <3>2 DEF Again
      <4>2. changed' \in BOOLEAN
        BY <4>1, Zenon
      <4> QED
        BY <3>1, <4>1, <4>2
    <3>3. CASE ~ changed
      <4>1. pass' = 0 /\ changed' = changed /\ round' = round
        BY <1>7, <3>3 DEF Again
      <4> QED
        BY <3>1, <4>1
    <3> QED
      BY <3>2, <3>3
  <2>5. (round > 1 => round + Cardinality(Work(func)) + (IF changed THEN 1 ELSE 0) <= 2 + MaxWork)'
    <3> DEFINE W == Cardinality(Work(func))
               M == MaxWork
    <3>1. MaxWork' = MaxWork /\ Cardinality(Work(func))' = W
      BY <2>1 DEF MaxWork, Variables, Places
    <3>2. W \in Nat /\ M \in Nat /\ W <= M /\ round \in Nat \ {0}
      BY WorkBounded DEF OptInv, MaxWork
    <3>3. round > 1 => round + W + (IF changed THEN 1 ELSE 0) <= 2 + M
      BY DEF OptInv
    <3> SUFFICES round' > 1 => round' + W + (IF changed' THEN 1 ELSE 0) <= 2 + M
      BY <3>1
    <3> HIDE DEF W, M
    <3>4. CASE changed
      <4>1. round' = round + 1 /\ changed' = FALSE
        BY <1>7, <3>4 DEF Again
      <4>2. round = 1 \/ round > 1
        BY <3>2
      <4> QED
        BY <3>2, <3>3, <3>4, <4>1, <4>2
    <3>5. CASE ~ changed
      <4>1. round' = round /\ changed' = changed
        BY <1>7, <3>5 DEF Again
      <4> QED
        BY <3>3, <4>1
    <3> QED
      BY <3>4, <3>5
  <2> QED
    BY <2>3, <2>4, <2>5, Zenon DEF OptInv
<1>8. CASE UNCHANGED optVars
  BY <1>8 DEF OptInv, optVars, MaxWork, Variables, Places
<1> QED
  BY <1>1, <1>2, <1>3, <1>4, <1>5, <1>6, <1>7, <1>8 DEF OptNext

\* The passes come to rest after a number of rounds that the places and the variables of
\* the function bound, whatever the function is (optimize's loop in opt.rs ends).
THEOREM OptimizerAlwaysStops == OptSpec => []OptimizerStops
<1>1. OptInv => OptimizerStops
  <2> SUFFICES ASSUME OptInv PROVE OptimizerStops
    OBVIOUS
  <2> DEFINE W == Cardinality(Work(func))
             A == Cardinality(Places(original))
             B == Cardinality(Variables(original))
  <2>1. W \in Nat /\ A \in Nat /\ B \in Nat /\ round \in Nat \ {0}
    BY WorkBounded DEF OptInv
  <2>2. round > 1 => round + W + (IF changed THEN 1 ELSE 0) <= 2 + (A + B)
    BY DEF OptInv, MaxWork
  <2> HIDE DEF W, A, B
  <2>3. round <= 2 + A + B
    BY <2>1, <2>2
  <2> QED
    BY <2>3 DEF OptimizerStops, A, B, Variables
<1> QED
  BY <1>1, OptInitInv, OptStepInv, PTL DEF OptSpec
-----------------------------------------------------------------------------
(* What an instruction changes *)

\* What an instruction that sets no variable has for one.
NoVar == ""

IsState(V, r) ==
  /\ r = [env |-> r.env, store |-> r.store, frame |-> r.frame, out |-> r.out, at |-> r.at, end |-> r.end]
  /\ r.env = [x \in V |-> r.env[x]]
  /\ r.at \in Nat \X Nat

\* s is where r is, and at most the variable x is set.
Kept(V, r, s, x) ==
  /\ IsState(V, s) /\ s.at = r.at /\ s.end = r.end
  /\ \A y \in V \ {x} : s.env[y] = r.env[y]

LEMMA StoreKept ==
  ASSUME NEW V, NEW r, IsState(V, r), NEW S, NEW f
  PROVE  /\ Kept(V, r, [r EXCEPT !.store = S], NoVar) /\ [r EXCEPT !.store = S].env = r.env
         /\ Kept(V, r, [r EXCEPT !.frame = f], NoVar) /\ [r EXCEPT !.frame = f].env = r.env
         /\ Kept(V, r, [r EXCEPT !.out = f], NoVar) /\ [r EXCEPT !.out = f].env = r.env
<1> DEFINE e == r.env
           o == r.out
           g == r.frame
           w == r.store
           p == r.at
           q == r.end
<1>1. r = [env |-> e, store |-> w, frame |-> g, out |-> o, at |-> p, end |-> q]
      /\ e = [x \in V |-> e[x]] /\ p \in Nat \X Nat
  BY DEF IsState
<1> HIDE DEF e, o, g, w, p, q
<1>2. [r EXCEPT !.store = S] = [env |-> e, store |-> S, frame |-> g, out |-> o, at |-> p, end |-> q]
  BY <1>1
<1>3. [r EXCEPT !.frame = f] = [env |-> e, store |-> w, frame |-> f, out |-> o, at |-> p, end |-> q]
  BY <1>1
<1>4. [r EXCEPT !.out = f] = [env |-> e, store |-> w, frame |-> g, out |-> f, at |-> p, end |-> q]
  BY <1>1
<1> QED
  BY <1>1, <1>2, <1>3, <1>4 DEF Kept, IsState, e, p, q

LEMMA SetKept ==
  ASSUME NEW V, NoVar \notin V, NEW r, IsState(V, r), NEW x \in V \cup {NoVar}, NEW v
  PROVE  /\ Kept(V, r, Set(r, x, v), x)
         /\ x \in V => Set(r, x, v).env[x] = v
         /\ Set(r, x, v).store = r.store /\ Set(r, x, v).frame = r.frame
<1>1. CASE x = NoVar
  <2>1. Set(r, x, v) = r
    BY <1>1 DEF Set, NoVar
  <2> QED
    BY <1>1, <2>1 DEF Kept
<1>2. CASE x # NoVar
  <2> DEFINE e == r.env
             o == r.out
             g == r.frame
             w == r.store
             p == r.at
             q == r.end
             d == [e EXCEPT ![x] = v]
  <2>1. r = [env |-> e, store |-> w, frame |-> g, out |-> o, at |-> p, end |-> q]
        /\ e = [y \in V |-> e[y]] /\ p \in Nat \X Nat
    BY DEF IsState
  <2>2. Set(r, x, v) = [r EXCEPT !.env = d]
    BY <1>2 DEF Set, NoVar
  <2> HIDE DEF e, o, g, w, p, q
  <2>3. d = [y \in V |-> d[y]] /\ d[x] = v /\ \A y \in V \ {x} : d[y] = e[y]
    BY <1>2, <2>1
  <2> HIDE DEF d
  <2>4. Set(r, x, v) = [env |-> d, store |-> w, frame |-> g, out |-> o, at |-> p, end |-> q]
    BY <2>1, <2>2
  <2> DEFINE s == Set(r, x, v)
  <2>0. s = [env |-> d, store |-> w, frame |-> g, out |-> o, at |-> p, end |-> q]
    BY <2>4
  <2> HIDE DEF s
  <2>5. s.env = d /\ s.at = p /\ s.end = q /\ s.store = w /\ s.frame = g /\ s.out = o
    BY <2>0
  <2>6. IsState(V, s)
    <3>1. s = [env |-> s.env, store |-> s.store, frame |-> s.frame, out |-> s.out, at |-> s.at, end |-> s.end]
      BY <2>0, <2>5
    <3>2. s.env = [y \in V |-> s.env[y]]
      BY <2>3, <2>5
    <3> QED
      BY <2>1, <2>5, <3>1, <3>2 DEF IsState
  <2>7. x \in V => s.env[x] = v
    BY <2>3, <2>5
  <2>8. Kept(V, r, s, x)
    BY <2>3, <2>5, <2>6 DEF Kept, e, p, q
  <2> QED
    BY <2>5, <2>7, <2>8 DEF s, w, g
<1> QED
  BY <1>1, <1>2

LEMMA KeptTwice ==
  ASSUME NEW V, NEW r, NEW s, NEW u, NEW x, NEW y, Kept(V, r, s, x), Kept(V, s, u, y),
         y = x \/ x \notin V \/ y \notin V
  PROVE  /\ x \notin V => Kept(V, r, u, y)
         /\ y \notin V => Kept(V, r, u, x)
         /\ x = y => Kept(V, r, u, x)
BY DEF Kept

LEMMA AllocateKept ==
  ASSUME NEW V, NoVar \notin V, NEW r, IsState(V, r), NEW x \in V \cup {NoVar}, NEW o
  PROVE  Kept(V, r, Allocate(r, x, o), x)
<1> DEFINE s == [r EXCEPT !.store = Append(r.store, o)]
           v == Place(Len(r.store) + 1)
<1>1. Allocate(r, x, o) = Set(s, x, v)
  BY Zenon DEF Allocate
<1>2. Kept(V, r, s, NoVar)
  BY StoreKept
<1> HIDE DEF s, v
<1>3. IsState(V, s)
  BY <1>2 DEF Kept
<1>4. Kept(V, s, Set(s, x, v), x)
  BY <1>3, SetKept
<1> QED
  BY <1>1, <1>2, <1>4, KeptTwice

LEMMA AppendLocalKept ==
  ASSUME NEW V, NoVar \notin V, NEW r, IsState(V, r), NEW x \in V \cup {NoVar}, NEW a, NEW b
  PROVE  Kept(V, r, AppendLocal(r, x, a, b), x)
<1> DEFINE s == r.store[a.at]
           joined == s.text \o Chars(r, b)
           w == [r.store EXCEPT ![a.at].text = joined]
           u == [r EXCEPT !.store = w]
           o == [text |-> joined, room |-> Len(joined) + 2, frozen |-> FALSE]
<1>1. AppendLocal(r, x, a, b) = IF ~ s.frozen /\ s.room >= Len(joined)
                                THEN Set([r EXCEPT !.store[a.at].text = joined], x, a)
                                ELSE Allocate(r, x, o)
  BY Zenon DEF AppendLocal
<1>2. [r EXCEPT !.store[a.at].text = joined] = u
  OBVIOUS
<1>3. Kept(V, r, u, NoVar)
  BY StoreKept
<1> HIDE DEF s, joined, w, u, o
<1>4. IsState(V, u)
  BY <1>3 DEF Kept
<1>5. Kept(V, u, Set(u, x, a), x)
  BY <1>4, SetKept
<1>6. Kept(V, r, Set(u, x, a), x)
  BY <1>3, <1>5, KeptTwice
<1>7. Kept(V, r, Allocate(r, x, o), x)
  BY AllocateKept
<1> QED
  BY <1>1, <1>2, <1>6, <1>7, Zenon

LEMMA ClearLocalKept ==
  ASSUME NEW V, NoVar \notin V, NEW r, IsState(V, r), NEW x \in V \cup {NoVar}, NEW a
  PROVE  Kept(V, r, ClearLocal(r, x, a), x)
<1> DEFINE w == [r.store EXCEPT ![a.at].text = <<>>]
           u == [r EXCEPT !.store = w]
           o == [text |-> <<>>, room |-> 0, frozen |-> TRUE]
<1>1. ClearLocal(r, x, a) = IF r.store[a.at].frozen THEN Allocate(r, x, o)
                            ELSE Set([r EXCEPT !.store[a.at].text = <<>>], x, a)
  BY Zenon DEF ClearLocal
<1>2. [r EXCEPT !.store[a.at].text = <<>>] = u
  OBVIOUS
<1>3. Kept(V, r, u, NoVar)
  BY StoreKept
<1> HIDE DEF w, u, o
<1>4. IsState(V, u)
  BY <1>3 DEF Kept
<1>5. Kept(V, u, Set(u, x, a), x)
  BY <1>4, SetKept
<1>6. Kept(V, r, Set(u, x, a), x)
  BY <1>3, <1>5, KeptTwice
<1>7. Kept(V, r, Allocate(r, x, o), x)
  BY AllocateKept
<1> QED
  BY <1>1, <1>2, <1>6, <1>7, Zenon

LEMMA MakeArrayKept ==
  ASSUME NEW V, NoVar \notin V, NEW r, IsState(V, r), NEW x \in V \cup {NoVar}, NEW F, NEW n
  PROVE  Kept(V, r, MakeArray(F, r, x, n), x)
<1> DEFINE cells == [k \in 0 .. n - 1 |-> 0]
           w == [r.store EXCEPT ![r.frame[x]].cells = cells]
           u == [r EXCEPT !.store = w]
           v == Place(r.frame[x])
           s == Allocate(r, x, [cells |-> cells])
           f == s.frame @@ (x :> Len(s.store))
           fixed == F.types[x] = "fixed"
<1>1. MakeArray(F, r, x, n) =
        IF fixed /\ x \in DOMAIN r.frame
        THEN Set([r EXCEPT !.store[r.frame[x]].cells = cells], x, v)
        ELSE IF fixed THEN [s EXCEPT !.frame = f] ELSE s
  BY Zenon DEF MakeArray
<1>2. [r EXCEPT !.store[r.frame[x]].cells = cells] = u
  OBVIOUS
<1>3. Kept(V, r, u, NoVar)
  BY StoreKept
<1>4. Kept(V, r, s, x)
  BY AllocateKept
<1> HIDE DEF cells, w, u, v, s, f, fixed
<1>5. IsState(V, u) /\ IsState(V, s)
  BY <1>3, <1>4 DEF Kept
<1>6. Kept(V, u, Set(u, x, v), x)
  BY <1>5, SetKept
<1>7. Kept(V, r, Set(u, x, v), x)
  BY <1>3, <1>6, KeptTwice
<1>8. Kept(V, s, [s EXCEPT !.frame = f], NoVar)
  BY <1>5, StoreKept
<1>9. Kept(V, r, [s EXCEPT !.frame = f], x)
  BY <1>4, <1>8, KeptTwice
<1> QED
  BY <1>1, <1>2, <1>4, <1>7, <1>9, Zenon

\* The run once v has been evaluated.
After(r, v) == Eval(r, v).r

LEMMA EvalKept ==
  ASSUME NEW V, NEW r, IsState(V, r), NEW v
  PROVE  Kept(V, r, After(r, v), NoVar) /\ After(r, v).env = r.env
<1> DEFINE w == Append(r.store, [text |-> v.val, room |-> 0, frozen |-> TRUE])
           s == [r EXCEPT !.store = w]
<1>1. Kept(V, r, r, NoVar)
  BY DEF Kept
<1>2. Kept(V, r, s, NoVar) /\ s.env = r.env
  BY StoreKept
<1>4. CASE v.is = "var"
  <2>1. Eval(r, v) = [r |-> r, v |-> r.env[v.name]]
    BY <1>4 DEF Eval
  <2>2. After(r, v) = r
    BY <2>1 DEF After
  <2> QED
    BY <1>1, <2>2
<1>5. CASE v.is = "int"
  <2>1. Eval(r, v) = [r |-> r, v |-> Lit(Wrap(v.val))]
    BY <1>5 DEF Eval
  <2>2. After(r, v) = r
    BY <2>1 DEF After
  <2> QED
    BY <1>1, <2>2
<1>6. CASE v.is # "var" /\ v.is # "int"
  <2>1. Eval(r, v) = [r |-> s, v |-> Place(Len(r.store) + 1)]
    BY <1>6 DEF Eval
  <2> HIDE DEF s
  <2>2. After(r, v) = s
    BY <2>1 DEF After
  <2> QED
    BY <1>2, <2>2
<1> QED
  BY <1>4, <1>5, <1>6
-----------------------------------------------------------------------------
(* Where an instruction leads *)

LEMMA EffectOf ==
  ASSUME NEW F, NEW r, NEW i, NEW a, NEW b, NEW c
  PROVE  /\ i.op = "move" => Effect(F, r, i, a, b, c) = GoOn(Set(r, i.dst, a))
         /\ i.op = "binary" /\ Divides(i) /\ b.val = 0 =>
              Effect(F, r, i, a, b, c) = [r EXCEPT !.end = "division by zero"]
         /\ i.op = "binary" /\ ~ (Divides(i) /\ b.val = 0) =>
              Effect(F, r, i, a, b, c) = GoOn(Set(r, i.dst, Lit(Wrap(Arithmetic(i.operator, a.val, b.val)))))
         /\ i.op = "concat" => \E o : Effect(F, r, i, a, b, c) = GoOn(Allocate(r, i.dst, o))
         /\ i.op = "load" => \E v : Effect(F, r, i, a, b, c) = GoOn(Set(r, i.dst, v))
         /\ i.op = "store" => \E S : Effect(F, r, i, a, b, c) = GoOn([r EXCEPT !.store = S])
         /\ i.op = "jump" => Effect(F, r, i, a, b, c) = EnterBlock(r, i.to)
         /\ i.op = "branch" => Effect(F, r, i, a, b, c) = EnterBlock(r, IF a.val # 0 THEN i.to ELSE i.else)
         /\ i.op \in {"return", "throw"} =>
              Effect(F, r, i, a, b, c) = [r EXCEPT !.end = i.op, !.out = @ \o <<Shown(r, a)>>]
         /\ i.op = "call" => Effect(F, r, i, a, b, c) = GoOn(CallEffect(F, r, i, a, b))
<1>1. ASSUME i.op = "move" PROVE Effect(F, r, i, a, b, c) = GoOn(Set(r, i.dst, a))
  BY <1>1 DEF Effect
<1>2. ASSUME i.op = "binary", Divides(i) /\ b.val = 0
      PROVE  Effect(F, r, i, a, b, c) = [r EXCEPT !.end = "division by zero"]
  BY <1>2 DEF Effect
<1>3. ASSUME i.op = "binary", ~ (Divides(i) /\ b.val = 0)
      PROVE  Effect(F, r, i, a, b, c) = GoOn(Set(r, i.dst, Lit(Wrap(Arithmetic(i.operator, a.val, b.val)))))
  BY <1>3 DEF Effect
<1>4. ASSUME i.op = "concat" PROVE \E o : Effect(F, r, i, a, b, c) = GoOn(Allocate(r, i.dst, o))
  <2> DEFINE o == [text |-> Chars(r, a) \o Chars(r, b), room |-> Len(Chars(r, a)) + Len(Chars(r, b)), frozen |-> FALSE]
  <2>1. Effect(F, r, i, a, b, c) = GoOn(Allocate(r, i.dst, o))
    BY <1>4 DEF Effect
  <2> QED
    BY <2>1, Zenon
<1>5. ASSUME i.op = "load" PROVE \E v : Effect(F, r, i, a, b, c) = GoOn(Set(r, i.dst, v))
  <2>1. Effect(F, r, i, a, b, c) = GoOn(Set(r, i.dst, Lit(r.store[a.at].cells[b.val])))
    BY <1>5 DEF Effect
  <2> QED
    BY <2>1, Zenon
<1>6. ASSUME i.op = "store" PROVE \E S : Effect(F, r, i, a, b, c) = GoOn([r EXCEPT !.store = S])
  <2>1. Effect(F, r, i, a, b, c) = GoOn([r EXCEPT !.store[a.at].cells[b.val] = c.val])
    BY <1>6 DEF Effect
  <2>2. [r EXCEPT !.store[a.at].cells[b.val] = c.val]
          = [r EXCEPT !.store = [r.store EXCEPT ![a.at].cells[b.val] = c.val]]
    OBVIOUS
  <2> QED
    BY <2>1, <2>2, Zenon
<1>7. ASSUME i.op = "jump" PROVE Effect(F, r, i, a, b, c) = EnterBlock(r, i.to)
  BY <1>7 DEF Effect
<1>8. ASSUME i.op = "branch" PROVE Effect(F, r, i, a, b, c) = EnterBlock(r, IF a.val # 0 THEN i.to ELSE i.else)
  BY <1>8 DEF Effect
<1>9. ASSUME i.op \in {"return", "throw"}
      PROVE  Effect(F, r, i, a, b, c) = [r EXCEPT !.end = i.op, !.out = @ \o <<Shown(r, a)>>]
  BY <1>9 DEF Effect
<1>10. ASSUME i.op = "call" PROVE Effect(F, r, i, a, b, c) = GoOn(CallEffect(F, r, i, a, b))
  BY <1>10 DEF Effect
<1> QED
  BY <1>1, <1>2, <1>3, <1>4, <1>5, <1>6, <1>7, <1>8, <1>9, <1>10

LEMMA CallKept ==
  ASSUME NEW V, NoVar \notin V, NEW r, IsState(V, r), NEW F, NEW i, i.callee \in RuntimeCallees,
         i.dst \in V \cup {NoVar}, NEW a, NEW b
  PROVE  Kept(V, r, CallEffect(F, r, i, a, b), i.dst)
<1>1. CASE i.callee = "print"
  <2>1. CallEffect(F, r, i, a, b) = [r EXCEPT !.out = r.out \o <<Shown(r, a)>>]
    BY <1>1 DEF CallEffect
  <2>2. Kept(V, r, [r EXCEPT !.out = r.out \o <<Shown(r, a)>>], NoVar)
    BY StoreKept
  <2> QED
    BY <2>1, <2>2 DEF Kept
<1>2. CASE i.callee = "array"
  <2>1. CallEffect(F, r, i, a, b) = MakeArray(F, r, i.dst, a.val)
    BY <1>2 DEF CallEffect
  <2> QED
    BY <2>1, MakeArrayKept
<1>3. CASE i.callee = "rt_str_append_local"
  <2>1. CallEffect(F, r, i, a, b) = AppendLocal(r, i.dst, a, b)
    BY <1>3 DEF CallEffect
  <2> QED
    BY <2>1, AppendLocalKept
<1>4. CASE i.callee = "rt_str_clear_local"
  <2>1. CallEffect(F, r, i, a, b) = ClearLocal(r, i.dst, a)
    BY <1>4 DEF CallEffect
  <2> QED
    BY <2>1, ClearLocalKept
<1>5. CASE i.callee \in {"rt_len", "rt_strlen"}
  <2>1. CallEffect(F, r, i, a, b) = Set(r, i.dst, Lit(Wrap(Len(Chars(r, a)))))
    BY <1>5 DEF CallEffect
  <2> DEFINE v == Lit(Wrap(Len(Chars(r, a))))
  <2> HIDE DEF v
  <2>2. Kept(V, r, Set(r, i.dst, v), i.dst)
    BY SetKept
  <2> QED
    BY <2>1, <2>2 DEF v
<1> QED
  BY <1>1, <1>2, <1>3, <1>4, <1>5 DEF RuntimeCallees

LEMMA GoOnFrom ==
  ASSUME NEW V, NEW r, NEW s, NEW x, Kept(V, r, s, x)
  PROVE  /\ IsState(V, GoOn(s)) /\ GoOn(s).env = s.env /\ GoOn(s).end = r.end
         /\ GoOn(s).at = <<r.at[1], r.at[2] + 1>>
         /\ \A y \in V \ {x} : GoOn(s).env[y] = r.env[y]
<1> DEFINE e == s.env
           o == s.out
           g == s.frame
           w == s.store
           p == s.at
           q == s.end
           t == GoOn(s)
<1>1. s = [env |-> e, store |-> w, frame |-> g, out |-> o, at |-> p, end |-> q]
      /\ e = [y \in V |-> e[y]] /\ p \in Nat \X Nat /\ p = r.at /\ q = r.end
      /\ \A y \in V \ {x} : e[y] = r.env[y]
  BY DEF Kept, IsState
<1>2. t = [s EXCEPT !.at[2] = @ + 1]
  BY Zenon DEF GoOn
<1> HIDE DEF e, o, g, w, p, q, t
<1>3. p = <<p[1], p[2]>> /\ p[1] \in Nat /\ p[2] \in Nat
  BY <1>1
<1>4. t = [env |-> e, store |-> w, frame |-> g, out |-> o, at |-> <<p[1], p[2] + 1>>, end |-> q]
  <2>1. [p EXCEPT ![2] = p[2] + 1] = <<p[1], p[2] + 1>>
    BY <1>3
  <2>2. t = [s EXCEPT !.at = [p EXCEPT ![2] = p[2] + 1]]
    BY <1>1, <1>2 DEF p
  <2> QED
    BY <1>1, <2>1, <2>2
<1>5. t.env = e /\ t.store = w /\ t.frame = g /\ t.out = o /\ t.at = <<p[1], p[2] + 1>> /\ t.end = q
  BY <1>4
<1>6. <<p[1], p[2] + 1>> \in Nat \X Nat
  BY <1>3
<1>7. IsState(V, t)
  <2>1. t = [env |-> t.env, store |-> t.store, frame |-> t.frame, out |-> t.out, at |-> t.at, end |-> t.end]
    BY <1>4, <1>5
  <2>2. t.env = [y \in V |-> t.env[y]]
    BY <1>1, <1>5
  <2> QED
    BY <1>5, <1>6, <2>1, <2>2 DEF IsState
<1> QED
  BY <1>1, <1>5, <1>7 DEF t, e

LEMMA GoToFrom ==
  ASSUME NEW V, NEW r, IsState(V, r), NEW b \in Nat
  PROVE  /\ IsState(V, EnterBlock(r, b)) /\ EnterBlock(r, b).env = r.env /\ EnterBlock(r, b).end = r.end
         /\ EnterBlock(r, b).at = <<b, 1>>
<1> DEFINE e == r.env
           o == r.out
           g == r.frame
           w == r.store
           p == r.at
           q == r.end
           t == EnterBlock(r, b)
<1>1. r = [env |-> e, store |-> w, frame |-> g, out |-> o, at |-> p, end |-> q]
      /\ e = [y \in V |-> e[y]] /\ p \in Nat \X Nat
  BY DEF IsState
<1>2. t = [r EXCEPT !.at = <<b, 1>>]
  BY Zenon DEF EnterBlock
<1> HIDE DEF e, o, g, w, p, q, t
<1>4. t = [env |-> e, store |-> w, frame |-> g, out |-> o, at |-> <<b, 1>>, end |-> q]
  BY <1>1, <1>2
<1>5. t.env = e /\ t.store = w /\ t.frame = g /\ t.out = o /\ t.at = <<b, 1>> /\ t.end = q
  BY <1>4
<1>6. <<b, 1>> \in Nat \X Nat
  OBVIOUS
<1>7. IsState(V, t)
  <2>1. t = [env |-> t.env, store |-> t.store, frame |-> t.frame, out |-> t.out, at |-> t.at, end |-> t.end]
    BY <1>4, <1>5
  <2>2. t.env = [y \in V |-> t.env[y]]
    BY <1>1, <1>5
  <2> QED
    BY <1>5, <1>6, <2>1, <2>2 DEF IsState
<1> QED
  BY <1>5, <1>7 DEF t, e, q

\* r has ended with z; the second has shown out.
EndWith(r, z) == [r EXCEPT !.end = z]
EndShowing(r, z, out) == [r EXCEPT !.end = z, !.out = out]

LEMMA EndFrom ==
  ASSUME NEW V, NEW r, IsState(V, r), NEW z, NEW out
  PROVE  /\ IsState(V, EndWith(r, z)) /\ EndWith(r, z).env = r.env
         /\ EndWith(r, z).at = r.at /\ EndWith(r, z).end = z
         /\ IsState(V, EndShowing(r, z, out)) /\ EndShowing(r, z, out).env = r.env
         /\ EndShowing(r, z, out).at = r.at /\ EndShowing(r, z, out).end = z
<1> DEFINE e == r.env
           o == r.out
           g == r.frame
           w == r.store
           p == r.at
           q == r.end
           t == EndWith(r, z)
           u == EndShowing(r, z, out)
<1>1. r = [env |-> e, store |-> w, frame |-> g, out |-> o, at |-> p, end |-> q]
      /\ e = [y \in V |-> e[y]] /\ p \in Nat \X Nat
  BY DEF IsState
<1> HIDE DEF e, o, g, w, p, q
<1>2. t = [env |-> e, store |-> w, frame |-> g, out |-> o, at |-> p, end |-> z]
  BY <1>1 DEF EndWith
<1>3. u = [env |-> e, store |-> w, frame |-> g, out |-> out, at |-> p, end |-> z]
  <2>1. u = [t EXCEPT !.out = out]
    BY <1>1, <1>2 DEF EndShowing, EndWith
  <2> HIDE DEF t
  <2> QED
    BY <1>2, <2>1
<1>4. t = [env |-> e, store |-> w, frame |-> g, out |-> o, at |-> p, end |-> z]
      /\ u = [env |-> e, store |-> w, frame |-> g, out |-> out, at |-> p, end |-> z]
  BY <1>2, <1>3
<1> HIDE DEF t, u
<1>5. t.env = e /\ t.store = w /\ t.frame = g /\ t.out = o /\ t.at = p /\ t.end = z
      /\ u.env = e /\ u.store = w /\ u.frame = g /\ u.out = out /\ u.at = p /\ u.end = z
  BY <1>4
<1>7. IsState(V, t) /\ IsState(V, u)
  <2>1. t = [env |-> t.env, store |-> t.store, frame |-> t.frame, out |-> t.out, at |-> t.at, end |-> t.end]
        /\ u = [env |-> u.env, store |-> u.store, frame |-> u.frame, out |-> u.out, at |-> u.at, end |-> u.end]
    BY <1>4, <1>5
  <2>2. t.env = [y \in V |-> t.env[y]] /\ u.env = [y \in V |-> u.env[y]]
    BY <1>1, <1>5
  <2> QED
    BY <1>1, <1>5, <2>1, <2>2 DEF IsState
<1> QED
  BY <1>5, <1>7 DEF t, u, e, p
-----------------------------------------------------------------------------
(* One instruction of a run *)

\* The operands of i one after the other, and the run when they have been evaluated.
First(r, i) == IF i.in = <<>> THEN [r |-> r, v |-> Lit(0)] ELSE Eval(r, i.in[1])
Second(r, i) == IF Len(i.in) < 2 THEN First(r, i) ELSE Eval(First(r, i).r, i.in[2])
Third(r, i) == IF Len(i.in) < 3 THEN Second(r, i) ELSE Eval(Second(r, i).r, i.in[3])
Evaluated(r, i) == Third(r, i).r
A(r, i) == First(r, i).v
B(r, i) == Second(r, i).v
C(r, i) == Third(r, i).v

LEMMA ExecuteOf ==
  ASSUME NEW F, NEW r, NEW i
  PROVE  Execute(F, r, i) = Effect(F, Evaluated(r, i), i, A(r, i), B(r, i), C(r, i))
BY Zenon DEF Execute, First, Second, Third, Evaluated, A, B, C

LEMMA OperandsKept ==
  ASSUME NEW V, NEW r, IsState(V, r), NEW i
  PROVE  /\ IsState(V, Evaluated(r, i)) /\ Evaluated(r, i).env = r.env
         /\ Evaluated(r, i).at = r.at /\ Evaluated(r, i).end = r.end
<1> DEFINE Same(s) == IsState(V, s) /\ s.env = r.env /\ s.at = r.at /\ s.end = r.end
<1>1. ASSUME NEW s, Same(s), NEW v PROVE Same(After(s, v))
  BY <1>1, EvalKept DEF Kept
<1>2. Same(r)
  OBVIOUS
<1> DEFINE f == First(r, i)
           g == Second(r, i)
           h == Third(r, i)
<1>3. f.r = r \/ f.r = After(r, i.in[1])
  BY DEF First, After
<1>4. g.r = f.r \/ g.r = After(f.r, i.in[2])
  BY DEF Second, After
<1>5. h.r = g.r \/ h.r = After(g.r, i.in[3])
  BY DEF Third, After
<1>6. Evaluated(r, i) = h.r
  BY Zenon DEF Evaluated
<1> HIDE DEF Same, f, g, h
<1>7. Same(f.r)
  BY <1>1, <1>2, <1>3
<1>8. Same(g.r)
  BY <1>1, <1>4, <1>7
<1>9. Same(h.r)
  BY <1>1, <1>5, <1>8
<1> QED
  BY <1>6, <1>9 DEF Same

Ended(r) == r.end # ""

\* Where s may lead when it executes i.
Leads(i, s, t) ==
  \/ t.at = s.at /\ Ended(t)
  \/ ~ Terminates(i) /\ t.at = <<s.at[1], s.at[2] + 1>> /\ t.end = s.end
  \/ Terminates(i) /\ t.at \in Nat \X {1}

LEMMA EffectKept ==
  ASSUME NEW V, NoVar \notin V, NEW r, IsState(V, r), NEW F, NEW i \in InstructionOver(V),
         NEW a, NEW b, NEW c
  PROVE  /\ IsState(V, Effect(F, r, i, a, b, c)) /\ Leads(i, r, Effect(F, r, i, a, b, c))
         /\ \A y \in V \ {i.dst} : Effect(F, r, i, a, b, c).env[y] = r.env[y]
<1> DEFINE Good(t) == IsState(V, t) /\ Leads(i, r, t) /\ \A y \in V \ {i.dst} : t.env[y] = r.env[y]
           e == Effect(F, r, i, a, b, c)
<1>0. i.op \in {"move", "concat", "load", "binary", "call", "store", "return", "throw", "branch", "jump"}
  BY InstructionFields
<1>1. ASSUME NEW s, Kept(V, r, s, i.dst), ~ Terminates(i) PROVE Good(GoOn(s))
  <2> DEFINE t == GoOn(s)
  <2>1. IsState(V, t) /\ t.end = r.end /\ t.at = <<r.at[1], r.at[2] + 1>>
        /\ \A y \in V \ {i.dst} : t.env[y] = r.env[y]
    BY <1>1, GoOnFrom
  <2> HIDE DEF t
  <2>2. Leads(i, r, t)
    BY <1>1, <2>1 DEF Leads
  <2>3. Good(t)
    BY <2>1, <2>2
  <2> QED
    BY <2>3, Zenon DEF t
<1>2. ASSUME NEW s, Kept(V, r, s, NoVar), ~ Terminates(i) PROVE Good(GoOn(s))
  <2> DEFINE t == GoOn(s)
  <2>1. IsState(V, t) /\ t.end = r.end /\ t.at = <<r.at[1], r.at[2] + 1>>
        /\ \A y \in V \ {NoVar} : t.env[y] = r.env[y]
    BY <1>2, GoOnFrom
  <2> HIDE DEF t
  <2>2. Leads(i, r, t)
    BY <1>2, <2>1 DEF Leads
  <2>3. \A y \in V \ {i.dst} : t.env[y] = r.env[y]
    BY <2>1
  <2>4. Good(t)
    BY <2>1, <2>2, <2>3
  <2> QED
    BY <2>4, Zenon DEF t
<1>3. ASSUME NEW t, IsState(V, t), t.env = r.env, t.at = r.at, Ended(t) PROVE Good(t)
  <2>1. Leads(i, r, t)
    BY <1>3 DEF Leads
  <2> QED
    BY <1>3, <2>1
<1>4. ASSUME NEW z, NEW o
      PROVE  /\ Ended(EndWith(r, z)) => Good(EndWith(r, z))
             /\ Ended(EndShowing(r, z, o)) => Good(EndShowing(r, z, o))
             /\ EndWith(r, z).end = z /\ EndShowing(r, z, o).end = z
  <2> DEFINE t == EndWith(r, z)
             u == EndShowing(r, z, o)
  <2>1. IsState(V, t) /\ t.env = r.env /\ t.at = r.at /\ t.end = z
    BY EndFrom
  <2>2. IsState(V, u) /\ u.env = r.env /\ u.at = r.at /\ u.end = z
    BY EndFrom
  <2> HIDE DEF t, u, Good
  <2>3. Ended(t) => Good(t)
    BY <1>3, <2>1
  <2>4. Ended(u) => Good(u)
    BY <1>3, <2>2
  <2> QED
    BY <2>1, <2>2, <2>3, <2>4, Zenon DEF t, u
<1>5. ASSUME NEW n \in Nat, Terminates(i) PROVE Good(EnterBlock(r, n))
  <2> DEFINE t == EnterBlock(r, n)
  <2>1. IsState(V, t) /\ t.env = r.env /\ t.at = <<n, 1>>
    BY <1>5, GoToFrom, Zenon
  <2> HIDE DEF t
  <2>2. t.at \in Nat \X {1}
    BY <2>1
  <2>3. Leads(i, r, t)
    BY <1>5, <2>2, Zenon DEF Leads
  <2>4. Good(t)
    BY <2>1, <2>3
  <2> QED
    BY <2>4, Zenon DEF t
<1> HIDE DEF Good
<1>6. ASSUME i.op = "move" PROVE Good(e)
  <2>1. i.dst \in V /\ ~ Terminates(i)
    BY <1>6, InstructionFields DEF Terminates
  <2>2. Good(GoOn(Set(r, i.dst, a)))
    BY <1>1, <2>1, SetKept
  <2>3. e = GoOn(Set(r, i.dst, a))
    BY <1>6 DEF Effect
  <2> QED
    BY <2>2, <2>3, Zenon
<1>7. ASSUME i.op = "binary" PROVE Good(e)
  <2>1. i.dst \in V /\ ~ Terminates(i)
    BY <1>7, InstructionFields DEF Terminates
  <2> DEFINE v == Lit(Wrap(Arithmetic(i.operator, a.val, b.val)))
             div == Divides(i) /\ b.val = 0
  <2>2. Good(GoOn(Set(r, i.dst, v)))
    <3> HIDE DEF v
    <3> QED
      BY <1>1, <2>1, SetKept
  <2>3. Good(EndWith(r, "division by zero"))
    <3>1. ASSUME NEW z, z # "" PROVE Good(EndWith(r, z))
      <4> DEFINE u == EndWith(r, z)
      <4>1. u.end = z /\ (Ended(u) => Good(u))
        BY <1>4, Zenon
      <4> HIDE DEF u
      <4>2. Ended(u)
        BY <3>1, <4>1 DEF Ended
      <4> QED
        BY <4>1, <4>2, Zenon DEF u
    <3>2. "division by zero" # ""
      OBVIOUS
    <3> QED
      BY <3>1, <3>2, Zenon
  <2>4. div => e = EndWith(r, "division by zero")
    BY <1>7 DEF Effect, EndWith
  <2>5. ~ div => e = GoOn(Set(r, i.dst, v))
    BY <1>7 DEF Effect
  <2> HIDE DEF div, v, e
  <2> QED
    BY <2>2, <2>3, <2>4, <2>5, Zenon
<1>8. ASSUME i.op = "concat" PROVE Good(e)
  <2>1. i.dst \in V /\ ~ Terminates(i)
    BY <1>8, InstructionFields DEF Terminates
  <2>2. PICK o : e = GoOn(Allocate(r, i.dst, o))
    <3> DEFINE o == [text |-> Chars(r, a) \o Chars(r, b), room |-> Len(Chars(r, a)) + Len(Chars(r, b)), frozen |-> FALSE]
    <3>1. e = GoOn(Allocate(r, i.dst, o))
      BY <1>8 DEF Effect
    <3> QED
      BY <3>1, Zenon
  <2>3. Good(GoOn(Allocate(r, i.dst, o)))
    <3>1. Kept(V, r, Allocate(r, i.dst, o), i.dst)
      BY <2>1, AllocateKept
    <3> QED
      BY <1>1, <2>1, <3>1, Zenon
  <2> QED
    BY <2>2, <2>3, Zenon
<1>9. ASSUME i.op = "load" PROVE Good(e)
  <2>1. i.dst \in V /\ ~ Terminates(i)
    BY <1>9, InstructionFields DEF Terminates
  <2>2. PICK v : e = GoOn(Set(r, i.dst, v))
    <3>1. e = GoOn(Set(r, i.dst, Lit(r.store[a.at].cells[b.val])))
      BY <1>9 DEF Effect
    <3> QED
      BY <3>1, Zenon
  <2>3. Good(GoOn(Set(r, i.dst, v)))
    <3>1. Kept(V, r, Set(r, i.dst, v), i.dst)
      BY <2>1, SetKept
    <3> QED
      BY <1>1, <2>1, <3>1, Zenon
  <2> QED
    BY <2>2, <2>3, Zenon
<1>10. ASSUME i.op = "store" PROVE Good(e)
  <2>1. ~ Terminates(i)
    BY <1>10 DEF Terminates
  <2>2. PICK S : e = GoOn([r EXCEPT !.store = S])
    <3>1. e = GoOn([r EXCEPT !.store[a.at].cells[b.val] = c.val])
      BY <1>10 DEF Effect
    <3>2. [r EXCEPT !.store[a.at].cells[b.val] = c.val]
            = [r EXCEPT !.store = [r.store EXCEPT ![a.at].cells[b.val] = c.val]]
      OBVIOUS
    <3> QED
      BY <3>1, <3>2, Zenon
  <2>3. Good(GoOn([r EXCEPT !.store = S]))
    <3>1. Kept(V, r, [r EXCEPT !.store = S], NoVar)
      BY StoreKept
    <3> QED
      BY <1>2, <2>1, <3>1, Zenon
  <2> QED
    BY <2>2, <2>3, Zenon
<1>11. ASSUME i.op = "jump" PROVE Good(e)
  <2>1. Terminates(i) /\ i.to \in Nat
    BY <1>11, InstructionFields DEF Terminates
  <2>2. e = EnterBlock(r, i.to)
    BY <1>11 DEF Effect
  <2> QED
    BY <1>5, <2>1, <2>2, Zenon
<1>12. ASSUME i.op = "branch" PROVE Good(e)
  <2>1. Terminates(i) /\ i.to \in Nat /\ i.else \in Nat
    BY <1>12, InstructionFields DEF Terminates
  <2> DEFINE n == IF a.val # 0 THEN i.to ELSE i.else
  <2>2. n \in Nat
    BY <2>1
  <2>3. e = EnterBlock(r, n)
    BY <1>12 DEF Effect
  <2> HIDE DEF n
  <2> QED
    BY <1>5, <2>1, <2>2, <2>3, Zenon
<1>13. ASSUME i.op \in {"return", "throw"} PROVE Good(e)
  <2> DEFINE o == r.out \o <<Shown(r, a)>>
  <2>1. e = EndShowing(r, i.op, o)
    BY <1>13 DEF Effect, EndShowing
  <2> HIDE DEF o
  <2> DEFINE u == EndShowing(r, i.op, o)
  <2>2. u.end = i.op /\ (Ended(u) => Good(u))
    BY <1>4, Zenon
  <2> HIDE DEF u
  <2>3. Ended(u)
    BY <1>13, <2>2 DEF Ended
  <2> QED
    BY <2>1, <2>2, <2>3, Zenon DEF u
<1>14. ASSUME i.op = "call" PROVE Good(e)
  <2>1. i.dst \in V \cup {NoVar} /\ i.callee \in RuntimeCallees /\ ~ Terminates(i)
    BY <1>14, InstructionFields DEF Terminates, NoVar
  <2>2. Kept(V, r, CallEffect(F, r, i, a, b), i.dst)
    BY <2>1, CallKept
  <2>3. e = GoOn(CallEffect(F, r, i, a, b))
    BY <1>14 DEF Effect
  <2> QED
    BY <1>1, <2>1, <2>2, <2>3, Zenon
<1> HIDE DEF e
<1>15. Good(e)
  BY <1>0, <1>6, <1>7, <1>8, <1>9, <1>10, <1>11, <1>12, <1>13, <1>14
<1> QED
  BY <1>15, Zenon DEF Good, e

LEMMA ExecuteKept ==
  ASSUME NEW V, NoVar \notin V, NEW r, IsState(V, r), NEW F, NEW i \in InstructionOver(V)
  PROVE  /\ IsState(V, Execute(F, r, i)) /\ Leads(i, r, Execute(F, r, i))
         /\ \A y \in V \ {i.dst} : Execute(F, r, i).env[y] = r.env[y]
<1> DEFINE t == Execute(F, r, i)
           s == Evaluated(r, i)
           a == A(r, i)
           b == B(r, i)
           c == C(r, i)
<1>1. IsState(V, s) /\ s.env = r.env /\ s.at = r.at /\ s.end = r.end
  BY OperandsKept
<1>2. t = Effect(F, s, i, a, b, c)
  BY ExecuteOf, Zenon
<1> HIDE DEF s, a, b, c, t
<1> DEFINE u == Effect(F, s, i, a, b, c)
<1>3. IsState(V, u) /\ Leads(i, s, u) /\ \A y \in V \ {i.dst} : u.env[y] = s.env[y]
  BY <1>1, EffectKept
<1>4. IsState(V, t) /\ Leads(i, s, t) /\ \A y \in V \ {i.dst} : t.env[y] = s.env[y]
  BY <1>2, <1>3, Zenon
<1> HIDE DEF u
<1>5. Leads(i, r, t)
  BY <1>1, <1>4 DEF Leads
<1>6. \A y \in V \ {i.dst} : t.env[y] = r.env[y]
  BY <1>1, <1>4
<1> QED
  BY <1>4, <1>5, <1>6 DEF t

\* Every state of a run is a state, and a run ends where it is.
LEMMA StatesOf ==
  ASSUME NEW F, IsFunction(F)
  PROVE  /\ \A n \in Nat : IsState(Variables(F), States(F)[n])
         /\ States(F)[0].at = <<1, 1>> /\ States(F)[0].end = ""
<1> DEFINE V == Variables(F)
           T == {n \in Nat : IsState(V, States(F)[n])}
<1>0. NoVar \notin V
  BY Zenon DEF IsFunction, Variables, NoVar
<1>1. IsState(V, Entry(F)) /\ Entry(F).at = <<1, 1>> /\ Entry(F).end = ""
  <2> DEFINE e == [x \in V |-> IF F.types[x] = "string" THEN Place(1) ELSE Lit(1)]
             w == <<[text |-> <<7>>, room |-> 1, frozen |-> FALSE]>>
             t == Entry(F)
  <2>1. t = [env |-> e, store |-> w, frame |-> <<>>, out |-> <<>>, at |-> <<1, 1>>, end |-> ""]
    BY Zenon DEF Entry, Variables
  <2>2. e = [x \in V |-> e[x]]
    OBVIOUS
  <2> HIDE DEF e, w, V, t
  <2>3. t.env = e /\ t.store = w /\ t.frame = <<>> /\ t.out = <<>> /\ t.at = <<1, 1>> /\ t.end = ""
    BY <2>1
  <2>4. t = [env |-> t.env, store |-> t.store, frame |-> t.frame, out |-> t.out, at |-> t.at, end |-> t.end]
    BY <2>1, <2>3
  <2>5. t.env = [x \in V |-> t.env[x]] /\ t.at \in Nat \X Nat
    <3>1. <<1, 1>> \in Nat \X Nat
      OBVIOUS
    <3> QED
      BY <2>2, <2>3, <3>1
  <2>6. IsState(V, t)
    BY <2>4, <2>5, Zenon DEF IsState
  <2> QED
    BY <2>3, <2>6 DEF t
<1>2. 0 \in T
  BY <1>1, StatesFollow
<1>3. ASSUME NEW n \in Nat, n \in T PROVE n + 1 \in T
  <2> DEFINE r == States(F)[n]
  <2>1. States(F)[n + 1] = Onward(F, r)
    BY StatesFollow
  <2>2. IsState(V, r)
    BY <1>3
  <2> HIDE DEF r
  <2>3. CASE r.end # "" \/ r.at \notin Places(F)
    <3>1. Onward(F, r) = r
      BY <2>3 DEF Onward
    <3> QED
      BY <2>1, <2>2, <3>1
  <2>4. CASE r.end = "" /\ r.at \in Places(F)
    <3>1. Onward(F, r) = Execute(F, r, At(F, r.at))
      BY <2>4 DEF Onward
    <3>2. At(F, r.at) \in InstructionOver(V)
      BY <2>4, InstructionAt
    <3>3. IsState(V, Onward(F, r))
      BY <1>0, <2>2, <3>1, <3>2, ExecuteKept
    <3> QED
      BY <2>1, <3>3
  <2> QED
    BY <2>3, <2>4
<1> HIDE DEF T
<1>4. T = Nat
  <2>1. T \in SUBSET Nat
    BY DEF T
  <2> QED
    BY <1>2, <1>3, <2>1, Reaches
<1> QED
  BY <1>1, <1>4, StatesFollow DEF T
-----------------------------------------------------------------------------
(* eliminate_dead_code keeps every run *)

LEMMA ExecuteByTypes ==
  ASSUME NEW F, NEW G, F.types = G.types, NEW r, NEW i
  PROVE  Execute(F, r, i) = Execute(G, r, i)
<1>1. ASSUME NEW s, NEW x, NEW n PROVE MakeArray(F, s, x, n) = MakeArray(G, s, x, n)
  BY Zenon DEF MakeArray
<1>2. ASSUME NEW s, NEW j, NEW a, NEW b PROVE CallEffect(F, s, j, a, b) = CallEffect(G, s, j, a, b)
  <2>1. MakeArray(F, s, j.dst, a.val) = MakeArray(G, s, j.dst, a.val)
    BY <1>1
  <2> QED
    BY <2>1, Zenon DEF CallEffect
<1>3. ASSUME NEW s, NEW j, NEW a, NEW b, NEW c PROVE Effect(F, s, j, a, b, c) = Effect(G, s, j, a, b, c)
  <2>1. CallEffect(F, s, j, a, b) = CallEffect(G, s, j, a, b)
    BY <1>2
  <2> QED
    BY <2>1, Zenon DEF Effect
<1> DEFINE s == Evaluated(r, i)
           a == A(r, i)
           b == B(r, i)
           c == C(r, i)
<1>4. Execute(F, r, i) = Effect(F, s, i, a, b, c) /\ Execute(G, r, i) = Effect(G, s, i, a, b, c)
  BY ExecuteOf, Zenon
<1>5. Effect(F, s, i, a, b, c) = Effect(G, s, i, a, b, c)
  BY <1>3, Zenon
<1> QED
  BY <1>4, <1>5, Zenon

\* No instruction before p leaves the block.
NotPast(F, p) ==
  \A q \in Places(F) : q[1] = p[1] /\ q[2] < p[2] => ~ Terminates(At(F, q))

LEMMA NeverPast ==
  ASSUME NEW F, IsFunction(F), NEW n \in Nat
  PROVE  NotPast(F, States(F)[n].at)
<1> DEFINE T == {m \in Nat : NotPast(F, States(F)[m].at)}
           V == Variables(F)
<1>0. \A q \in Places(F) : q[1] \in Nat /\ q[2] \in Nat /\ q[2] >= 1 /\ q = <<q[1], q[2]>>
  <2> TAKE q \in Places(F)
  <2>1. q[1] \in DOMAIN F.blocks /\ q[2] \in DOMAIN F.blocks[q[1]] /\ q = <<q[1], q[2]>>
    BY PlaceParts
  <2> QED
    BY <2>1, Blocks
<1>1. ASSUME NEW p, p[2] = 1 PROVE NotPast(F, p)
  BY <1>0, <1>1 DEF NotPast
<1>2. 0 \in T
  <2>1. States(F)[0].at = <<1, 1>>
    BY StatesOf
  <2> DEFINE p == States(F)[0].at
  <2>2. p[2] = 1
    BY <2>1
  <2> HIDE DEF p
  <2>3. NotPast(F, p)
    BY <1>1, <2>2
  <2> QED
    BY <2>3 DEF p
<1>3. ASSUME NEW m \in Nat, m \in T PROVE m + 1 \in T
  <2> DEFINE r == States(F)[m]
             t == States(F)[m + 1]
             i == At(F, r.at)
  <2>1. t = Onward(F, r) /\ IsState(V, r) /\ NotPast(F, r.at)
    BY <1>3, StatesFollow, StatesOf
  <2> SUFFICES NotPast(F, t.at)
    OBVIOUS
  <2> HIDE DEF r, t, i
  <2>2. CASE r.end # "" \/ r.at \notin Places(F)
    BY <2>1, <2>2 DEF Onward
  <2>3. CASE r.end = "" /\ r.at \in Places(F)
    <3>1. t = Execute(F, r, i)
      BY <2>1, <2>3 DEF Onward, i
    <3>2. i \in InstructionOver(V)
      BY <2>3, InstructionAt DEF i
    <3>3. NoVar \notin V
      BY Zenon DEF IsFunction, Variables, NoVar
    <3>4. Leads(i, r, t)
      BY <2>1, <3>1, <3>2, <3>3, ExecuteKept
    <3>5. CASE t.at = r.at
      BY <2>1, <3>5
    <3>6. CASE ~ Terminates(i) /\ t.at = <<r.at[1], r.at[2] + 1>>
      <4> SUFFICES ASSUME NEW q \in Places(F), q[1] = r.at[1], q[2] < r.at[2] + 1
                   PROVE  ~ Terminates(At(F, q))
        BY <3>6 DEF NotPast
      <4>1. r.at[1] \in Nat /\ r.at[2] \in Nat /\ r.at = <<r.at[1], r.at[2]>>
        BY <1>0, <2>3
      <4>2. CASE q[2] = r.at[2]
        <5>1. q = r.at
          BY <1>0, <4>1, <4>2
        <5> QED
          BY <3>6, <5>1 DEF i
      <4>3. CASE q[2] < r.at[2]
        BY <2>1, <4>3 DEF NotPast
      <4>4. q[2] \in Nat
        BY <1>0
      <4> QED
        BY <4>1, <4>2, <4>3, <4>4
    <3>7. CASE t.at \in Nat \X {1}
      <4>1. t.at[2] = 1
        BY <3>7
      <4> QED
        BY <1>1, <4>1
    <3> QED
      BY <3>4, <3>5, <3>6, <3>7 DEF Leads
  <2> QED
    BY <2>2, <2>3
<1> HIDE DEF T
<1>4. T = Nat
  <2>1. T \in SUBSET Nat
    BY DEF T
  <2> QED
    BY <1>2, <1>3, <2>1, Reaches
<1> QED
  BY <1>4 DEF T

\* Two functions whose runs begin alike and go on alike have the same runs.
LEMMA SameRuns ==
  ASSUME NEW F, NEW G, NEW N \in Nat, Entry(F) = Entry(G),
         \A n \in 0 .. N : Onward(G, States(F)[n]) = Onward(F, States(F)[n])
  PROVE  \A n \in 0 .. N : States(G)[n] = States(F)[n]
<1> DEFINE T == {n \in Nat : n <= N => States(G)[n] = States(F)[n]}
<1>1. 0 \in T
  BY StatesFollow
<1>2. ASSUME NEW n \in Nat, n \in T PROVE n + 1 \in T
  <2> SUFFICES ASSUME n + 1 <= N PROVE States(G)[n + 1] = States(F)[n + 1]
    OBVIOUS
  <2>1. n \in 0 .. N /\ n <= N
    OBVIOUS
  <2>2. States(G)[n] = States(F)[n]
    BY <1>2, <2>1
  <2>3. States(G)[n + 1] = Onward(G, States(G)[n]) /\ States(F)[n + 1] = Onward(F, States(F)[n])
    BY StatesFollow
  <2> QED
    BY <2>1, <2>2, <2>3
<1> HIDE DEF T
<1>3. T = Nat
  <2>1. T \in SUBSET Nat
    BY DEF T
  <2> QED
    BY <1>1, <1>2, <2>1, Reaches
<1> QED
  BY <1>3 DEF T

\* A run is never behind the end of a block.
LEMMA RunsStayInside ==
  ASSUME NEW F, IsFunction(F), NEW n \in Nat, States(F)[n].at \in Places(F)
  PROVE  States(F)[n].at \in Places(EliminateDead(F))
<1> DEFINE G == EliminateDead(F)
           r == States(F)[n]
           b == r.at[1]
           k == r.at[2]
           s == F.blocks[b]
<1>1. DOMAIN G.blocks = DOMAIN F.blocks /\ \A c \in DOMAIN F.blocks : G.blocks[c] = Cut(F.blocks[c])
  BY DeadEliminated
<1>2. NotPast(F, r.at) /\ r.at \in Places(F)
  BY NeverPast
<1> HIDE DEF G, r
<1> SUFFICES ASSUME r.at \notin Places(G) PROVE FALSE
  BY DEF G, r
<1>3. b \in DOMAIN F.blocks /\ k \in DOMAIN s /\ r.at = <<b, k>>
  BY <1>2, PlaceParts
<1>4. k \notin DOMAIN G.blocks[b]
  BY <1>1, <1>3, PlaceOf
<1>5. s \in Seq(InstructionOver(Variables(F)))
  BY <1>3, Blocks
<1>6. k \notin DOMAIN Cut(s)
  BY <1>1, <1>3, <1>4
<1> HIDE DEF k, s
<1>7. PICK j \in DOMAIN Cut(s) : j < k /\ Terminates(s[j])
  BY <1>3, <1>5, <1>6, CutBlock
<1>8. j \in DOMAIN s
  BY <1>5, CutBlock
<1> DEFINE q == <<b, j>>
<1>9. q \in Places(F) /\ q[1] = b /\ q[2] = j /\ At(F, q) = s[j]
  BY <1>3, <1>8, PlaceOf DEF At, s
<1> HIDE DEF q
<1>10. ~ Terminates(At(F, q))
  BY <1>2, <1>7, <1>9 DEF NotPast, k
<1> QED
  BY <1>7, <1>9, <1>10

\* Whatever the function does, its run is the same once the instructions behind a
\* block's end are gone: control never gets there (eliminate_dead_code in opt.rs).
THEOREM DeadCodeKeepsRuns ==
  ASSUME NEW F, IsFunction(F)
  PROVE  \A n \in Nat : States(EliminateDead(F))[n] = States(F)[n]
<1> DEFINE G == EliminateDead(F)
<1>1. /\ IsFunction(G) /\ G.types = F.types
      /\ DOMAIN G.blocks = DOMAIN F.blocks
      /\ \A b \in DOMAIN F.blocks : G.blocks[b] = Cut(F.blocks[b])
      /\ Places(G) \subseteq Places(F)
      /\ \A p \in Places(G) : At(G, p) = At(F, p)
  BY DeadEliminated
<1> HIDE DEF G
<1>2. Entry(G) = Entry(F)
  BY <1>1, Zenon DEF Entry
<1>3. ASSUME NEW n \in Nat PROVE Onward(G, States(F)[n]) = Onward(F, States(F)[n])
  <2> DEFINE r == States(F)[n]
  <2>1. r.at \in Places(F) => r.at \in Places(G)
    BY RunsStayInside DEF G
  <2> HIDE DEF r
  <2>2. CASE r.end # "" \/ r.at \notin Places(F)
    BY <1>1, <2>2 DEF Onward, r
  <2>3. CASE r.end = "" /\ r.at \in Places(G)
    <3>1. At(G, r.at) = At(F, r.at) /\ r.at \in Places(F)
      BY <1>1, <2>3
    <3>2. Onward(G, r) = Execute(G, r, At(F, r.at)) /\ Onward(F, r) = Execute(F, r, At(F, r.at))
      BY <2>3, <3>1 DEF Onward
    <3>3. Execute(F, r, At(F, r.at)) = Execute(G, r, At(F, r.at))
      BY <1>1, ExecuteByTypes
    <3> QED
      BY <3>2, <3>3 DEF r
  <2> QED
    BY <2>1, <2>2, <2>3
<1>4. ASSUME NEW n \in Nat PROVE States(G)[n] = States(F)[n]
  <2>1. \A m \in 0 .. n : Onward(G, States(F)[m]) = Onward(F, States(F)[m])
    BY <1>3
  <2>2. \A m \in 0 .. n : States(G)[m] = States(F)[m]
    BY <1>2, <2>1, SameRuns
  <2>3. n \in 0 .. n
    OBVIOUS
  <2> QED
    BY <2>2, <2>3
<1> QED
  BY <1>4 DEF G
-----------------------------------------------------------------------------
(* Integers of Width bits *)

Half == 2 ^ (Width - 1)
InRange(n) == n \in -(2 ^ (Width - 1)) .. 2 ^ (Width - 1) - 1

LEMMA HalfPositive == Half \in Nat \ {0}
BY OptimizerAssumption DEF Half

LEMMA Division ==
  ASSUME NEW n \in Int, NEW d \in Nat \ {0}
  PROVE  /\ n % d \in 0 .. d - 1 /\ n \div d \in Int
         /\ n = d * (n \div d) + (n % d)
<1>1. n \div d \in Int
  OBVIOUS
<1>2. n % d \in 0 .. d - 1
  OBVIOUS
<1>3. n = d * (n \div d) + (n % d)
  OBVIOUS
<1> QED
  BY <1>1, <1>2, <1>3

\* Two numbers smaller than d that differ by a multiple of d are equal.
LEMMA SameRemainder ==
  ASSUME NEW d \in Nat \ {0}, NEW k \in Int, NEW r \in 0 .. d - 1, NEW s \in 0 .. d - 1,
         r = d * k + s
  PROVE  r = s
<1>1. CASE k = 0
  BY <1>1
<1>2. CASE k >= 1
  <2>1. d * k >= d
    BY <1>2
  <2> QED
    BY <2>1
<1>3. CASE k <= -1
  <2>1. d * k <= -d
    <3>1. d * (-k - 1) >= 0
      BY <1>3
    <3>2. d * (-k - 1) = -(d * k) - d
      OBVIOUS
    <3> QED
      BY <3>1, <3>2
  <2> QED
    BY <2>1
<1> QED
  BY <1>1, <1>2, <1>3

LEMMA Wraps ==
  ASSUME NEW n \in Int
  PROVE  /\ Wrap(n) \in Int /\ InRange(Wrap(n))
         /\ \E k \in Int : n = (2 * Half) * k + Wrap(n)
<1>0. Half \in Nat \ {0} /\ 2 * Half \in Nat \ {0}
  BY HalfPositive
<1> DEFINE d == 2 * Half
           w == (n + Half) % d
           q == (n + Half) \div d
<1>1. Wrap(n) = w - Half
  BY DEF Wrap, Half
<1>2. w \in 0 .. d - 1 /\ q \in Int /\ n + Half = d * q + w
  <2>1. n + Half \in Int /\ d \in Nat \ {0}
    BY <1>0
  <2> HIDE DEF d
  <2> QED
    BY <2>1, Division
<1> HIDE DEF w, q
<1>3. n = d * q + (w - Half)
  BY <1>0, <1>2
<1>4. w - Half \in -Half .. Half - 1
  BY <1>0, <1>2
<1> QED
  BY <1>0, <1>1, <1>2, <1>3, <1>4 DEF InRange, Half

\* Numbers that differ by a multiple of the modulus are cut to the same one.
LEMMA WrapSame ==
  ASSUME NEW n \in Int, NEW m \in Int, NEW k \in Int, n = (2 * Half) * k + m
  PROVE  Wrap(n) = Wrap(m)
<1>0. Half \in Nat \ {0} /\ 2 * Half \in Nat \ {0}
  BY HalfPositive
<1> DEFINE d == 2 * Half
           w == Wrap(n)
           v == Wrap(m)
<1>1. w \in -Half .. Half - 1 /\ v \in -Half .. Half - 1
  BY Wraps DEF InRange, Half
<1>2. PICK a \in Int : n = d * a + w
  BY Wraps
<1>3. PICK b \in Int : m = d * b + v
  BY Wraps
<1> HIDE DEF w, v
<1> HIDE DEF d
<1>4. d \in Nat \ {0} /\ d = 2 * Half
  BY <1>0 DEF d
<1>5. n = d * k + m
  BY DEF d
<1>6. w = d * (k + b - a) + v
  <2>1. d * a + w = d * k + (d * b + v)
    BY <1>2, <1>3, <1>5
  <2>2. d * (k + b - a) = d * k + d * b - d * a
    BY <1>4
  <2>3. d * k \in Int /\ d * b \in Int /\ d * a \in Int /\ w \in Int /\ v \in Int
    BY <1>0, <1>1, <1>4
  <2>4. \A x, y, z, t, u \in Int : x + t = y + (z + u) => t = (y + z - x) + u
    OBVIOUS
  <2> DEFINE x == d * a
             y == d * k
             z == d * b
  <2>5. w = (y + z - x) + v
    <3>1. x \in Int /\ y \in Int /\ z \in Int /\ w \in Int /\ v \in Int /\ x + w = y + (z + v)
      BY <2>1, <2>3
    <3> HIDE DEF x, y, z
    <3> QED
      BY ONLY <2>4, <3>1
  <2> QED
    BY <2>2, <2>5
<1>7. w + Half = d * (k + b - a) + (v + Half)
  <2>1. d * (k + b - a) \in Int /\ w \in Int /\ v \in Int
    BY <1>0, <1>1, <1>4
  <2> QED
    BY <1>0, <1>6, <2>1
<1>8. w + Half \in 0 .. d - 1 /\ v + Half \in 0 .. d - 1
  BY <1>0, <1>1, <1>4
<1>9. w + Half = v + Half
  BY <1>4, <1>7, <1>8, SameRemainder
<1>10. w = v
  BY <1>0, <1>1, <1>9
<1> QED
  BY <1>10 DEF w, v

LEMMA WrapFits ==
  ASSUME NEW n \in Int, InRange(n)
  PROVE  Wrap(n) = n
<1>0. Half \in Nat \ {0} /\ 2 * Half \in Nat \ {0}
  BY HalfPositive
<1>1. PICK k \in Int : n = (2 * Half) * k + Wrap(n)
  BY Wraps
<1>2. n \in -Half .. Half - 1 /\ Wrap(n) \in -Half .. Half - 1
  BY Wraps DEF InRange, Half
<1> DEFINE d == 2 * Half
           w == Wrap(n)
<1>3. n + Half \in 0 .. d - 1 /\ w + Half \in 0 .. d - 1
  BY <1>0, <1>2
<1> HIDE DEF w
<1>4. n + Half = d * k + (w + Half)
  BY <1>0, <1>1, <1>2 DEF w
<1>5. n + Half = w + Half
  BY <1>0, <1>3, <1>4, SameRemainder
<1> QED
  BY <1>0, <1>2, <1>5 DEF w

\* Sums, differences and products may be cut before or after.
LEMMA WrapArithmetic ==
  ASSUME NEW a \in Int, NEW b \in Int, NEW op \in {"+", "-", "*"}
  PROVE  Wrap(Arithmetic(op, Wrap(a), Wrap(b))) = Wrap(Arithmetic(op, a, b))
<1>0. Half \in Nat \ {0} /\ 2 * Half \in Nat \ {0}
  BY HalfPositive
<1> DEFINE d == 2 * Half
           v == Wrap(a)
           w == Wrap(b)
<1>1. v \in Int /\ w \in Int
  BY Wraps
<1>2. PICK k \in Int : a = d * k + v
  BY Wraps
<1>3. PICK m \in Int : b = d * m + w
  BY Wraps
<1> HIDE DEF v, w
<1> HIDE DEF d
<1>4. d \in Nat \ {0}
  BY <1>0 DEF d
<1>5. \A x, y, z \in Int : x = d * z + y => Wrap(y) = Wrap(x)
  BY WrapSame DEF d
<1>6. CASE op = "+"
  <2>1. a + b = d * (k + m) + (v + w)
    <3>1. d * (k + m) = d * k + d * m
      BY <1>4
    <3>2. d * k \in Int /\ d * m \in Int
      BY <1>4
    <3> QED
      BY <1>1, <1>2, <1>3, <3>1, <3>2
  <2>2. Wrap(v + w) = Wrap(a + b)
    BY <1>1, <1>5, <2>1
  <2> QED
    BY <1>6, <2>2 DEF Arithmetic, v, w
<1>7. CASE op = "-"
  <2>1. a - b = d * (k - m) + (v - w)
    <3>1. d * (k - m) = d * k - d * m
      BY <1>4
    <3>2. d * k \in Int /\ d * m \in Int
      BY <1>4
    <3> QED
      BY <1>1, <1>2, <1>3, <3>1, <3>2
  <2>2. Wrap(v - w) = Wrap(a - b)
    BY <1>1, <1>5, <2>1
  <2> QED
    BY <1>7, <2>2 DEF Arithmetic, v, w
<1>8. CASE op = "*"
  <2>1. a * b = d * (k * (d * m) + k * w + v * m) + v * w
    <3>1. a * b = (d * k + v) * (d * m + w)
      BY <1>2, <1>3
    <3>2. \A x, y \in Int : (x + v) * (y + w) = x * y + x * w + v * y + v * w
      BY <1>1
    <3>3. d * k \in Int /\ d * m \in Int
      BY <1>4
    <3>4. (d * k + v) * (d * m + w) = (d * k) * (d * m) + (d * k) * w + v * (d * m) + v * w
      BY <3>2, <3>3
    <3>5. (d * k) * (d * m) = d * (k * (d * m)) /\ (d * k) * w = d * (k * w) /\ v * (d * m) = d * (v * m)
      BY <1>1, <1>4
    <3>6. d * (k * (d * m) + k * w + v * m) = d * (k * (d * m)) + d * (k * w) + d * (v * m)
      BY <1>1, <1>4
    <3> QED
      BY <3>1, <3>4, <3>5, <3>6
  <2>2. k * (d * m) + k * w + v * m \in Int /\ v * w \in Int /\ a * b \in Int
    BY <1>1, <1>4
  <2>3. Wrap(v * w) = Wrap(a * b)
    BY <1>5, <2>1, <2>2
  <2> QED
    BY <1>8, <2>3 DEF Arithmetic, v, w
<1> QED
  BY <1>6, <1>7, <1>8
-----------------------------------------------------------------------------
(* Functions over integers *)

\* Step n of a run of F executes an instruction, Step(F, n).
Running(F, n) == States(F)[n].end = "" /\ States(F)[n].at \in Places(F)
Step(F, n) == At(F, States(F)[n].at)

\* A variable is set before it is read: its memory holds nothing before.
SetsBeforeReads(F) ==
  \A n \in 0 .. Fuel : Running(F, n) =>
    \A x \in Variables(F) \ ToSet(F.params) : Reads(Step(F, n), x) =>
      \E m \in 0 .. n - 1 : Running(F, m) /\ Step(F, m).dst = x

\* The integer that v holds in run r.
Number(r, v) == IF v.is = "var" THEN r.env[v.name].val ELSE Wrap(v.val)

Overflows(r, i) ==
  i.op = "binary" /\ ~ (Divides(i) /\ Number(r, i.in[2]) = 0)
  /\ ~ InRange(Arithmetic(i.operator, Number(r, i.in[1]), Number(r, i.in[2])))

\* What i computes and reads in run r are numbers that fit.
Fits(r, i) ==
  /\ ~ Overflows(r, i)
  /\ \A k \in DOMAIN i.in : i.in[k].is = "int" => InRange(i.in[k].val)

HasDivision(F) == \E p \in Places(F) : At(F, p).op = "binary" /\ Divides(At(F, p))

\* A function that divides keeps to numbers that fit.
Exact(F) == HasDivision(F) => \A n \in 0 .. Fuel : Running(F, n) => Fits(States(F)[n], Step(F, n))

\* Strings and arrays are not what the variables hold.
OnlyNumbers(F) ==
  /\ \A x \in Variables(F) : F.types[x] \notin {"string", "array"}
  /\ \A p \in Places(F) : At(F, p).op = "move" => At(F, p).in[1].is # "str"

Plain(F) == OnlyNumbers(F) /\ SetsBeforeReads(F) /\ Exact(F)

-----------------------------------------------------------------------------
(* fold_constants keeps the runs of such functions *)

LEMMA EvalInt ==
  ASSUME NEW r, NEW n
  PROVE  Eval(r, Lit(n)) = [r |-> r, v |-> Lit(Wrap(n))]
BY DEF Eval, Lit

LEMMA MoveOfInt ==
  ASSUME NEW F, NEW r, NEW i, NEW n, i.op = "move", i.in = <<Lit(n)>>
  PROVE  Execute(F, r, i) = GoOn(Set(r, i.dst, Lit(Wrap(n))))
<1> DEFINE c == Lit(n)
           e == [r |-> r, v |-> Lit(Wrap(n))]
<1>1. Eval(r, c) = e
  BY EvalInt
<1> HIDE DEF c
<1>2. i.in # <<>> /\ Len(i.in) = 1 /\ i.in[1] = c
  BY DEF c
<1> HIDE DEF e
<1>3. First(r, i) = e
  BY <1>1, <1>2 DEF First
<1>4. Second(r, i) = e
  BY <1>2, <1>3 DEF Second
<1>5. Third(r, i) = e
  BY <1>2, <1>4 DEF Third
<1>6. e.r = r /\ e.v = Lit(Wrap(n))
  BY DEF e
<1>7. Evaluated(r, i) = r /\ A(r, i) = Lit(Wrap(n))
  BY <1>3, <1>5, <1>6 DEF Evaluated, A
<1> DEFINE a == Lit(Wrap(n))
           b == B(r, i)
           d == C(r, i)
<1>8. Execute(F, r, i) = Effect(F, Evaluated(r, i), i, A(r, i), b, d)
  BY ExecuteOf
<1>9. Execute(F, r, i) = Effect(F, r, i, a, b, d)
  BY <1>7, <1>8, Zenon
<1> HIDE DEF a, b, d
<1>10. Effect(F, r, i, a, b, d) = GoOn(Set(r, i.dst, a))
  BY i.op = "move" DEF Effect
<1> QED
  BY <1>9, <1>10, Zenon DEF a

LEMMA BinaryOfInts ==
  ASSUME NEW F, NEW r, NEW i, NEW m, NEW n, i.op = "binary", NEW W, i.in \in [1 .. 2 -> W],
         i.in[1] = Lit(m), i.in[2] = Lit(n), ~ (Divides(i) /\ Wrap(n) = 0)
  PROVE  Execute(F, r, i) = GoOn(Set(r, i.dst, Lit(Wrap(Arithmetic(i.operator, Wrap(m), Wrap(n))))))
<1> DEFINE a == Lit(Wrap(m))
           b == Lit(Wrap(n))
           e == [r |-> r, v |-> a]
           f == [r |-> r, v |-> b]
<1>1. Eval(r, i.in[1]) = e /\ Eval(r, i.in[2]) = f
  BY EvalInt
<1>2. i.in # <<>> /\ Len(i.in) = 2
  <2>1. \A k \in Nat : \A s \in [1 .. k -> W] : s \in Seq(W) /\ Len(s) = k
    OBVIOUS
  <2>2. i.in \in Seq(W) /\ Len(i.in) = 2
    BY <2>1
  <2> QED
    BY <2>2
<1>3. e.r = r /\ f.r = r /\ e.v = a /\ f.v = b /\ a.val = Wrap(m) /\ b.val = Wrap(n)
  BY DEF Lit
<1> HIDE DEF e, f, a, b
<1>4. First(r, i) = e
  BY <1>1, <1>2 DEF First
<1>5. Second(r, i) = f
  BY <1>1, <1>2, <1>3, <1>4 DEF Second
<1>6. Third(r, i) = f
  BY <1>2, <1>5 DEF Third
<1>7. Evaluated(r, i) = r /\ A(r, i) = a /\ B(r, i) = b
  BY <1>3, <1>4, <1>5, <1>6 DEF Evaluated, A, B
<1> DEFINE d == C(r, i)
<1>8. Execute(F, r, i) = Effect(F, Evaluated(r, i), i, A(r, i), B(r, i), d)
  BY ExecuteOf
<1>9. Execute(F, r, i) = Effect(F, r, i, a, b, d)
  BY <1>7, <1>8, Zenon
<1> HIDE DEF d
<1>10. ~ (Divides(i) /\ b.val = 0)
  BY <1>3
<1>11. Effect(F, r, i, a, b, d) = GoOn(Set(r, i.dst, Lit(Wrap(Arithmetic(i.operator, a.val, b.val)))))
  BY <1>10, i.op = "binary" DEF Effect
<1> QED
  BY <1>3, <1>9, <1>11, Zenon

\* An instruction that is folded does what it did.
LEMMA FoldedSame ==
  ASSUME NEW F, NEW V, NEW r, NEW i \in InstructionOver(V), Folds(i),
         Divides(i) => InRange(i.in[1].val) /\ InRange(i.in[2].val)
  PROVE  Execute(F, r, Folded(i)) = Execute(F, r, i)
<1> DEFINE a == i.in[1].val
           b == i.in[2].val
           n == Arithmetic(i.operator, a, b)
           j == Folded(i)
<1>1. /\ i.op = "binary" /\ i.operator \in {"+", "-", "*", "/", "%"}
      /\ j.op = "move" /\ j.dst = i.dst
      /\ a \in Int /\ b \in Int /\ i.in[1] = Lit(a) /\ i.in[2] = Lit(b)
      /\ Divides(i) => b # 0
      /\ j.in = <<Lit(n)>> /\ i.in \in [1 .. 2 -> ValueOver(V)]
  BY FoldedInstruction DEF Divides
<1>2. Divides(i) => InRange(a) /\ InRange(b)
  OBVIOUS
<1> HIDE DEF a, b, n, j
<1>3. Wrap(Arithmetic(i.operator, Wrap(a), Wrap(b))) = Wrap(n) /\ ~ (Divides(i) /\ Wrap(b) = 0)
  <2>1. CASE Divides(i)
    <3>1. Wrap(a) = a /\ Wrap(b) = b
      BY <1>1, <1>2, <2>1, WrapFits
    <3> QED
      BY <1>1, <2>1, <3>1 DEF n
  <2>2. CASE ~ Divides(i)
    <3>1. i.operator \in {"+", "-", "*"}
      BY <1>1, <2>2 DEF Divides
    <3> QED
      BY <1>1, <2>2, <3>1, WrapArithmetic DEF n
  <2> QED
    BY <2>1, <2>2
<1>4. Execute(F, r, j) = GoOn(Set(r, j.dst, Lit(Wrap(n))))
  BY <1>1, MoveOfInt
<1>5. Execute(F, r, i) = GoOn(Set(r, i.dst, Lit(Wrap(Arithmetic(i.operator, Wrap(a), Wrap(b))))))
  BY <1>1, <1>3, BinaryOfInts
<1> QED
  BY <1>1, <1>3, <1>4, <1>5 DEF j

-----------------------------------------------------------------------------
(* What a pass must do to leave the runs as they are *)

RunsAlike(F, G) == \A n \in 0 .. Fuel : States(G)[n] = States(F)[n]

\* A variable stays set before it is read if the instructions set what they set and
\* read no more than they read.
LEMMA SetsStay ==
  ASSUME NEW F, NEW G, SetsBeforeReads(F),
         Variables(G) = Variables(F), G.params = F.params,
         \A n \in 0 .. Fuel : Running(F, n) <=> Running(G, n),
         \A n \in 0 .. Fuel : Running(F, n) =>
            /\ Step(G, n).dst = Step(F, n).dst
            /\ \A x : Reads(Step(G, n), x) => Reads(Step(F, n), x)
  PROVE  SetsBeforeReads(G)
<1> SUFFICES ASSUME NEW n \in 0 .. Fuel, Running(G, n), NEW x \in Variables(G) \ ToSet(G.params),
                    Reads(Step(G, n), x)
             PROVE  \E m \in 0 .. n - 1 : Running(G, m) /\ Step(G, m).dst = x
  BY Zenon DEF SetsBeforeReads
<1>1. Running(F, n) /\ Reads(Step(F, n), x) /\ x \in Variables(F) \ ToSet(F.params)
  BY Zenon
<1>2. PICK m \in 0 .. n - 1 : Running(F, m) /\ Step(F, m).dst = x
  BY <1>1, Zenon DEF SetsBeforeReads
<1>3. m \in 0 .. Fuel
  BY OptimizerAssumption
<1>4. Running(G, m) /\ Step(G, m).dst = x
  BY <1>2, <1>3
<1> QED
  BY <1>4

\* The runs stay when the instructions that are executed do what they did.
LEMMA RelabelRuns ==
  ASSUME NEW F, IsFunction(F), NEW t \in [Places(F) -> InstructionOver(Variables(F))],
         \A n \in 0 .. Fuel : Running(F, n) =>
            Execute(F, States(F)[n], t[States(F)[n].at]) = Execute(F, States(F)[n], Step(F, n))
  PROVE  /\ RunsAlike(F, Relabel(F, t))
         /\ \A n \in 0 .. Fuel : Running(F, n) <=> Running(Relabel(F, t), n)
         /\ \A n \in 0 .. Fuel : Running(F, n) => Step(Relabel(F, t), n) = t[States(F)[n].at]
<1> DEFINE G == Relabel(F, t)
<1>1. G.types = F.types /\ Places(G) = Places(F) /\ \A p \in Places(F) : At(G, p) = t[p]
  BY Relabelled
<1> HIDE DEF G
<1>2. Entry(G) = Entry(F)
  BY <1>1, Zenon DEF Entry
<1>3. ASSUME NEW n \in 0 .. Fuel PROVE Onward(G, States(F)[n]) = Onward(F, States(F)[n])
  <2> DEFINE r == States(F)[n]
  <2>1. CASE r.end # "" \/ r.at \notin Places(F)
    BY <1>1, <2>1 DEF Onward
  <2>2. CASE r.end = "" /\ r.at \in Places(F)
    <3>1. Onward(G, r) = Execute(G, r, t[r.at]) /\ Onward(F, r) = Execute(F, r, At(F, r.at))
      BY <1>1, <2>2 DEF Onward
    <3>2. Execute(F, r, t[r.at]) = Execute(F, r, At(F, r.at))
      BY <2>2 DEF Running, Step
    <3>3. Execute(F, r, t[r.at]) = Execute(G, r, t[r.at])
      BY <1>1, ExecuteByTypes
    <3> QED
      BY <3>1, <3>2, <3>3
  <2> QED
    BY <2>1, <2>2
<1>4. \A n \in 0 .. Fuel : States(G)[n] = States(F)[n]
  <2>1. Fuel \in Nat
    BY OptimizerAssumption
  <2> QED
    BY <1>2, <1>3, <2>1, SameRuns
<1>5. ASSUME NEW n \in 0 .. Fuel PROVE Running(F, n) <=> Running(G, n)
  BY <1>1, <1>4 DEF Running
<1>6. ASSUME NEW n \in 0 .. Fuel, Running(F, n) PROVE Step(G, n) = t[States(F)[n].at]
  BY <1>1, <1>4, <1>6 DEF Running, Step
<1> QED
  BY <1>4, <1>5, <1>6 DEF G, RunsAlike

-----------------------------------------------------------------------------
(* fold_constants *)

LEMMA FoldedFits ==
  ASSUME NEW V, NEW r, NEW i \in InstructionOver(V), Folds(i), Fits(r, i)
  PROVE  Fits(r, Folded(i))
<1> DEFINE a == i.in[1].val
           b == i.in[2].val
           n == Arithmetic(i.operator, a, b)
           j == Folded(i)
<1>1. /\ i.op = "binary" /\ j.op = "move"
      /\ a \in Int /\ b \in Int /\ i.in[1] = Lit(a) /\ i.in[2] = Lit(b)
      /\ Divides(i) => b # 0
      /\ j.in = <<Lit(n)>> /\ i.in \in [1 .. 2 -> ValueOver(V)]
  BY FoldedInstruction DEF Divides
<1>2. i.in[1].is = "int" /\ i.in[2].is = "int" /\ 1 \in DOMAIN i.in /\ 2 \in DOMAIN i.in
  BY <1>1 DEF Lit
<1>3. InRange(a) /\ InRange(b)
  BY <1>2 DEF Fits
<1> HIDE DEF a, b, n, j
<1>4. Wrap(a) = a /\ Wrap(b) = b
  BY <1>1, <1>3, WrapFits
<1>5. Number(r, i.in[1]) = a /\ Number(r, i.in[2]) = b
  BY <1>1, <1>4 DEF Number, Lit
<1>6. InRange(n)
  <2>1. ~ Overflows(r, i)
    BY DEF Fits
  <2> QED
    BY <1>1, <1>5, <2>1, Zenon DEF Overflows, n
<1>7. DOMAIN j.in = {1} /\ j.in[1] = Lit(n)
  BY <1>1
<1>8. j.in[1].val = n
  BY <1>7 DEF Lit
<1>9. ~ Overflows(r, j)
  BY <1>1 DEF Overflows
<1> QED
  BY <1>6, <1>7, <1>8, <1>9 DEF Fits, j

\* Folding leaves every run as it is, strings and arrays included, if the constants that
\* an executed division divides fit in an integer: the sums, differences and products may
\* overflow, they are cut when the run reads them (fold_constants in opt.rs).
THEOREM FoldingKeepsRuns ==
  ASSUME NEW F, IsFunction(F),
         \A n \in 0 .. Fuel : Running(F, n) /\ Folds(Step(F, n)) /\ Divides(Step(F, n)) =>
            InRange(Step(F, n).in[1].val) /\ InRange(Step(F, n).in[2].val)
  PROVE  /\ RunsAlike(F, FoldConstants(F))
         /\ \A n \in 0 .. Fuel : Running(F, n) <=> Running(FoldConstants(F), n)
         /\ \A n \in 0 .. Fuel : Running(F, n) => Step(FoldConstants(F), n) = Folded(Step(F, n))
<1> DEFINE t == FoldedTable(F)
           G == FoldConstants(F)
           V == Variables(F)
<1>1. t \in [Places(F) -> InstructionOver(V)] /\ G = Relabel(F, t)
  BY FoldIsRelabel
<1>2. ASSUME NEW n \in 0 .. Fuel, Running(F, n)
      PROVE  /\ Step(F, n) \in InstructionOver(V)
             /\ t[States(F)[n].at] = Folded(Step(F, n))
  BY <1>1, <1>2, InstructionAt DEF Running, Step, FoldedTable
<1> HIDE DEF t, G
<1>3. ASSUME NEW n \in 0 .. Fuel, Running(F, n)
      PROVE  Execute(F, States(F)[n], t[States(F)[n].at]) = Execute(F, States(F)[n], Step(F, n))
  <2> DEFINE i == Step(F, n)
             r == States(F)[n]
  <2>1. i \in InstructionOver(V) /\ t[r.at] = Folded(i)
    BY <1>2, <1>3
  <2>2. Folds(i) /\ Divides(i) => InRange(i.in[1].val) /\ InRange(i.in[2].val)
    BY <1>3
  <2> HIDE DEF i, r
  <2>3. Execute(F, r, Folded(i)) = Execute(F, r, i)
    <3>1. CASE Folds(i)
      BY <2>1, <2>2, <3>1, FoldedSame
    <3>2. CASE ~ Folds(i)
      BY <3>2 DEF Folded
    <3> QED
      BY <3>1, <3>2
  <2> QED
    BY <2>1, <2>3 DEF i, r
<1>4. /\ RunsAlike(F, G)
      /\ \A n \in 0 .. Fuel : Running(F, n) <=> Running(G, n)
      /\ \A n \in 0 .. Fuel : Running(F, n) => Step(G, n) = t[States(F)[n].at]
  BY <1>1, <1>3, RelabelRuns
<1> QED
  BY <1>2, <1>4 DEF G

LEMMA FoldingKeepsPlain ==
  ASSUME NEW F, IsFunction(F), Plain(F)
  PROVE  RunsAlike(F, FoldConstants(F)) /\ Plain(FoldConstants(F))
<1> DEFINE t == FoldedTable(F)
           G == FoldConstants(F)
           V == Variables(F)
<1>1. t \in [Places(F) -> InstructionOver(V)] /\ G = Relabel(F, t)
  BY FoldIsRelabel
<1>2. ASSUME NEW p \in Places(F)
      PROVE  At(F, p) \in InstructionOver(V) /\ t[p] = Folded(At(F, p))
  BY <1>1, InstructionAt DEF FoldedTable
<1>3. G.types = F.types /\ G.params = F.params /\ Places(G) = Places(F)
      /\ \A p \in Places(F) : At(G, p) = t[p]
  BY <1>1, Relabelled
<1> HIDE DEF t, G
<1>4. OnlyNumbers(F) /\ SetsBeforeReads(F) /\ Exact(F)
  BY DEF Plain
<1>5. ASSUME NEW p \in Places(F), ~ Folds(At(F, p)) PROVE t[p] = At(F, p)
  BY <1>2, <1>5 DEF Folded
<1>6. ASSUME NEW p \in Places(F), Folds(At(F, p))
      PROVE  /\ t[p].dst = At(F, p).dst /\ t[p].op = "move"
             /\ t[p].in[1].is = "int" /\ \A x : ~ Reads(t[p], x)
  <2> DEFINE n == Arithmetic(At(F, p).operator, At(F, p).in[1].val, At(F, p).in[2].val)
  <2>1. t[p].op = "move" /\ t[p].dst = At(F, p).dst /\ t[p].in = <<Lit(n)>>
    BY <1>2, <1>6, FoldedInstruction
  <2> HIDE DEF n
  <2>2. DOMAIN t[p].in = {1} /\ t[p].in[1] = Lit(n)
    BY <2>1
  <2>3. t[p].in[1].is = "int"
    BY <2>2 DEF Lit
  <2> QED
    BY <2>1, <2>2, <2>3 DEF Reads, Var
<1>7. ASSUME NEW n \in 0 .. Fuel, Running(F, n)
      PROVE  /\ States(F)[n].at \in Places(F) /\ Step(F, n) = At(F, States(F)[n].at)
             /\ HasDivision(F) => Fits(States(F)[n], Step(F, n))
  BY <1>4, <1>7 DEF Running, Step, Exact
<1>8. ASSUME NEW n \in 0 .. Fuel, Running(F, n), Folds(Step(F, n)), Divides(Step(F, n))
      PROVE  InRange(Step(F, n).in[1].val) /\ InRange(Step(F, n).in[2].val)
  <2> DEFINE p == States(F)[n].at
             i == At(F, p)
  <2>1. p \in Places(F) /\ Step(F, n) = i /\ i \in InstructionOver(V)
    BY <1>2, <1>7, <1>8
  <2>2. i.op = "binary" /\ i.in[1].is = "int" /\ i.in[2].is = "int" /\ i.in \in [1 .. 2 -> ValueOver(V)]
    BY <1>8, <2>1, FoldedInstruction DEF Folds
  <2>3. HasDivision(F)
    BY <1>8, <2>1, <2>2, Zenon DEF HasDivision
  <2>4. Fits(States(F)[n], i)
    BY <1>7, <1>8, <2>1, <2>3
  <2> HIDE DEF p, i
  <2>5. InRange(i.in[1].val) /\ InRange(i.in[2].val)
    BY <2>2, <2>4 DEF Fits
  <2> QED
    BY <2>1, <2>5
<1>9. /\ RunsAlike(F, G)
      /\ \A n \in 0 .. Fuel : Running(F, n) <=> Running(G, n)
      /\ \A n \in 0 .. Fuel : Running(F, n) => Step(G, n) = t[States(F)[n].at]
  <2>1. /\ RunsAlike(F, G)
        /\ \A n \in 0 .. Fuel : Running(F, n) <=> Running(G, n)
        /\ \A n \in 0 .. Fuel : Running(F, n) => Step(G, n) = Folded(Step(F, n))
    BY <1>8, FoldingKeepsRuns DEF G
  <2>2. \A n \in 0 .. Fuel : Running(F, n) => t[States(F)[n].at] = Folded(Step(F, n))
    BY <1>2, <1>7
  <2> QED
    BY <2>1, <2>2
<1>10. OnlyNumbers(G)
  <2>1. Variables(G) = Variables(F)
    BY <1>3 DEF Variables
  <2>2. ASSUME NEW p \in Places(G), At(G, p).op = "move" PROVE At(G, p).in[1].is # "str"
    <3>1. p \in Places(F) /\ At(G, p) = t[p]
      BY <1>3
    <3>2. CASE Folds(At(F, p))
      BY <1>6, <3>1, <3>2
    <3>3. CASE ~ Folds(At(F, p))
      BY <1>4, <1>5, <2>2, <3>1, <3>3 DEF OnlyNumbers
    <3> QED
      BY <3>2, <3>3
  <2> QED
    BY <1>3, <1>4, <2>1, <2>2 DEF OnlyNumbers
<1>11. SetsBeforeReads(G)
  <2>1. Variables(G) = Variables(F)
    BY <1>3 DEF Variables
  <2>2. ASSUME NEW n \in 0 .. Fuel, Running(F, n)
        PROVE  /\ Step(G, n).dst = Step(F, n).dst
               /\ \A x : Reads(Step(G, n), x) => Reads(Step(F, n), x)
    <3> DEFINE p == States(F)[n].at
    <3>1. p \in Places(F) /\ Step(F, n) = At(F, p) /\ Step(G, n) = t[p]
      BY <1>7, <1>9, <2>2
    <3> HIDE DEF p
    <3> QED
      BY <1>5, <1>6, <3>1
  <2> QED
    BY <1>3, <1>4, <1>9, <2>1, <2>2, SetsStay
<1>12. Exact(G)
  <2> SUFFICES ASSUME HasDivision(G), NEW n \in 0 .. Fuel, Running(G, n)
               PROVE  Fits(States(G)[n], Step(G, n))
    BY Zenon DEF Exact
  <2>1. PICK q \in Places(G) : At(G, q).op = "binary" /\ Divides(At(G, q))
    BY Zenon DEF HasDivision
  <2>2. q \in Places(F) /\ At(G, q) = t[q]
    BY <1>3, <2>1
  <2>3. At(G, q) = At(F, q)
    BY <1>5, <1>6, <2>1, <2>2
  <2>4. HasDivision(F)
    BY <2>1, <2>2, <2>3, Zenon DEF HasDivision
  <2> DEFINE p == States(F)[n].at
             r == States(F)[n]
             i == At(F, p)
  <2>5. Running(F, n) /\ States(G)[n] = r /\ Step(G, n) = t[p]
    BY <1>9 DEF RunsAlike
  <2>6. p \in Places(F) /\ Fits(r, i)
    BY <1>7, <2>4, <2>5
  <2>7. i \in InstructionOver(V) /\ t[p] = Folded(i)
    BY <1>2, <2>6
  <2>8. CASE Folds(i)
    <3>1. Fits(r, Folded(i))
      BY <2>6, <2>7, <2>8, FoldedFits
    <3> QED
      BY <2>5, <2>7, <3>1
  <2>9. CASE ~ Folds(i)
    BY <1>5, <2>5, <2>6, <2>9
  <2> QED
    BY <2>8, <2>9
<1> QED
  BY <1>9, <1>10, <1>11, <1>12, Zenon DEF G, Plain

-----------------------------------------------------------------------------
(* The passes that have nothing to do with numbers, and eliminate_dead_code *)

LEMMA NothingPromoted ==
  ASSUME NEW F, IsFunction(F), OnlyNumbers(F)
  PROVE  PromoteArrays(F) = F
<1> DEFINE made == {i \in Instructions(F) :
                      /\ i.op = "call" /\ i.callee = "array" /\ i.in[1].is = "int" /\ i.in[1].val > 0
                      /\ F.types[i.dst] = "array" /\ StaysLocal(F, i.dst, i.in[1].val)}
           promoted == UNION {Aliases(F, i.dst) : i \in made}
           T == PromotedTypes(F, promoted)
<1>1. PromoteArrays(F) = [F EXCEPT !.types = T]
  BY Zenon DEF PromoteArrays, PromotedTypes, Variables
<1>2. ASSUME NEW i \in made PROVE FALSE
  <2>1. PICK p \in Places(F) : i = At(F, p)
    BY DEF Instructions
  <2>2. i.op = "call" /\ i.callee = "array" /\ F.types[i.dst] = "array"
    OBVIOUS
  <2>3. i \in InstructionOver(Variables(F))
    BY <2>1, InstructionAt
  <2>4. i.dst \in Variables(F)
    BY <2>2, <2>3, InstructionFields
  <2> QED
    BY <2>2, <2>4 DEF OnlyNumbers
<1>3. promoted = {}
  BY <1>2, Zenon
<1> HIDE DEF promoted
<1>4. F.types = [x \in DOMAIN F.types |-> F.types[x]]
  BY Zenon DEF IsFunction
<1>5. T = F.types
  BY <1>3, <1>4 DEF PromotedTypes, Variables
<1>6. F = [params |-> F.params, types |-> F.types, blocks |-> F.blocks]
  BY Blocks
<1> HIDE DEF T
<1>7. [F EXCEPT !.types = F.types] = F
  <2> DEFINE P == F.params
             S == F.types
             body == F.blocks
  <2>1. F = [params |-> P, types |-> S, blocks |-> body]
    BY <1>6
  <2> HIDE DEF P, S, body
  <2>2. F.types = S
    BY <2>1
  <2>3. [F EXCEPT !.types = S] = F
    BY <2>1
  <2> QED
    BY <2>2, <2>3
<1> QED
  BY <1>1, <1>5, <1>7

LEMMA NothingAppended ==
  ASSUME NEW F, IsFunction(F), OnlyNumbers(F)
  PROVE  RewriteAppends(F) = F
<1> DEFINE t == InPlaceTable(F)
           owned == Owned(F)
           u == [b \in DOMAIN F.blocks |-> [k \in DOMAIN F.blocks[b] |-> t[<<b, k>>]]]
<1>1. RewriteAppends(F) = Relabel(F, t)
  BY AppendIsRelabel
<1>2. owned = {}
  BY DEF Owned, OnlyNumbers, Variables
<1> HIDE DEF owned
<1>3. ASSUME NEW p \in Places(F) PROVE t[p] = At(F, p)
  <2>1. t[p] = GrownInPlace(F, owned, p)
    BY DEF InPlaceTable, owned
  <2>2. ~ Clears(F, owned, p) /\ ~ Appends(F, owned, p)
    BY <1>2, Zenon DEF Clears, Appends
  <2> QED
    BY <2>1, <2>2, InPlaceForms
<1>4. Relabel(F, t) = [F EXCEPT !.blocks = u]
  BY Zenon DEF Relabel
<1> HIDE DEF t
<1> DEFINE P == F.params
           S == F.types
           body == F.blocks
<1>5. \A b \in DOMAIN body : \A k \in DOMAIN body[b] : t[<<b, k>>] = body[b][k]
  <2> TAKE b \in DOMAIN body
  <2> TAKE k \in DOMAIN body[b]
  <2>1. <<b, k>> \in Places(F)
    BY PlaceOf
  <2>2. At(F, <<b, k>>) = body[b][k]
    BY DEF At
  <2> QED
    BY <1>3, <2>1, <2>2
<1>6. F = [params |-> P, types |-> S, blocks |-> body]
  BY Blocks
<1>7. F.blocks \in Seq(Seq(InstructionOver(Variables(F))))
  BY Zenon DEF IsFunction, Variables
<1>8. body = [b \in DOMAIN body |-> body[b]] /\ \A b \in DOMAIN body : body[b] = [k \in DOMAIN body[b] |-> body[b][k]]
  <2> DEFINE I == InstructionOver(Variables(F))
  <2>1. body \in Seq(Seq(I))
    BY <1>7
  <2> HIDE DEF I, body
  <2>2. body = [b \in DOMAIN body |-> body[b]] /\ \A b \in DOMAIN body : body[b] \in Seq(I)
    BY <2>1
  <2>3. \A s \in Seq(I) : s = [k \in DOMAIN s |-> s[k]]
    OBVIOUS
  <2> QED
    BY <2>2, <2>3
<1>9. u = body
  <2> HIDE DEF body
  <2>1. u = [b \in DOMAIN body |-> [k \in DOMAIN body[b] |-> t[<<b, k>>]]]
    BY DEF body
  <2>2. \A b \in DOMAIN body : [k \in DOMAIN body[b] |-> t[<<b, k>>]] = body[b]
    BY <1>5, <1>8
  <2> HIDE DEF u
  <2> QED
    BY <1>8, <2>1, <2>2
<1> HIDE DEF u, P, S, body
<1>10. [F EXCEPT !.blocks = body] = F
  BY <1>6
<1> QED
  BY <1>1, <1>4, <1>9, <1>10

LEMMA DeadCodeKeepsPlain ==
  ASSUME NEW F, IsFunction(F), Plain(F)
  PROVE  RunsAlike(F, EliminateDead(F)) /\ Plain(EliminateDead(F))
<1> DEFINE G == EliminateDead(F)
<1>1. /\ IsFunction(G) /\ G.types = F.types /\ G.params = F.params
      /\ Places(G) \subseteq Places(F)
      /\ \A p \in Places(G) : At(G, p) = At(F, p)
  BY DeadEliminated
<1>2. \A n \in Nat : States(G)[n] = States(F)[n]
  BY DeadCodeKeepsRuns
<1>3. \A n \in Nat : Running(F, n) => States(F)[n].at \in Places(G)
  BY RunsStayInside DEF Running
<1> HIDE DEF G
<1>4. Fuel \in Nat
  BY OptimizerAssumption
<1>5. ASSUME NEW n \in 0 .. Fuel
      PROVE  /\ Running(F, n) <=> Running(G, n)
             /\ Running(F, n) => Step(G, n) = Step(F, n)
  <2> DEFINE r == States(F)[n]
  <2>1. n \in Nat /\ States(G)[n] = r
    BY <1>2, <1>4
  <2>2. (Running(F, n) <=> (~ Ended(r) /\ r.at \in Places(F))) /\ Step(F, n) = At(F, r.at)
    BY Zenon DEF Running, Step, Ended
  <2>3. (Running(G, n) <=> (~ Ended(r) /\ r.at \in Places(G))) /\ Step(G, n) = At(G, r.at)
    BY <2>1, Zenon DEF Running, Step, Ended
  <2>4. Running(F, n) => r.at \in Places(G)
    BY <1>3, <2>1
  <2> HIDE DEF r
  <2> QED
    BY <1>1, <2>2, <2>3, <2>4
<1>6. OnlyNumbers(F) /\ SetsBeforeReads(F) /\ Exact(F)
  BY DEF Plain
<1>7. Variables(G) = Variables(F)
  BY <1>1 DEF Variables
<1>8. OnlyNumbers(G)
  BY <1>1, <1>6, <1>7 DEF OnlyNumbers
<1>9. SetsBeforeReads(G)
  <2>1. \A n \in 0 .. Fuel : Running(F, n) <=> Running(G, n)
    BY <1>5
  <2>2. \A n \in 0 .. Fuel : Running(F, n) =>
           Step(G, n).dst = Step(F, n).dst /\ \A x : Reads(Step(G, n), x) => Reads(Step(F, n), x)
    BY <1>5
  <2> QED
    BY <1>1, <1>6, <1>7, <2>1, <2>2, SetsStay
<1>10. Exact(G)
  <2>1. HasDivision(G) => HasDivision(F)
    BY <1>1 DEF HasDivision
  <2>2. \A n \in 0 .. Fuel : States(G)[n] = States(F)[n]
    BY <1>2, <1>4
  <2> QED
    BY <1>5, <1>6, <2>1, <2>2, Zenon DEF Exact
<1>11. RunsAlike(F, G)
  BY <1>2, <1>4 DEF RunsAlike
<1> QED
  BY <1>8, <1>9, <1>10, <1>11 DEF G, Plain

-----------------------------------------------------------------------------
(* propagate_constants *)

LEMMA InputsInSeq ==
  ASSUME NEW V, NEW i \in InstructionOver(V)
  PROVE  i.in \in Seq(ValueOver(V))
<1> DEFINE W == ValueOver(V)
<1>1. \/ i.in \in [1 .. 1 -> W] \/ i.in \in [1 .. 2 -> W] \/ i.in \in [1 .. 3 -> W]
      \/ i.in = <<>> \/ i.in \in Seq(W)
  BY InstructionFields
<1> HIDE DEF W
<1>2. \A k \in Nat : \A s \in [1 .. k -> W] : s \in Seq(W)
  OBVIOUS
<1>3. <<>> \in Seq(W)
  OBVIOUS
<1>4. 1 \in Nat /\ 2 \in Nat /\ 3 \in Nat
  OBVIOUS
<1> DEFINE u == i.in
<1> HIDE DEF u
<1>5. \/ u \in [1 .. 1 -> W] \/ u \in [1 .. 2 -> W] \/ u \in [1 .. 3 -> W] \/ u = <<>> \/ u \in Seq(W)
  BY <1>1 DEF u
<1>6. u \in Seq(W)
  BY <1>2, <1>3, <1>4, <1>5, Zenon
<1> QED
  BY <1>6 DEF u, W

\* What an instruction does with its operands depends on nothing but its other parts.
LEMMA EffectByParts ==
  ASSUME NEW F, NEW r, NEW V, NEW i \in InstructionOver(V), NEW j, j.op = i.op, j.dst = i.dst,
         i.op = "binary" => j.operator = i.operator,
         i.op = "call" => j.callee = i.callee,
         i.op \in {"jump", "branch"} => j.to = i.to,
         i.op = "branch" => j.else = i.else,
         NEW a, NEW b, NEW c
  PROVE  Effect(F, r, j, a, b, c) = Effect(F, r, i, a, b, c)
<1>1. i.op \in {"move", "concat", "load", "binary", "call", "store", "return", "throw", "branch", "jump"}
  BY InstructionFields
<1>2. CASE i.op = "move"
  <2>1. j.op = "move"
    BY <1>2
  <2> QED
    BY <1>2, <2>1 DEF Effect
<1>3. CASE i.op = "concat"
  <2>1. j.op = "concat"
    BY <1>3
  <2> QED
    BY <1>3, <2>1 DEF Effect
<1>4. CASE i.op = "load"
  <2>1. j.op = "load"
    BY <1>4
  <2> QED
    BY <1>4, <2>1 DEF Effect
<1>5. CASE i.op = "binary"
  <2>1. j.op = "binary" /\ j.operator = i.operator /\ Divides(j) = Divides(i)
    BY <1>5 DEF Divides
  <2> QED
    BY <1>5, <2>1 DEF Effect
<1>6. CASE i.op = "call"
  <2>1. j.op = "call" /\ j.callee = i.callee
    BY <1>6
  <2>2. CallEffect(F, r, j, a, b) = CallEffect(F, r, i, a, b)
    BY <2>1, Zenon DEF CallEffect
  <2>3. Effect(F, r, j, a, b, c) = GoOn(CallEffect(F, r, j, a, b))
    BY <2>1 DEF Effect
  <2>4. Effect(F, r, i, a, b, c) = GoOn(CallEffect(F, r, i, a, b))
    BY <1>6 DEF Effect
  <2> QED
    BY <2>2, <2>3, <2>4, Zenon
<1>7. CASE i.op = "store"
  <2>1. j.op = "store"
    BY <1>7
  <2> QED
    BY <1>7, <2>1 DEF Effect
<1>8. CASE i.op = "return"
  <2>1. j.op = "return"
    BY <1>8
  <2> QED
    BY <1>8, <2>1 DEF Effect
<1>9. CASE i.op = "throw"
  <2>1. j.op = "throw"
    BY <1>9
  <2> QED
    BY <1>9, <2>1 DEF Effect
<1>10. CASE i.op = "branch"
  <2>1. j.op = "branch" /\ j.to = i.to /\ j.else = i.else
    BY <1>10
  <2> QED
    BY <1>10, <2>1 DEF Effect
<1>11. CASE i.op = "jump"
  <2>1. j.op = "jump" /\ j.to = i.to
    BY <1>11
  <2> QED
    BY <1>11, <2>1 DEF Effect
<1> QED
  BY <1>1, <1>2, <1>3, <1>4, <1>5, <1>6, <1>7, <1>8, <1>9, <1>10, <1>11

\* Operands that evaluate alike make two instructions alike.
LEMMA ExecuteByOperands ==
  ASSUME NEW F, NEW V, NEW r, IsState(V, r), NEW i \in InstructionOver(V), NEW j \in InstructionOver(V),
         j.op = i.op, j.dst = i.dst,
         i.op = "binary" => j.operator = i.operator,
         i.op = "call" => j.callee = i.callee,
         i.op \in {"jump", "branch"} => j.to = i.to,
         i.op = "branch" => j.else = i.else,
         DOMAIN j.in = DOMAIN i.in,
         \A k \in DOMAIN i.in : \A s : s.env = r.env => Eval(s, j.in[k]) = Eval(s, i.in[k])
  PROVE  Execute(F, r, j) = Execute(F, r, i)
<1> DEFINE u == i.in
           w == j.in
<1>1. Len(u) \in Nat /\ Len(w) = Len(u) /\ DOMAIN u = 1 .. Len(u)
      /\ (u = <<>> <=> Len(u) = 0) /\ (w = <<>> <=> Len(w) = 0)
  <2> DEFINE W == ValueOver(V)
  <2>1. u \in Seq(W) /\ w \in Seq(W) /\ DOMAIN w = DOMAIN u
    BY InputsInSeq
  <2> HIDE DEF u, w, W
  <2> QED
    BY <2>1
<1>2. \A k \in 1 .. Len(u) : \A s : s.env = r.env => Eval(s, w[k]) = Eval(s, u[k])
  BY <1>1
<1>3. First(r, j) = First(r, i)
  <2>1. CASE u = <<>>
    BY <1>1, <2>1, Zenon DEF First
  <2>2. CASE u # <<>>
    <3>1. 1 \in 1 .. Len(u)
      BY <1>1, <2>2
    <3>2. Eval(r, w[1]) = Eval(r, u[1])
      BY <1>2, <3>1
    <3>3. w # <<>>
      BY <1>1, <2>2
    <3> QED
      BY <2>2, <3>2, <3>3, Zenon DEF First
  <2> QED
    BY <2>1, <2>2
<1> DEFINE f == First(r, i).r
           g == Second(r, i).r
<1>4. IsState(V, f) /\ f.env = r.env
  <2>1. f = r \/ f = After(r, u[1])
    BY DEF First, After
  <2> HIDE DEF f
  <2> QED
    BY <2>1, EvalKept DEF Kept
<1>5. Second(r, j) = Second(r, i)
  <2>1. CASE Len(u) < 2
    BY <1>1, <1>3, <2>1, Zenon DEF Second
  <2>2. CASE ~ (Len(u) < 2)
    <3>1. 2 \in 1 .. Len(u)
      BY <1>1, <2>2
    <3>2. Eval(f, w[2]) = Eval(f, u[2])
      BY <1>2, <1>4, <3>1
    <3> QED
      BY <1>1, <1>3, <2>2, <3>2, Zenon DEF Second
  <2> QED
    BY <2>1, <2>2
<1>6. IsState(V, g) /\ g.env = r.env
  <2>1. g = f \/ g = After(f, u[2])
    BY DEF Second, After
  <2> HIDE DEF f, g
  <2> QED
    BY <1>4, <2>1, EvalKept DEF Kept
<1>7. Third(r, j) = Third(r, i)
  <2>1. CASE Len(u) < 3
    BY <1>1, <1>5, <2>1, Zenon DEF Third
  <2>2. CASE ~ (Len(u) < 3)
    <3>1. 3 \in 1 .. Len(u)
      BY <1>1, <2>2
    <3>2. Eval(g, w[3]) = Eval(g, u[3])
      BY <1>2, <1>6, <3>1
    <3> QED
      BY <1>1, <1>5, <2>2, <3>2, Zenon DEF Third
  <2> QED
    BY <2>1, <2>2
<1>8. Evaluated(r, j) = Evaluated(r, i) /\ A(r, j) = A(r, i) /\ B(r, j) = B(r, i) /\ C(r, j) = C(r, i)
  BY <1>3, <1>5, <1>7, Zenon DEF Evaluated, A, B, C
<1> DEFINE s == Evaluated(r, i)
           a == A(r, i)
           b == B(r, i)
           c == C(r, i)
<1>9. Execute(F, r, j) = Effect(F, s, j, a, b, c) /\ Execute(F, r, i) = Effect(F, s, i, a, b, c)
  BY <1>8, ExecuteOf, Zenon
<1>10. Effect(F, s, j, a, b, c) = Effect(F, s, i, a, b, c)
  BY EffectByParts
<1> QED
  BY <1>9, <1>10, Zenon

\* Once the definition of a variable has been executed, the variable keeps the constant.
LEMMA KnownHolds ==
  ASSUME NEW F, IsFunction(F), OnlyNumbers(F), NEW x \in SingleConstants(F)
  PROVE  /\ ConstantOf(F, x).is = "int" /\ ConstantOf(F, x).val \in Int
         /\ ConstantOf(F, x) = Lit(ConstantOf(F, x).val)
         /\ \A m \in Nat : Running(F, m) /\ Step(F, m).dst = x =>
              Step(F, m).in = <<ConstantOf(F, x)>>
         /\ \A n \in Nat : \A m \in 0 .. n - 1 : Running(F, m) /\ Step(F, m).dst = x =>
              States(F)[n].env[x] = Lit(Wrap(ConstantOf(F, x).val))
<1> DEFINE c == ConstantOf(F, x)
           V == Variables(F)
           w == Lit(Wrap(c.val))
<1>1. PICK p \in Places(F) : Definitions(F, x) = {p} /\ At(F, p).dst = x
                             /\ At(F, p).op = "move" /\ c = At(F, p).in[1]
  BY KnownConstant
<1>2. x \in V /\ c \in ValueOver(V) /\ c.is # "var"
  BY KnownConstant
<1>3. c.is # "str"
  BY <1>1 DEF OnlyNumbers
<1>4. c.is = "int" /\ c.val \in Int /\ c = Lit(c.val)
  BY <1>2, <1>3, ValueFields
<1>5. NoVar \notin V
  BY Zenon DEF IsFunction, Variables, NoVar
<1>6. At(F, p) \in InstructionOver(V) /\ At(F, p).in = <<c>>
  <2>1. At(F, p) \in InstructionOver(V)
    BY InstructionAt
  <2>2. At(F, p).in \in [1 .. 1 -> ValueOver(V)]
    BY <1>1, <2>1, InstructionFields
  <2> DEFINE u == At(F, p).in
             W == ValueOver(V)
  <2>3. u \in [1 .. 1 -> W] /\ u[1] = c
    BY <1>1, <2>2
  <2> HIDE DEF u, c, W
  <2>4. u = <<c>>
    BY <2>3
  <2> QED
    BY <2>1, <2>4 DEF u
<1> HIDE DEF c
<1>7. ASSUME NEW m \in Nat, Running(F, m), Step(F, m).dst = x
      PROVE  States(F)[m].at = p /\ Step(F, m) = At(F, p)
  <2>1. States(F)[m].at \in Definitions(F, x)
    BY <1>7 DEF Running, Step, Definitions
  <2> QED
    BY <1>1, <2>1 DEF Step
<1> DEFINE T == {n \in Nat : \A m \in 0 .. n - 1 : Running(F, m) /\ Step(F, m).dst = x =>
                   States(F)[n].env[x] = w}
<1>8. 0 \in T
  <2>1. 0 .. 0 - 1 = {}
    OBVIOUS
  <2> QED
    BY <2>1
<1>9. ASSUME NEW n \in Nat, n \in T PROVE n + 1 \in T
  <2> DEFINE r == States(F)[n]
             s == States(F)[n + 1]
             i == Step(F, n)
  <2> SUFFICES ASSUME NEW m \in 0 .. n, Running(F, m), Step(F, m).dst = x
               PROVE  s.env[x] = w
    <3>1. 0 .. (n + 1) - 1 = 0 .. n
      OBVIOUS
    <3> QED
      BY <3>1
  <2>1. s = Onward(F, r) /\ IsState(V, r)
    BY StatesFollow, StatesOf
  <2>2. m \in 0 .. n - 1 => r.env[x] = w
    BY <1>9
  <2> HIDE DEF r, s, i, w
  <2>3. CASE ~ Running(F, n)
    <3>1. s = r
      BY <2>1, <2>3 DEF Running, Onward, r
    <3>2. m # n
      BY <2>3
    <3>3. m \in 0 .. n - 1
      BY <3>2
    <3> QED
      BY <2>2, <3>1, <3>3
  <2>4. CASE Running(F, n)
    <3>1. i \in InstructionOver(V) /\ s = Execute(F, r, i)
      BY <2>1, <2>4, InstructionAt DEF Running, Step, Onward, r, i
    <3>2. CASE i.dst # x
      <4>1. s.env[x] = r.env[x]
        BY <1>2, <1>5, <2>1, <3>1, <3>2, ExecuteKept
      <4>2. m # n
        BY <3>2 DEF i
      <4>3. m \in 0 .. n - 1
        BY <4>2
      <4> QED
        BY <2>2, <4>1, <4>3
    <3>3. CASE i.dst = x
      <4>1. i = At(F, p)
        BY <1>7, <2>4, <3>3 DEF i
      <4>2. i.op = "move" /\ i.in = <<Lit(c.val)>>
        BY <1>1, <1>4, <1>6, <4>1
      <4>3. s = GoOn(Set(r, x, w))
        <5>1. Execute(F, r, i) = GoOn(Set(r, i.dst, Lit(Wrap(c.val))))
          BY <4>2, MoveOfInt
        <5> QED
          BY <3>1, <3>3, <5>1 DEF w
      <4>4. Kept(V, r, Set(r, x, w), x) /\ Set(r, x, w).env[x] = w
        BY <1>2, <1>5, <2>1, SetKept
      <4> DEFINE u == Set(r, x, w)
      <4> HIDE DEF u
      <4>5. GoOn(u).env = u.env
        BY <4>4, GoOnFrom DEF u
      <4> QED
        BY <4>3, <4>4, <4>5 DEF u
    <3> QED
      BY <3>2, <3>3
  <2> QED
    BY <2>3, <2>4
<1>10. T = Nat
  <2> HIDE DEF T
  <2>1. T \in SUBSET Nat
    BY DEF T
  <2> QED
    BY <1>8, <1>9, <2>1, Reaches
<1>11. \A m \in Nat : Running(F, m) /\ Step(F, m).dst = x => Step(F, m).in = <<c>>
  BY <1>6, <1>7
<1>12. \A n \in Nat : \A m \in 0 .. n - 1 : Running(F, m) /\ Step(F, m).dst = x =>
         States(F)[n].env[x] = w
  BY <1>10
<1> QED
  BY <1>4, <1>11, <1>12 DEF c

\* The value of a known variable when it is read, and that its constant fits.
LEMMA KnownWhenRead ==
  ASSUME NEW F, IsFunction(F), Plain(F), NEW n \in 0 .. Fuel, Running(F, n),
         NEW x \in SingleConstants(F), Reads(Step(F, n), x)
  PROVE  /\ States(F)[n].env[x] = Lit(Wrap(ConstantOf(F, x).val))
         /\ HasDivision(F) => InRange(ConstantOf(F, x).val)
<1> DEFINE c == ConstantOf(F, x)
<1>1. OnlyNumbers(F) /\ SetsBeforeReads(F) /\ Exact(F)
  BY DEF Plain
<1>2. x \in Variables(F) \ ToSet(F.params)
  BY KnownConstant
<1>3. PICK m \in 0 .. n - 1 : Running(F, m) /\ Step(F, m).dst = x
  BY <1>1, <1>2, Zenon DEF SetsBeforeReads
<1>4. n \in Nat /\ m \in Nat /\ m \in 0 .. Fuel
  BY OptimizerAssumption
<1>5. States(F)[n].env[x] = Lit(Wrap(c.val))
  BY <1>1, <1>3, <1>4, KnownHolds
<1>6. Step(F, m).in = <<c>> /\ c.is = "int"
  BY <1>1, <1>3, <1>4, KnownHolds
<1> HIDE DEF c
<1>7. HasDivision(F) => InRange(c.val)
  <2>1. HasDivision(F) => Fits(States(F)[m], Step(F, m))
    BY <1>1, <1>3, <1>4, Zenon DEF Exact
  <2>2. 1 \in DOMAIN Step(F, m).in /\ Step(F, m).in[1] = c
    BY <1>6
  <2> QED
    BY <1>6, <2>1, <2>2 DEF Fits
<1> QED
  BY <1>5, <1>7 DEF c

LEMMA PropagationKeepsPlain ==
  ASSUME NEW F, IsFunction(F), Plain(F)
  PROVE  RunsAlike(F, PropagateConstants(F)) /\ Plain(PropagateConstants(F))
<1> DEFINE t == PropagatedTable(F)
           G == PropagateConstants(F)
           V == Variables(F)
           known == SingleConstants(F)
<1>1. t \in [Places(F) -> InstructionOver(V)] /\ G = Relabel(F, t)
  BY PropagateIsRelabel
<1>2. ASSUME NEW p \in Places(F)
      PROVE  At(F, p) \in InstructionOver(V) /\ t[p] \in InstructionOver(V)
             /\ t[p] = Propagated(F, known, At(F, p))
  BY <1>1, InstructionAt DEF PropagatedTable
<1>3. G.types = F.types /\ G.params = F.params /\ Places(G) = Places(F)
      /\ \A p \in Places(F) : At(G, p) = t[p]
  BY <1>1, Relabelled
<1> HIDE DEF t, G
<1>4. OnlyNumbers(F) /\ SetsBeforeReads(F) /\ Exact(F)
  BY DEF Plain
<1>5. ASSUME NEW p \in Places(F), NEW i, i = At(F, p), NEW j, j = t[p]
      PROVE  /\ i \in InstructionOver(V) /\ j \in InstructionOver(V)
             /\ j.op = i.op /\ j.dst = i.dst
             /\ i.op = "binary" => j.operator = i.operator
             /\ i.op = "call" => j.callee = i.callee
             /\ i.op \in {"jump", "branch"} => j.to = i.to
             /\ i.op = "branch" => j.else = i.else
             /\ DOMAIN j.in = DOMAIN i.in
             /\ \A k \in DOMAIN i.in :
                  IF i.in[k].is = "var" /\ i.in[k].name \in known
                  THEN /\ i.in[k] = Var(i.in[k].name) /\ Reads(i, i.in[k].name)
                       /\ j.in[k] = ConstantOf(F, i.in[k].name)
                  ELSE j.in[k] = i.in[k]
  <2>1. i \in InstructionOver(V) /\ j \in InstructionOver(V) /\ j = Propagated(F, SingleConstants(F), i)
    BY <1>2, <1>5
  <2>2. \A k \in DOMAIN i.in : i.in[k].is = "var" => i.in[k] = Var(i.in[k].name) /\ Reads(i, i.in[k].name)
    <3> TAKE k \in DOMAIN i.in
    <3>1. i.in[k] \in ValueOver(V)
      BY <2>1, InputsOf
    <3>2. i.in[k].is = "var" => i.in[k] = Var(i.in[k].name)
      BY <3>1, ValueFields
    <3> QED
      BY <3>2, Zenon DEF Reads
  <2> QED
    BY <2>1, <2>2, PropagatedInputs
<1>6. ASSUME NEW x \in known
      PROVE  ConstantOf(F, x) = Lit(ConstantOf(F, x).val) /\ ConstantOf(F, x).is = "int"
  BY <1>4, KnownHolds
<1>7. ASSUME NEW n \in 0 .. Fuel, Running(F, n)
      PROVE  /\ States(F)[n].at \in Places(F) /\ Step(F, n) = At(F, States(F)[n].at)
             /\ IsState(V, States(F)[n])
             /\ HasDivision(F) => Fits(States(F)[n], Step(F, n))
             /\ \A x \in known : Reads(Step(F, n), x) =>
                  /\ States(F)[n].env[x] = Lit(Wrap(ConstantOf(F, x).val))
                  /\ HasDivision(F) => InRange(ConstantOf(F, x).val)
  <2>1. n \in Nat
    BY OptimizerAssumption
  <2>2. IsState(V, States(F)[n])
    BY <2>1, StatesOf
  <2>3. \A x \in known : Reads(Step(F, n), x) =>
           /\ States(F)[n].env[x] = Lit(Wrap(ConstantOf(F, x).val))
           /\ HasDivision(F) => InRange(ConstantOf(F, x).val)
    BY <1>7, KnownWhenRead
  <2> QED
    BY <1>4, <1>7, <2>2, <2>3 DEF Running, Step, Exact
<1>8. ASSUME NEW n \in 0 .. Fuel, Running(F, n)
      PROVE  Execute(F, States(F)[n], t[States(F)[n].at]) = Execute(F, States(F)[n], Step(F, n))
  <2> DEFINE r == States(F)[n]
             i == At(F, r.at)
             j == t[r.at]
  <2>1. r.at \in Places(F) /\ Step(F, n) = i /\ IsState(V, r)
    BY <1>7, <1>8
  <2>2. \A x \in known : Reads(i, x) => r.env[x] = Lit(Wrap(ConstantOf(F, x).val))
    BY <1>7, <1>8, <2>1
  <2> HIDE DEF r, i, j
  <2>3. ASSUME NEW k \in DOMAIN i.in, NEW s, s.env = r.env PROVE Eval(s, j.in[k]) = Eval(s, i.in[k])
    <3> DEFINE x == i.in[k].name
               n1 == ConstantOf(F, x).val
    <3>1. CASE i.in[k].is = "var" /\ x \in known
      <4>1. i.in[k] = Var(x) /\ Reads(i, x) /\ j.in[k] = ConstantOf(F, x)
        BY <1>5, <2>1, <3>1 DEF i, j
      <4>2. r.env[x] = Lit(Wrap(n1)) /\ j.in[k] = Lit(n1)
        BY <1>6, <2>2, <3>1, <4>1
      <4> HIDE DEF x, n1
      <4>3. Eval(s, j.in[k]) = [r |-> s, v |-> Lit(Wrap(n1))]
        BY <4>2, EvalInt
      <4>4. Eval(s, i.in[k]) = [r |-> s, v |-> s.env[x]]
        BY <4>1 DEF Eval, Var
      <4> QED
        BY <2>3, <4>2, <4>3, <4>4
    <3>2. CASE ~ (i.in[k].is = "var" /\ x \in known)
      <4>1. j.in[k] = i.in[k]
        BY <1>5, <2>1, <3>2 DEF i, j
      <4> QED
        BY <4>1
    <3> QED
      BY <3>1, <3>2
  <2>4. /\ i \in InstructionOver(V) /\ j \in InstructionOver(V)
        /\ j.op = i.op /\ j.dst = i.dst
        /\ i.op = "binary" => j.operator = i.operator
        /\ i.op = "call" => j.callee = i.callee
        /\ i.op \in {"jump", "branch"} => j.to = i.to
        /\ i.op = "branch" => j.else = i.else
        /\ DOMAIN j.in = DOMAIN i.in
    BY <1>5, <2>1 DEF i, j
  <2>5. Execute(F, r, j) = Execute(F, r, i)
    BY <2>1, <2>3, <2>4, ExecuteByOperands
  <2> QED
    BY <2>1, <2>5 DEF r, j
<1>9. /\ RunsAlike(F, G)
      /\ \A n \in 0 .. Fuel : Running(F, n) <=> Running(G, n)
      /\ \A n \in 0 .. Fuel : Running(F, n) => Step(G, n) = t[States(F)[n].at]
  BY <1>1, <1>8, RelabelRuns
<1>10. Variables(G) = Variables(F)
  BY <1>3 DEF Variables
<1>11. OnlyNumbers(G)
  <2>1. ASSUME NEW p \in Places(G), At(G, p).op = "move" PROVE At(G, p).in[1].is # "str"
    <3> DEFINE i == At(F, p)
               j == t[p]
    <3>1. p \in Places(F) /\ At(G, p) = j
      BY <1>3
    <3>2. i.op = "move" /\ i \in InstructionOver(V)
      BY <1>5, <2>1, <3>1
    <3>3. 1 \in DOMAIN i.in /\ i.in[1].is # "str"
      <4>1. i.in \in [1 .. 1 -> ValueOver(V)]
        BY <3>2, InstructionFields
      <4>2. 1 \in DOMAIN i.in
        BY <4>1
      <4>3. i.in[1].is # "str"
        BY <1>4, <3>1, <3>2 DEF OnlyNumbers
      <4> QED
        BY <4>2, <4>3
    <3>4. \/ j.in[1] = i.in[1]
          \/ i.in[1].name \in known /\ j.in[1] = ConstantOf(F, i.in[1].name)
      BY <1>5, <3>1, <3>3
    <3> QED
      BY <1>6, <3>1, <3>3, <3>4
  <2> QED
    BY <1>3, <1>4, <1>10, <2>1 DEF OnlyNumbers
<1>12. SetsBeforeReads(G)
  <2>1. ASSUME NEW n \in 0 .. Fuel, Running(F, n)
        PROVE  /\ Step(G, n).dst = Step(F, n).dst
               /\ \A x : Reads(Step(G, n), x) => Reads(Step(F, n), x)
    <3> DEFINE p == States(F)[n].at
               i == At(F, p)
               j == t[p]
    <3>1. p \in Places(F) /\ Step(F, n) = i /\ Step(G, n) = j
      BY <1>7, <1>9, <2>1
    <3>2. j.dst = i.dst /\ DOMAIN j.in = DOMAIN i.in
      BY <1>5, <3>1
    <3>3. \A k \in DOMAIN i.in : j.in[k] = i.in[k] \/ j.in[k].is = "int"
      BY <1>5, <1>6, <3>1
    <3> HIDE DEF i, j, p
    <3>4. ASSUME NEW x, Reads(j, x) PROVE Reads(i, x)
      <4>1. PICK k \in DOMAIN i.in : j.in[k] = Var(x)
        BY <3>2, <3>4 DEF Reads
      <4>2. j.in[k].is # "int"
        BY <4>1 DEF Var
      <4>3. i.in[k] = Var(x)
        BY <3>3, <4>1, <4>2
      <4> QED
        BY <4>3 DEF Reads
    <3> QED
      BY <3>1, <3>2, <3>4
  <2> QED
    BY <1>3, <1>4, <1>9, <1>10, <2>1, SetsStay
<1>13. Exact(G)
  <2> SUFFICES ASSUME HasDivision(G), NEW n \in 0 .. Fuel, Running(G, n)
               PROVE  Fits(States(G)[n], Step(G, n))
    BY Zenon DEF Exact
  <2>1. HasDivision(F)
    <3>1. PICK q \in Places(G) : At(G, q).op = "binary" /\ Divides(At(G, q))
      BY Zenon DEF HasDivision
    <3>2. q \in Places(F) /\ At(F, q).op = "binary" /\ At(F, q).operator = At(G, q).operator
      BY <1>3, <1>5, <3>1
    <3> QED
      BY <3>1, <3>2 DEF HasDivision, Divides
  <2> DEFINE r == States(F)[n]
             i == At(F, r.at)
             j == t[r.at]
  <2>2. Running(F, n) /\ States(G)[n] = r /\ Step(G, n) = j
    BY <1>9 DEF RunsAlike
  <2>3. r.at \in Places(F) /\ Step(F, n) = i /\ Fits(r, i)
        /\ \A x \in known : Reads(i, x) => r.env[x] = Lit(Wrap(ConstantOf(F, x).val)) /\ InRange(ConstantOf(F, x).val)
    BY <1>7, <2>1, <2>2
  <2>4. /\ i \in InstructionOver(V)
        /\ j.op = i.op /\ (i.op = "binary" => j.operator = i.operator)
        /\ DOMAIN j.in = DOMAIN i.in
    BY <1>5, <2>3
  <2>5. ASSUME NEW k \in DOMAIN i.in
        PROVE  /\ Number(r, j.in[k]) = Number(r, i.in[k])
               /\ j.in[k].is = "int" => InRange(j.in[k].val)
    <3> DEFINE x == i.in[k].name
               n1 == ConstantOf(F, x).val
    <3>1. CASE i.in[k].is = "var" /\ x \in known
      <4>1. i.in[k] = Var(x) /\ Reads(i, x) /\ j.in[k] = ConstantOf(F, x)
        BY <1>5, <2>3, <3>1
      <4>2. r.env[x] = Lit(Wrap(n1)) /\ InRange(n1) /\ j.in[k] = Lit(n1)
        BY <1>6, <2>3, <3>1, <4>1
      <4> HIDE DEF x, n1, r, i, j
      <4>3. Number(r, j.in[k]) = Wrap(n1) /\ j.in[k].val = n1
        BY <4>2 DEF Number, Lit
      <4>4. Number(r, i.in[k]) = Wrap(n1)
        BY <4>1, <4>2 DEF Number, Var, Lit
      <4> QED
        BY <4>2, <4>3, <4>4
    <3>2. CASE ~ (i.in[k].is = "var" /\ x \in known)
      <4>1. j.in[k] = i.in[k]
        BY <1>5, <2>3, <3>2
      <4> HIDE DEF r, i, j
      <4> QED
        BY <2>3, <4>1 DEF Fits
    <3> QED
      BY <3>1, <3>2
  <2>6. ~ Overflows(r, j)
    <3> HIDE DEF r, i, j
    <3> SUFFICES ASSUME i.op = "binary" PROVE ~ Overflows(r, j)
      BY <2>4 DEF Overflows
    <3>1. i.in \in [1 .. 2 -> ValueOver(V)]
      BY <2>4, InstructionFields
    <3>2. 1 \in DOMAIN i.in /\ 2 \in DOMAIN i.in
      BY <3>1
    <3>3. Number(r, j.in[1]) = Number(r, i.in[1]) /\ Number(r, j.in[2]) = Number(r, i.in[2])
      BY <2>5, <3>2
    <3>4. j.operator = i.operator /\ j.op = i.op /\ Divides(j) = Divides(i)
      BY <2>4 DEF Divides
    <3>5. ~ Overflows(r, i)
      BY <2>3 DEF Fits
    <3> QED
      BY <3>3, <3>4, <3>5, Zenon DEF Overflows
  <2>7. Fits(r, j)
    BY <2>4, <2>5, <2>6 DEF Fits
  <2> QED
    BY <2>2, <2>7
<1> QED
  BY <1>9, <1>11, <1>12, <1>13, Zenon DEF G, Plain

-----------------------------------------------------------------------------
(* The passes keep the meaning of a function over integers *)

\* Whatever passes have been made, the function is still one over integers and runs as it did.
NumbersInv == Plain(original) => Plain(func) /\ RunsAlike(original, func)

LEMMA AlikeTwice ==
  ASSUME NEW F, NEW G, NEW H, RunsAlike(F, G), RunsAlike(G, H)
  PROVE  RunsAlike(F, H)
BY DEF RunsAlike

\* One pass of the optimizer, made on func.
LEMMA PassKeepsNumbers ==
  ASSUME NumbersInv, NEW New, func' = New, original' = original,
         Plain(func) => RunsAlike(func, New) /\ Plain(New)
  PROVE  NumbersInv'
<1>1. Plain(original) => Plain(New) /\ RunsAlike(original, New)
  BY AlikeTwice DEF NumbersInv
<1> QED
  BY <1>1 DEF NumbersInv

LEMMA NumbersStep == OptInv /\ NumbersInv /\ [OptNext]_optVars => NumbersInv'
<1> SUFFICES ASSUME OptInv, NumbersInv, [OptNext]_optVars PROVE NumbersInv'
  OBVIOUS
<1>1. IsFunction(func)
  BY DEF OptInv
<1>2. ASSUME NEW name, NEW New, Apply(name, New), Plain(func) => RunsAlike(func, New) /\ Plain(New)
      PROVE  NumbersInv'
  BY <1>2, PassKeepsNumbers DEF Apply
<1>3. ASSUME Plain(func) PROVE RunsAlike(func, func) /\ Plain(func) /\ OnlyNumbers(func)
  BY <1>3 DEF RunsAlike, Plain
<1>4. CASE Apply("propagate", PropagateConstants(func))
  BY <1>1, <1>2, <1>4, PropagationKeepsPlain, Zenon
<1>5. CASE Apply("fold", FoldConstants(func))
  BY <1>1, <1>2, <1>5, FoldingKeepsPlain, Zenon
<1>6. CASE Apply("promote", PromoteArrays(func))
  <2>1. Plain(func) => RunsAlike(func, PromoteArrays(func)) /\ Plain(PromoteArrays(func))
    BY <1>1, <1>3, NothingPromoted
  <2> QED
    BY <1>2, <1>6, <2>1, Zenon
<1>7. CASE Apply("append", RewriteAppends(func))
  <2>1. Plain(func) => RunsAlike(func, RewriteAppends(func)) /\ Plain(RewriteAppends(func))
    BY <1>1, <1>3, NothingAppended
  <2> QED
    BY <1>2, <1>7, <2>1, Zenon
<1>8. CASE Apply("dead", EliminateDead(func))
  BY <1>1, <1>2, <1>8, DeadCodeKeepsPlain, Zenon
<1>9. CASE Apply("unused", RemoveUnused(func))
  <2>1. Plain(func) => RunsAlike(func, RemoveUnused(func)) /\ Plain(RemoveUnused(func))
    BY <1>1, <1>3, NothingUnused
  <2> QED
    BY <1>2, <1>9, <2>1, Zenon
<1>10. ASSUME func' = func, original' = original PROVE NumbersInv'
  <2>1. Plain(func) => RunsAlike(func, func) /\ Plain(func)
    BY <1>3
  <2> QED
    BY <1>10, <2>1, PassKeepsNumbers
<1>11. CASE Again
  BY <1>10, <1>11 DEF Again
<1>12. CASE UNCHANGED optVars
  BY <1>10, <1>12 DEF optVars
<1> QED
  BY <1>4, <1>5, <1>6, <1>7, <1>8, <1>9, <1>11, <1>12 DEF OptNext

\* The function that is left prints, returns and fails as the one that was lowered did, if
\* that one computes with integers only, sets its variables before it reads them and, should
\* it divide, keeps to numbers that fit (optimize in opt.rs).
THEOREM PassesKeepNumbers == OptSpec => [](Plain(original) => PassesKeepMeaning)
<1>1. OptInit => NumbersInv
  BY DEF OptInit, NumbersInv, RunsAlike
<1>2. NumbersInv => (Plain(original) => PassesKeepMeaning)
  <2> SUFFICES ASSUME RunsAlike(original, func) PROVE PassesKeepMeaning
    BY DEF NumbersInv
  <2>1. Fuel \in 0 .. Fuel
    BY OptimizerAssumption
  <2>2. States(func)[Fuel] = States(original)[Fuel]
    BY <2>1 DEF RunsAlike
  <2> QED
    BY <2>2, Zenon DEF PassesKeepMeaning, Run
<1> QED
  BY <1>1, <1>2, OptInitInv, OptStepInv, NumbersStep, PTL DEF OptSpec
=============================================================================
