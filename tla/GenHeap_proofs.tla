---------------------------- MODULE GenHeap_proofs ----------------------------
(***************************************************************************)
(* Proofs about GenHeap, for any number of objects, roots and collections. *)
(***************************************************************************)
EXTENDS GenHeap, FiniteSetTheorems, WellFoundedInduction, TLAPS

-----------------------------------------------------------------------------
(* Induction on the naturals, over a set instead of a predicate.            *)

LEMMA SmallestOf ==
  ASSUME NEW T \in SUBSET Nat, T # {}
  PROVE  \E x \in T : \A y \in T : x <= y
<1> DEFINE below == OpToRel(<, Nat)
<1>1. IsWellFoundedOn(below, Nat)
  BY ONLY NatLessThanWellFounded, Zenon
<1>2. \A x, y \in Nat : <<y, x>> \in below <=> y < x
  BY Zenon DEF OpToRel
<1> HIDE DEF below
<1>3. PICK x \in T : \A y \in T : <<y, x>> \notin below
  BY <1>1, WFMin
<1>4. \A y \in T : ~ (y < x)
  BY <1>2, <1>3
<1> QED
  BY <1>4

LEMMA NatSet ==
  ASSUME NEW S, 0 \in S, \A n \in Nat : n \in S => n + 1 \in S
  PROVE  Nat \subseteq S
<1>1. SUFFICES ASSUME Nat \ S # {} PROVE FALSE
  OBVIOUS
<1>2. PICK m \in Nat \ S : \A y \in Nat \ S : m <= y
  BY <1>1, SmallestOf
<1>3. m # 0 /\ m - 1 \in Nat
  BY <1>2
<1>4. m - 1 \in S
  BY <1>2, <1>3
<1>5. (m - 1) + 1 \in S
  BY <1>3, <1>4
<1> QED
  BY <1>2, <1>3, <1>5

\* A step function can be iterated: the recursive definition has a solution.
Partial(n, p, D, base, G) ==
  /\ p \in [0 .. n -> D] /\ p[0] = base
  /\ \A i \in 1 .. n : p[i] = G[p[i - 1]]

LEMMA PartialExists ==
  ASSUME NEW D, NEW base \in D, NEW G \in [D -> D]
  PROVE  \A n \in Nat : \E p : Partial(n, p, D, base, G)
<1> DEFINE S == {n \in Nat : \E p : Partial(n, p, D, base, G)}
<1>1. 0 \in S
  <2>1. Partial(0, [i \in 0 .. 0 |-> base], D, base, G)
    BY DEF Partial
  <2> QED
    BY <2>1
<1>2. ASSUME NEW n \in Nat, n \in S PROVE n + 1 \in S
  <2>1. PICK p : Partial(n, p, D, base, G)
    BY <1>2
  <2> DEFINE q == [i \in 0 .. n + 1 |-> IF i = n + 1 THEN G[p[n]] ELSE p[i]]
  <2>2. q \in [0 .. n + 1 -> D] /\ q[0] = base
    BY <2>1 DEF Partial
  <2>3. ASSUME NEW i \in 1 .. n + 1 PROVE q[i] = G[q[i - 1]]
    BY <2>1 DEF Partial
  <2> HIDE DEF q
  <2> QED
    BY <2>2, <2>3 DEF Partial
<1> HIDE DEF S
<1>3. Nat \subseteq S
  BY <1>1, <1>2, NatSet
<1> QED
  BY <1>3 DEF S

LEMMA PartialsAgree ==
  ASSUME NEW D, NEW base \in D, NEW G \in [D -> D],
         NEW n \in Nat, NEW p, Partial(n, p, D, base, G),
         NEW q, Partial(n + 1, q, D, base, G)
  PROVE  \A i \in 0 .. n : p[i] = q[i]
<1> DEFINE S == {i \in Nat : i <= n => p[i] = q[i]}
<1>1. 0 \in S
  BY DEF Partial
<1>2. ASSUME NEW i \in Nat, i \in S PROVE i + 1 \in S
  <2>1. SUFFICES ASSUME i + 1 <= n PROVE p[i + 1] = q[i + 1]
    OBVIOUS
  <2>2. p[i] = q[i]
    BY <1>2, <2>1
  <2>3. p[i + 1] = G[p[(i + 1) - 1]] /\ q[i + 1] = G[q[(i + 1) - 1]]
    BY <2>1 DEF Partial
  <2> QED
    BY <2>2, <2>3
<1> HIDE DEF S
<1>3. Nat \subseteq S
  BY <1>1, <1>2, NatSet
<1> QED
  BY <1>3 DEF S

LEMMA IterateExists ==
  ASSUME NEW D, NEW base \in D, NEW G \in [D -> D]
  PROVE  \E R \in [Nat -> D] : R[0] = base /\ \A n \in Nat : n # 0 => R[n] = G[R[n - 1]]
<1> DEFINE P(n) == CHOOSE p : Partial(n, p, D, base, G)
           R == [n \in Nat |-> P(n)[n]]
<1>1. \A n \in Nat : Partial(n, P(n), D, base, G)
  BY PartialExists
<1> HIDE DEF P
<1>2. R \in [Nat -> D]
  BY <1>1 DEF Partial
<1>3. R[0] = base
  BY <1>1 DEF Partial
<1>4. ASSUME NEW n \in Nat, n # 0 PROVE R[n] = G[R[n - 1]]
  <2>1. n - 1 \in Nat /\ n \in 1 .. n /\ (n - 1) + 1 = n
    BY <1>4
  <2>2. P(n)[n] = G[P(n)[n - 1]]
    BY <1>1, <2>1 DEF Partial
  <2>3. \A i \in 0 .. n - 1 : P(n - 1)[i] = P(n)[i]
    <3> DEFINE k == n - 1
    <3>1. k \in Nat /\ k + 1 = n
      BY <2>1
    <3>2. Partial(k, P(k), D, base, G) /\ Partial(k + 1, P(k + 1), D, base, G)
      BY <1>1, <3>1
    <3> HIDE DEF k
    <3>3. \A i \in 0 .. k : P(k)[i] = P(k + 1)[i]
      BY <3>1, <3>2, PartialsAgree
    <3> QED
      BY <3>1, <3>3 DEF k
  <2>4. P(n - 1)[n - 1] = P(n)[n - 1]
    BY <2>1, <2>3
  <2> QED
    BY <2>1, <2>2, <2>4
<1> HIDE DEF R
<1> QED
  BY <1>2, <1>3, <1>4

-----------------------------------------------------------------------------
(* What a trace finds: the least set with the sources, closed under Slot.   *)

Stages(h, s, domain, R) ==
  R = [n \in Nat |->
         IF n = 0 THEN s \cap domain
         ELSE R[n - 1] \cup ({Slot(h, o) : o \in R[n - 1]} \cap domain)]

LEMMA StagesExist ==
  ASSUME NEW h, NEW s, NEW domain
  PROVE  \E R \in [Nat -> SUBSET domain] : Stages(h, s, domain, R)
<1> DEFINE D == SUBSET domain
           base == s \cap domain
           G == [S \in D |-> S \cup ({Slot(h, o) : o \in S} \cap domain)]
<1>1. base \in D /\ G \in [D -> D]
  OBVIOUS
<1> HIDE DEF D, base, G
<1>2. PICK R \in [Nat -> D] : R[0] = base /\ \A n \in Nat : n # 0 => R[n] = G[R[n - 1]]
  BY <1>1, IterateExists
<1> USE DEF D, base
<1>4. \A n \in Nat :
         R[n] = IF n = 0 THEN s \cap domain
                ELSE R[n - 1] \cup ({Slot(h, o) : o \in R[n - 1]} \cap domain)
  <2> SUFFICES ASSUME NEW n \in Nat, n # 0
               PROVE  R[n] = R[n - 1] \cup ({Slot(h, o) : o \in R[n - 1]} \cap domain)
    BY <1>2
  <2>1. n - 1 \in Nat
    OBVIOUS
  <2>2. R[n - 1] \in SUBSET domain
    BY <1>2, <2>1
  <2> QED
    BY <1>2, <2>2 DEF G
<1>5. R = [n \in Nat |->
         IF n = 0 THEN s \cap domain
                ELSE R[n - 1] \cup ({Slot(h, o) : o \in R[n - 1]} \cap domain)]
  BY <1>2, <1>4
<1> QED
  BY <1>2, <1>5 DEF Stages

\* The recursion of Trace, stage by stage.
LEMMA TraceStages ==
  ASSUME NEW h, NEW s, NEW domain
  PROVE  \E R \in [Nat -> SUBSET domain] :
            /\ Trace(h, s, domain) = R[Cardinality(Object)]
            /\ R[0] = s \cap domain
            /\ \A n \in Nat :
                  R[n + 1] = R[n] \cup ({Slot(h, o) : o \in R[n]} \cap domain)
<1> DEFINE R == CHOOSE R : Stages(h, s, domain, R)
<1>1. Trace(h, s, domain) = R[Cardinality(Object)]
  BY DEF Trace, Stages
<1>2. Stages(h, s, domain, R)
  BY StagesExist
<1> HIDE DEF R
<1>3. R[0] = s \cap domain
  BY <1>2 DEF Stages
<1>4. \A n \in Nat : R[n + 1] = R[n] \cup ({Slot(h, o) : o \in R[n]} \cap domain)
  <2> TAKE n \in Nat
  <2>1. n + 1 \in Nat /\ n + 1 # 0 /\ (n + 1) - 1 = n
    OBVIOUS
  <2> DEFINE F(m) == IF m = 0 THEN s \cap domain
                     ELSE R[m - 1] \cup ({Slot(h, o) : o \in R[m - 1]} \cap domain)
  <2>2. R = [m \in Nat |-> F(m)]
    BY <1>2 DEF Stages
  <2>3. R[n + 1] = F(n + 1)
    BY ONLY <2>1, <2>2
  <2> QED
    BY <2>1, <2>3
<1>5. R \in [Nat -> SUBSET domain]
  <2> DEFINE S == {n \in Nat : R[n] \in SUBSET domain}
  <2>1. 0 \in S /\ \A n \in Nat : n \in S => n + 1 \in S
    BY <1>3, <1>4
  <2> HIDE DEF S
  <2>2. Nat \subseteq S
    BY <2>1, NatSet
  <2>3. \A n \in Nat : R[n] \in SUBSET domain
    BY <2>2 DEF S
  <2>4. R = [n \in Nat |-> R[n]]
    <3> DEFINE F(m) == IF m = 0 THEN s \cap domain
                       ELSE R[m - 1] \cup ({Slot(h, o) : o \in R[m - 1]} \cap domain)
    <3>1. R = [m \in Nat |-> F(m)]
      BY <1>2 DEF Stages
    <3> HIDE DEF F
    <3> QED
      BY ONLY <3>1
  <2> QED
    BY <2>3, <2>4
<1> QED
  BY <1>1, <1>3, <1>4, <1>5

\* The stages stop growing before there are more of them than objects.
LEMMA StagesStop ==
  ASSUME HeapAssumption, NEW R \in [Nat -> SUBSET Object],
         \A n \in Nat : R[n] \subseteq R[n + 1]
  PROVE  \E k \in 0 .. Cardinality(Object) : R[k + 1] = R[k]
<1> DEFINE N == Cardinality(Object)
<1>1. IsFiniteSet(Object) /\ N \in Nat
  BY FS_CardinalityType DEF HeapAssumption
<1>2. \A n \in Nat : IsFiniteSet(R[n]) /\ Cardinality(R[n]) \in 0 .. N
  BY <1>1, FS_Subset, FS_CardinalityType
<1>3. SUFFICES ASSUME \A k \in 0 .. N : R[k + 1] # R[k] PROVE FALSE
  OBVIOUS
<1> DEFINE S == {k \in Nat : k <= N + 1 => Cardinality(R[k]) >= k}
<1> HIDE DEF N
<1>4. 0 \in S
  BY <1>1, <1>2
<1>5. ASSUME NEW k \in Nat, k \in S PROVE k + 1 \in S
  <2>1. SUFFICES ASSUME k + 1 <= N + 1 PROVE Cardinality(R[k + 1]) >= k + 1
    OBVIOUS
  <2>2. k \in 0 .. N /\ k + 1 \in Nat
    BY <1>1, <2>1
  <2>3. R[k] \subseteq R[k + 1] /\ R[k] # R[k + 1]
    BY <1>3, <2>2
  <2>4. Cardinality(R[k]) <= Cardinality(R[k + 1]) /\ Cardinality(R[k]) # Cardinality(R[k + 1])
    BY <1>2, <2>2, <2>3, FS_Subset
  <2> QED
    BY <1>1, <1>2, <1>5, <2>2, <2>4
<1> HIDE DEF S
<1>6. Nat \subseteq S
  BY <1>4, <1>5, NatSet
<1>7. Cardinality(R[N + 1]) >= N + 1
  BY <1>1, <1>6 DEF S
<1> QED
  BY <1>1, <1>2, <1>7

ClosedUnder(h, C, domain) == \A o \in C : Slot(h, o) \in domain => Slot(h, o) \in C

LEMMA TraceFacts ==
  ASSUME HeapAssumption, NEW h, NEW s, NEW domain \in SUBSET Object
  PROVE  /\ Trace(h, s, domain) \subseteq domain
         /\ s \cap domain \subseteq Trace(h, s, domain)
         /\ ClosedUnder(h, Trace(h, s, domain), domain)
<1>1. PICK R \in [Nat -> SUBSET domain] :
         /\ Trace(h, s, domain) = R[Cardinality(Object)]
         /\ R[0] = s \cap domain
         /\ \A n \in Nat : R[n + 1] = R[n] \cup ({Slot(h, o) : o \in R[n]} \cap domain)
  BY TraceStages
<1> DEFINE N == Cardinality(Object)
<1>2. N \in Nat
  BY FS_CardinalityType DEF HeapAssumption
<1>3. PICK k \in 0 .. N : R[k + 1] = R[k]
  <2>1. R \in [Nat -> SUBSET Object] /\ \A n \in Nat : R[n] \subseteq R[n + 1]
    BY <1>1
  <2> QED
    BY <2>1, StagesStop
<1> HIDE DEF N
<1> DEFINE S == {n \in Nat : s \cap domain \subseteq R[n] /\ (n >= k => R[n] = R[k])}
<1>4. 0 \in S
  BY <1>1, <1>2, <1>3
<1>5. ASSUME NEW n \in Nat, n \in S PROVE n + 1 \in S
  <2>1. s \cap domain \subseteq R[n + 1]
    BY <1>1, <1>5
  <2>2. ASSUME n + 1 >= k PROVE R[n + 1] = R[k]
    <3>1. CASE n + 1 = k
      BY <3>1
    <3>2. CASE n >= k
      <4>1. R[n] = R[k]
        BY <1>5, <3>2
      <4>2. /\ R[n + 1] = R[n] \cup ({Slot(h, o) : o \in R[n]} \cap domain)
            /\ R[k + 1] = R[k] \cup ({Slot(h, o) : o \in R[k]} \cap domain)
        BY <1>1, <1>2, <1>3
      <4> QED
        BY <1>3, <4>1, <4>2
    <3> QED
      BY <1>2, <1>3, <2>2, <3>1, <3>2
  <2> QED
    BY <2>1, <2>2
<1> HIDE DEF S
<1>6. Nat \subseteq S
  BY <1>4, <1>5, NatSet
<1>7. s \cap domain \subseteq R[N] /\ R[N] = R[k] /\ R[N + 1] = R[k]
  BY <1>2, <1>3, <1>6 DEF S
<1>8. R[N + 1] = R[N] \cup ({Slot(h, o) : o \in R[N]} \cap domain)
  BY <1>1, <1>2
<1>9. R[N] \subseteq domain
  BY <1>1, <1>2
<1>10. ClosedUnder(h, R[N], domain)
  BY <1>7, <1>8 DEF ClosedUnder
<1> QED
  BY <1>1, <1>7, <1>9, <1>10 DEF N

LEMMA TraceLeast ==
  ASSUME HeapAssumption, NEW h, NEW s, NEW domain,
         NEW C, s \cap domain \subseteq C, ClosedUnder(h, C, domain)
  PROVE  Trace(h, s, domain) \subseteq C
<1>1. PICK R \in [Nat -> SUBSET domain] :
         /\ Trace(h, s, domain) = R[Cardinality(Object)]
         /\ R[0] = s \cap domain
         /\ \A n \in Nat : R[n + 1] = R[n] \cup ({Slot(h, o) : o \in R[n]} \cap domain)
  BY ONLY TraceStages
<1> DEFINE S == {n \in Nat : R[n] \subseteq C}
<1>2. 0 \in S
  BY <1>1
<1>3. ASSUME NEW n \in Nat, n \in S PROVE n + 1 \in S
  BY <1>1, <1>3 DEF ClosedUnder
<1> HIDE DEF S
<1>4. Nat \subseteq S
  BY <1>2, <1>3, NatSet
<1>5. Cardinality(Object) \in Nat
  BY FS_CardinalityType DEF HeapAssumption
<1> QED
  BY <1>1, <1>4, <1>5 DEF S

-----------------------------------------------------------------------------
(* The forwarding pointers that arrays leave lead somewhere, from every     *)
(* value: the recursion of Resolve has one solution, and it ends at a value *)
(* that has no forwarding pointer.                                          *)

Forwards(h, w) == w \in Object /\ h[w].forward # Nil

Resolves(h, f) == f = [w \in Value |-> IF Forwards(h, w) THEN f[h[w].forward] ELSE w]

Chains(h) ==
  \E f \in [Value -> Value] :
    /\ Resolves(h, f)
    /\ \A g : Resolves(h, g) => g = f
    /\ \A w \in Value : ~ Forwards(h, f[w])

LEMMA ResolvesAt ==
  ASSUME NEW h, NEW f, Resolves(h, f)
  PROVE  /\ f = [w \in Value |-> f[w]]
         /\ \A w \in Value : f[w] = IF Forwards(h, w) THEN f[h[w].forward] ELSE w
<1> DEFINE F(w) == IF Forwards(h, w) THEN f[h[w].forward] ELSE w
<1>1. f = [w \in Value |-> F(w)]
  BY DEF Resolves
<1> HIDE DEF F
<1>2. /\ f = [w \in Value |-> f[w]]
      /\ \A w \in Value : f[w] = F(w)
  BY ONLY <1>1
<1> QED
  BY <1>2 DEF F

LEMMA ResolvesWhen ==
  ASSUME NEW h, NEW f, f = [w \in Value |-> f[w]],
         \A w \in Value : f[w] = IF Forwards(h, w) THEN f[h[w].forward] ELSE w
  PROVE  Resolves(h, f)
<1> DEFINE F(w) == IF Forwards(h, w) THEN f[h[w].forward] ELSE w
<1>1. \A w \in Value : f[w] = F(w)
  OBVIOUS
<1> HIDE DEF F
<1>2. f = [w \in Value |-> F(w)]
  BY <1>1
<1> QED
  BY <1>2 DEF F, Resolves

\* Resolve is that solution.
LEMMA ResolveIs ==
  ASSUME NEW h, NEW f, Resolves(h, f), \A g : Resolves(h, g) => g = f
  PROVE  \A w \in Value : Resolve(h, w) = f[w]
<1>1. \A w : Resolve(h, w) = (CHOOSE g : Resolves(h, g))[w]
  BY DEF Resolve, Resolves, Forwards, Value
<1>2. (CHOOSE g : Resolves(h, g)) = f
  OBVIOUS
<1> QED
  BY <1>1, <1>2

Objects == [gen : {"free"} \cup Young \cup Tenured, slot : Value,
            age : 0..1, marked : BOOLEAN, dirty : BOOLEAN,
            finalized : BOOLEAN, forward : Value]

Heaps == [Object -> Objects]

LEMMA HeapsAt ==
  ASSUME NEW h \in Heaps, NEW o \in Object
  PROVE  /\ h[o] \in Objects
         /\ h[o].slot \in Value /\ h[o].forward \in Value
BY DEF Heaps, Objects

\* Setting a flag of an object.
LEMMA FlagFacts ==
  ASSUME NEW x \in Objects, NEW y, NEW b \in BOOLEAN,
         \/ y = [x EXCEPT !.marked = b]
         \/ y = [x EXCEPT !.dirty = b]
         \/ y = [x EXCEPT !.finalized = b]
  PROVE  /\ y \in Objects
         /\ y.gen = x.gen /\ y.slot = x.slot /\ y.age = x.age /\ y.forward = x.forward
         /\ x = Blank /\ ~ b => y = Blank
<1>1. CASE y = [x EXCEPT !.marked = b]
  <2>1. y \in Objects
    BY <1>1 DEF Objects
  <2>2. y.gen = x.gen /\ y.slot = x.slot /\ y.age = x.age /\ y.forward = x.forward
    BY <1>1 DEF Objects
  <2>3. ASSUME x = Blank, ~ b PROVE y = Blank
    <3>1. b = FALSE
      BY <2>3
    <3> QED
      BY <1>1, <2>3, <3>1 DEF Objects, Blank
  <2> QED
    BY <2>1, <2>2, <2>3
<1>2. CASE y = [x EXCEPT !.dirty = b]
  <2>1. y \in Objects
    BY <1>2 DEF Objects
  <2>2. y.gen = x.gen /\ y.slot = x.slot /\ y.age = x.age /\ y.forward = x.forward
    BY <1>2 DEF Objects
  <2>3. ASSUME x = Blank, ~ b PROVE y = Blank
    <3>1. b = FALSE
      BY <2>3
    <3> QED
      BY <1>2, <2>3, <3>1 DEF Objects, Blank
  <2> QED
    BY <2>1, <2>2, <2>3
<1>3. CASE y = [x EXCEPT !.finalized = b]
  <2>1. y \in Objects
    BY <1>3 DEF Objects
  <2>2. y.gen = x.gen /\ y.slot = x.slot /\ y.age = x.age /\ y.forward = x.forward
    BY <1>3 DEF Objects
  <2>3. ASSUME x = Blank, ~ b PROVE y = Blank
    <3>1. b = FALSE
      BY <2>3
    <3> QED
      BY <1>3, <2>3, <3>1 DEF Objects, Blank
  <2> QED
    BY <2>1, <2>2, <2>3
<1> QED
  BY <1>1, <1>2, <1>3

LEMMA FlagIs ==
  ASSUME NEW x \in Objects, NEW b \in BOOLEAN
  PROVE  /\ [x EXCEPT !.marked = b].marked = b
         /\ [x EXCEPT !.marked = b].dirty = x.dirty
         /\ [x EXCEPT !.marked = b].finalized = x.finalized
         /\ [x EXCEPT !.dirty = b].marked = x.marked
         /\ [x EXCEPT !.dirty = b].dirty = b
         /\ [x EXCEPT !.dirty = b].finalized = x.finalized
         /\ [x EXCEPT !.finalized = b].marked = x.marked
         /\ [x EXCEPT !.finalized = b].dirty = x.dirty
         /\ [x EXCEPT !.finalized = b].finalized = b
BY DEF Objects

LEMMA ResolveFacts ==
  ASSUME NEW h \in Heaps, Chains(h)
  PROVE  \A w \in Value :
            /\ Resolve(h, w) \in Value
            /\ Resolve(h, w) = IF Forwards(h, w) THEN Resolve(h, h[w].forward) ELSE w
            /\ ~ Forwards(h, Resolve(h, w))
            /\ Resolve(h, Resolve(h, w)) = Resolve(h, w)
<1>1. PICK f \in [Value -> Value] :
         /\ Resolves(h, f)
         /\ \A g : Resolves(h, g) => g = f
         /\ \A w \in Value : ~ Forwards(h, f[w])
  BY DEF Chains
<1>2. \A w \in Value : f[w] = IF Forwards(h, w) THEN f[h[w].forward] ELSE w
  BY <1>1, ResolvesAt
<1>3. \A w \in Value : Resolve(h, w) = f[w]
  BY <1>1, ResolveIs
<1>4. \A w \in Value : Forwards(h, w) => h[w].forward \in Value
  BY HeapsAt DEF Forwards
<1>5. \A w \in Value : f[w] \in Value /\ f[f[w]] = f[w]
  BY <1>1, <1>2
<1> QED
  BY <1>1, <1>2, <1>3, <1>4, <1>5

LEMMA SlotFacts ==
  ASSUME NEW h \in Heaps, Chains(h), NEW o \in Object
  PROVE  /\ Slot(h, o) \in Value
         /\ ~ Forwards(h, Slot(h, o))
         /\ Resolve(h, Slot(h, o)) = Slot(h, o)
BY ResolveFacts, HeapsAt DEF Slot

\* Only the forwarding pointers matter.
LEMMA SameForwards ==
  ASSUME NEW h, NEW k, Chains(h), \A o \in Object : k[o].forward = h[o].forward
  PROVE  Chains(k) /\ \A w \in Value : Resolve(k, w) = Resolve(h, w)
<1>1. PICK f \in [Value -> Value] :
         /\ Resolves(h, f)
         /\ \A g : Resolves(h, g) => g = f
         /\ \A w \in Value : ~ Forwards(h, f[w])
  BY DEF Chains
<1>2. \A w : Forwards(k, w) <=> Forwards(h, w)
  BY DEF Forwards
<1>3. \A w : Forwards(h, w) => k[w].forward = h[w].forward
  BY DEF Forwards
<1>4. \A g : Resolves(k, g) <=> Resolves(h, g)
  <2> TAKE g
  <2>1. \A w : (IF Forwards(k, w) THEN g[k[w].forward] ELSE w)
               = (IF Forwards(h, w) THEN g[h[w].forward] ELSE w)
    BY <1>2, <1>3
  <2>2. ASSUME Resolves(k, g) PROVE Resolves(h, g)
    <3>1. /\ g = [w \in Value |-> g[w]]
          /\ \A w \in Value : g[w] = IF Forwards(k, w) THEN g[k[w].forward] ELSE w
      BY <2>2, ResolvesAt
    <3> QED
      BY <2>1, <3>1, ResolvesWhen
  <2>3. ASSUME Resolves(h, g) PROVE Resolves(k, g)
    <3>1. /\ g = [w \in Value |-> g[w]]
          /\ \A w \in Value : g[w] = IF Forwards(h, w) THEN g[h[w].forward] ELSE w
      BY <2>3, ResolvesAt
    <3> QED
      BY <2>1, <3>1, ResolvesWhen
  <2> QED
    BY <2>2, <2>3
<1>5. \A w \in Value : Resolve(h, w) = f[w]
  BY <1>1, ResolveIs
<1>6. \A w \in Value : Resolve(k, w) = f[w]
  BY <1>1, <1>4, ResolveIs
<1>7. Chains(k)
  BY <1>1, <1>2, <1>4 DEF Chains
<1> QED
  BY <1>5, <1>6, <1>7

\* With no forwarding pointer every reference is its own.
LEMMA NoForwards ==
  ASSUME NEW h, \A o \in Object : h[o].forward = Nil
  PROVE  Chains(h) /\ \A w \in Value : Resolve(h, w) = w
<1> DEFINE f == [w \in Value |-> w]
<1>1. \A w : ~ Forwards(h, w)
  BY DEF Forwards
<1>2. f \in [Value -> Value] /\ f = [w \in Value |-> f[w]] /\ \A w \in Value : f[w] = w
  OBVIOUS
<1> HIDE DEF f
<1>3. Resolves(h, f)
  BY <1>1, <1>2, ResolvesWhen
<1>4. ASSUME NEW g, Resolves(h, g) PROVE g = f
  <2>1. g = [w \in Value |-> g[w]] /\ \A w \in Value : g[w] = w
    BY <1>1, <1>4, ResolvesAt
  <2> QED
    BY <1>2, <2>1
<1>5. Chains(h)
  BY <1>1, <1>2, <1>3, <1>4 DEF Chains
<1> QED
  BY <1>2, <1>3, <1>4, <1>5, ResolveIs

\* Array b takes over from a: what was found at a is found at b.
LEMMA GrowForwards ==
  ASSUME HeapAssumption, NEW h \in Heaps, NEW k, Chains(h),
         NEW a \in Object, NEW b \in Object, a # b,
         ~ Forwards(h, a), ~ Forwards(h, b),
         \A o \in Object : h[o].forward # b,
         \A o \in Object : k[o].forward = IF o = a THEN b ELSE h[o].forward
  PROVE  /\ Chains(k)
         /\ \A w \in Value :
              Resolve(k, w) = IF Resolve(h, w) = a THEN b ELSE Resolve(h, w)
<1>1. PICK f \in [Value -> Value] :
         /\ Resolves(h, f)
         /\ \A g : Resolves(h, g) => g = f
         /\ \A w \in Value : ~ Forwards(h, f[w])
  BY DEF Chains
<1>2. \A w \in Value : f[w] = IF Forwards(h, w) THEN f[h[w].forward] ELSE w
  BY <1>1, ResolvesAt
<1>3. a \in Value /\ b \in Value /\ Lost \in Value /\ a # Lost /\ b # Nil
  BY DEF Value, HeapAssumption
<1>4. \A w \in Value : /\ Forwards(h, w) => w # a /\ w # b /\ h[w].forward \in Value
                       /\ Forwards(k, w) <=> (Forwards(h, w) \/ w = a)
                       /\ Forwards(h, w) => k[w].forward = h[w].forward
  BY <1>3, HeapsAt DEF Forwards
<1>5. k[a].forward = b
  OBVIOUS
<1> DEFINE e == [w \in Value |-> IF f[w] = a THEN b ELSE f[w]]
<1>6. /\ e \in [Value -> Value] /\ e = [w \in Value |-> e[w]]
      /\ \A w \in Value : e[w] = IF f[w] = a THEN b ELSE f[w]
  BY <1>1, <1>3
<1> HIDE DEF e
<1>7. \A w \in Value : e[w] = IF Forwards(k, w) THEN e[k[w].forward] ELSE w
  <2> TAKE w \in Value
  <2>1. CASE w = a
    <3>1. f[a] = a /\ f[b] = b
      BY <1>2, <1>3, <1>4
    <3> QED
      BY <1>3, <1>4, <1>5, <1>6, <2>1, <3>1
  <2>2. CASE Forwards(h, w)
    BY <1>2, <1>4, <1>6, <2>2
  <2>3. CASE ~ Forwards(h, w) /\ w # a
    BY <1>2, <1>4, <1>6, <2>3
  <2> QED
    BY <2>1, <2>2, <2>3
<1>8. Resolves(k, e)
  BY <1>6, <1>7, ResolvesWhen
<1>9. ASSUME NEW g, Resolves(k, g) PROVE g = e
  <2>1. /\ g = [w \in Value |-> g[w]]
        /\ \A w \in Value : g[w] = IF Forwards(k, w) THEN g[k[w].forward] ELSE w
    BY <1>9, ResolvesAt
  <2> DEFINE d == [w \in Value |-> IF f[w] # a THEN g[w] ELSE IF g[w] = b THEN a ELSE Lost]
  <2>2. /\ d = [w \in Value |-> d[w]]
        /\ \A w \in Value : d[w] = IF f[w] # a THEN g[w] ELSE IF g[w] = b THEN a ELSE Lost
    OBVIOUS
  <2> HIDE DEF d
  <2>3. \A w \in Value : d[w] = IF Forwards(h, w) THEN d[h[w].forward] ELSE w
    <3> TAKE w \in Value
    <3>1. CASE w = a
      <4>1. g[a] = b
        BY <1>3, <1>4, <1>5, <2>1
      <4> QED
        BY <1>2, <1>3, <2>2, <3>1, <4>1
    <3>2. CASE Forwards(h, w)
      <4>1. f[w] = f[h[w].forward] /\ g[w] = g[h[w].forward]
        BY <1>2, <1>4, <2>1, <3>2
      <4> QED
        BY <1>4, <2>2, <3>2, <4>1
    <3>3. CASE ~ Forwards(h, w) /\ w # a
      BY <1>2, <1>4, <2>1, <2>2, <3>3
    <3> QED
      BY <3>1, <3>2, <3>3
  <2>4. Resolves(h, d)
    BY <2>2, <2>3, ResolvesWhen
  <2>5. d = f
    BY <1>1, <2>4
  <2>6. \A w \in Value : g[w] = e[w]
    BY <1>3, <1>6, <2>2, <2>5
  <2> QED
    BY <1>6, <2>1, <2>6
<1>10. \A w \in Value : ~ Forwards(k, e[w])
  BY <1>1, <1>3, <1>4, <1>6
<1>11. Chains(k)
  BY <1>6, <1>8, <1>9, <1>10 DEF Chains
<1>12. \A w \in Value : Resolve(h, w) = f[w]
  BY <1>1, ResolveIs
<1>13. \A w \in Value : Resolve(k, w) = e[w]
  BY <1>8, <1>9, ResolveIs
<1> QED
  BY <1>6, <1>11, <1>12, <1>13

-----------------------------------------------------------------------------
(* What the roots rt lead to in the heap h.                                 *)

Reach(h, rt) == Trace(h, {Resolve(h, rt[r]) : r \in Root}, Object)

LEMMA LiveIs == Live = Reach(heap, root)
BY DEF Live, Reach, Roots

LEMMA ReachFacts ==
  ASSUME HeapAssumption, NEW h, NEW rt
  PROVE  /\ Reach(h, rt) \subseteq Object
         /\ \A r \in Root : Resolve(h, rt[r]) \in Object => Resolve(h, rt[r]) \in Reach(h, rt)
         /\ \A o \in Reach(h, rt) : Slot(h, o) \in Object => Slot(h, o) \in Reach(h, rt)
<1> DEFINE s == {Resolve(h, rt[r]) : r \in Root}
<1>1. /\ Trace(h, s, Object) \subseteq Object
      /\ s \cap Object \subseteq Trace(h, s, Object)
      /\ ClosedUnder(h, Trace(h, s, Object), Object)
  BY TraceFacts
<1> QED
  BY <1>1 DEF Reach, ClosedUnder

LEMMA ReachLeast ==
  ASSUME HeapAssumption, NEW h, NEW rt, NEW C,
         \A r \in Root : Resolve(h, rt[r]) \in Object => Resolve(h, rt[r]) \in C,
         \A o \in C : Slot(h, o) \in Object => Slot(h, o) \in C
  PROVE  Reach(h, rt) \subseteq C
<1> DEFINE s == {Resolve(h, rt[r]) : r \in Root}
<1>1. s \cap Object \subseteq C /\ ClosedUnder(h, C, Object)
  BY DEF ClosedUnder
<1>2. Trace(h, s, Object) \subseteq C
  BY <1>1, TraceLeast
<1> QED
  BY <1>2 DEF Reach

LEMMA SameReach ==
  ASSUME HeapAssumption, NEW h, NEW rt, NEW k, NEW ru,
         \A r \in Root : Resolve(k, ru[r]) = Resolve(h, rt[r]),
         \A o \in Reach(h, rt) : Slot(k, o) = Slot(h, o)
  PROVE  Reach(k, ru) = Reach(h, rt)
<1>1. Reach(k, ru) \subseteq Reach(h, rt)
  BY ReachFacts, ReachLeast
<1> DEFINE C == Reach(h, rt) \cap Reach(k, ru)
<1>2. \A r \in Root : Resolve(h, rt[r]) \in Object => Resolve(h, rt[r]) \in C
  BY ReachFacts
<1>3. \A o \in C : Slot(h, o) \in Object => Slot(h, o) \in C
  BY ReachFacts
<1> HIDE DEF C
<1>4. Reach(h, rt) \subseteq C
  BY <1>2, <1>3, ReachLeast
<1> QED
  BY <1>1, <1>4 DEF C

-----------------------------------------------------------------------------
(* The shape of a heap: a reclaimed object is blank and nothing refers to   *)
(* it, and only young arrays forward, to young ones.                        *)

Used(h, v) == v \in Object => h[v].gen # "free"

Shape(h) ==
  /\ \A o \in Object : h[o].gen = "free" => h[o] = Blank
  /\ \A o \in Object : Used(h, h[o].slot)
  /\ \A o \in Object : h[o].forward # Nil =>
       /\ h[o].gen \in Young
       /\ h[o].forward \in In(h, Young)
       /\ Resolve(h, o) \in In(h, Young)

\* A reference keeps its generation, young or not, when it is resolved.
LEMMA ResolveShape ==
  ASSUME NEW h \in Heaps, Chains(h), Shape(h), NEW w \in Value
  PROVE  /\ Resolve(h, w) = w \/ (w \in In(h, Young) /\ Resolve(h, w) \in In(h, Young))
         /\ Resolve(h, w) \in Object <=> w \in Object
         /\ Resolve(h, w) \in In(h, Young) <=> w \in In(h, Young)
         /\ Used(h, w) => Used(h, Resolve(h, w))
<1>1. Forwards(h, w) => w \in In(h, Young) /\ Resolve(h, w) \in In(h, Young)
  BY DEF Shape, Forwards, In
<1>2. ~ Forwards(h, w) => Resolve(h, w) = w
  BY ResolveFacts
<1>3. \A o \in In(h, Young) : o \in Object /\ h[o].gen # "free"
  BY DEF In, Young
<1> QED
  BY <1>1, <1>2, <1>3 DEF Used

\* k is h after a marker has set marks and flags, and has resolved some slots.
Touched(h, k) ==
  /\ k \in Heaps
  /\ \A o \in Object :
       /\ k[o].gen = h[o].gen /\ k[o].forward = h[o].forward
       /\ k[o].slot \in {h[o].slot, Slot(h, o)}
       /\ h[o].gen = "free" => k[o] = Blank

LEMMA TouchFacts ==
  ASSUME NEW h \in Heaps, Chains(h), Shape(h), NEW k, Touched(h, k)
  PROVE  /\ k \in Heaps /\ Chains(k) /\ Shape(k)
         /\ \A w \in Value : Resolve(k, w) = Resolve(h, w)
         /\ \A o \in Object : Slot(k, o) = Slot(h, o)
         /\ \A g : In(k, g) = In(h, g)
<1>1. k \in Heaps
  BY DEF Touched
<1>2. Chains(k) /\ \A w \in Value : Resolve(k, w) = Resolve(h, w)
  BY SameForwards DEF Touched
<1>3. \A o \in Object : Slot(k, o) = Slot(h, o)
  <2> TAKE o \in Object
  <2>1. Slot(k, o) = Resolve(h, k[o].slot)
    BY <1>1, <1>2, HeapsAt DEF Slot
  <2>2. k[o].slot \in {h[o].slot, Slot(h, o)}
    BY DEF Touched
  <2>3. Resolve(h, Slot(h, o)) = Slot(h, o) /\ Slot(h, o) = Resolve(h, h[o].slot)
    BY SlotFacts DEF Slot
  <2> QED
    BY <2>1, <2>2, <2>3
<1>4. \A g : In(k, g) = In(h, g)
  BY DEF In, Touched
<1>5. \A v : Used(k, v) <=> Used(h, v)
  BY DEF Used, Touched
<1>6. Shape(k)
  <2>1. \A o \in Object : k[o].gen = "free" => k[o] = Blank
    BY DEF Touched
  <2>2. \A o \in Object : Used(k, k[o].slot)
    <3> TAKE o \in Object
    <3>1. Used(h, h[o].slot) /\ h[o].slot \in Value
      BY HeapsAt DEF Shape
    <3>2. Used(h, Slot(h, o))
      BY <3>1, ResolveShape DEF Slot
    <3>3. k[o].slot \in {h[o].slot, Slot(h, o)}
      BY DEF Touched
    <3> QED
      BY <1>5, <3>1, <3>2, <3>3
  <2>3. ASSUME NEW o \in Object, k[o].forward # Nil
        PROVE  /\ k[o].gen \in Young
               /\ k[o].forward \in In(k, Young)
               /\ Resolve(k, o) \in In(k, Young)
    <3>1. k[o].gen = h[o].gen /\ k[o].forward = h[o].forward
      BY DEF Touched
    <3>2. Resolve(k, o) = Resolve(h, o)
      BY <1>2 DEF Value
    <3> QED
      BY <1>4, <2>3, <3>1, <3>2 DEF Shape
  <2> QED
    BY <2>1, <2>2, <2>3 DEF Shape
<1> QED
  BY <1>1, <1>2, <1>3, <1>4, <1>6

-----------------------------------------------------------------------------
(* A collection works on a memory.  What holds of one between steps:        *)

Memories == [heap : Heaps, root : [Root -> Value],
             remset : SUBSET Object, queue : SUBSET Object]

Sound(m) ==
  /\ m \in Memories
  /\ Chains(m.heap) /\ Shape(m.heap)
  /\ \A r \in Root : Used(m.heap, m.root[r])
  /\ m.remset \subseteq In(m.heap, Tenured)
  /\ m.queue \subseteq In(m.heap, Tenured) \cap Finalizable
  /\ \A o \in m.queue : m.heap[o].finalized
  /\ \A o \in Object : m.heap[o].dirty <=> o \in m.remset
  /\ \A r \in Root : Resolve(m.heap, m.root[r]) # Lost
  /\ \A o \in Reach(m.heap, m.root) : Slot(m.heap, o) # Lost

\* An old object that refers to a young one is remembered, but for busy.
Remembered(m, busy) ==
  \A o \in Reach(m.heap, m.root) \ busy :
    m.heap[o].gen = "old" /\ m.heap[o].slot \in In(m.heap, Young) => o \in m.remset

LEMMA MemoryFacts ==
  ASSUME NEW m \in Memories
  PROVE  /\ m.heap \in Heaps /\ m.root \in [Root -> Value]
         /\ m.remset \subseteq Object /\ m.queue \subseteq Object
         /\ m = [heap |-> m.heap, root |-> m.root, remset |-> m.remset, queue |-> m.queue]
BY DEF Memories

LEMMA ExceptHeap ==
  ASSUME NEW m \in Memories, NEW x
  PROVE  [m EXCEPT !.heap = x]
           = [heap |-> x, root |-> m.root, remset |-> m.remset, queue |-> m.queue]
BY DEF Memories

LEMMA ExceptHeapRoot ==
  ASSUME NEW m \in Memories, NEW x, NEW y
  PROVE  [m EXCEPT !.heap = x, !.root = y]
           = [heap |-> x, root |-> y, remset |-> m.remset, queue |-> m.queue]
<1> DEFINE n == [m EXCEPT !.heap = x]
<1>1. n = [heap |-> x, root |-> m.root, remset |-> m.remset, queue |-> m.queue]
  BY ExceptHeap, Zenon
<1> HIDE DEF n
<1>2. [n EXCEPT !.root = y]
        = [heap |-> x, root |-> y, remset |-> m.remset, queue |-> m.queue]
  BY ONLY <1>1
<1> QED
  BY <1>2, Zenon DEF n

LEMMA ExceptRemsetHeap ==
  ASSUME NEW m \in Memories, NEW z, NEW x
  PROVE  [m EXCEPT !.remset = z, !.heap = x]
           = [heap |-> x, root |-> m.root, remset |-> z, queue |-> m.queue]
<1> DEFINE n == [m EXCEPT !.remset = z]
<1>1. n = [heap |-> m.heap, root |-> m.root, remset |-> z, queue |-> m.queue]
  BY DEF Memories
<1> HIDE DEF n
<1>2. [n EXCEPT !.heap = x]
        = [heap |-> x, root |-> m.root, remset |-> z, queue |-> m.queue]
  BY ONLY <1>1
<1> QED
  BY <1>2, Zenon DEF n

LEMMA ExceptQueueHeap ==
  ASSUME NEW m \in Memories, NEW z, NEW x
  PROVE  [m EXCEPT !.queue = z, !.heap = x]
           = [heap |-> x, root |-> m.root, remset |-> m.remset, queue |-> z]
<1> DEFINE n == [m EXCEPT !.queue = z]
<1>1. n = [heap |-> m.heap, root |-> m.root, remset |-> m.remset, queue |-> z]
  BY DEF Memories
<1> HIDE DEF n
<1>2. [n EXCEPT !.heap = x]
        = [heap |-> x, root |-> m.root, remset |-> m.remset, queue |-> z]
  BY ONLY <1>1
<1> QED
  BY <1>2, Zenon DEF n

LEMMA ExceptHeapRootRemset ==
  ASSUME NEW m \in Memories, NEW x, NEW y, NEW z
  PROVE  [m EXCEPT !.heap = x, !.root = y, !.remset = z]
           = [heap |-> x, root |-> y, remset |-> z, queue |-> m.queue]
<1> DEFINE n == [m EXCEPT !.heap = x, !.root = y]
<1>1. n = [heap |-> x, root |-> y, remset |-> m.remset, queue |-> m.queue]
  BY ExceptHeapRoot, Zenon
<1> HIDE DEF n
<1>2. [n EXCEPT !.remset = z] = [heap |-> x, root |-> y, remset |-> z, queue |-> m.queue]
  BY ONLY <1>1
<1> QED
  BY <1>2, Zenon DEF n

\* The program sees the same in n as in m.
SameView(m, n) ==
  /\ \A r \in Root : Resolve(n.heap, n.root[r]) = Resolve(m.heap, m.root[r])
  /\ \A o \in Object : Slot(n.heap, o) = Slot(m.heap, o)
  /\ Reach(n.heap, n.root) = Reach(m.heap, m.root)

\* The same of what the program can reach alone.
Alike(m, n) ==
  /\ Reach(n.heap, n.root) = Reach(m.heap, m.root)
  /\ \A r \in Root : Resolve(n.heap, n.root[r]) = Resolve(m.heap, m.root[r])
  /\ \A o \in Reach(m.heap, m.root) : Slot(n.heap, o) = Slot(m.heap, o)

LEMMA MarkingKeeps ==
  ASSUME HeapAssumption, NEW m, Sound(m), NEW n \in Memories,
         Touched(m.heap, n.heap),
         \A r \in Root : n.root[r] \in {m.root[r], Resolve(m.heap, m.root[r])},
         n.remset \subseteq In(m.heap, Tenured),
         n.queue \subseteq In(m.heap, Tenured) \cap Finalizable,
         \A o \in n.queue : n.heap[o].finalized,
         \A o \in Object : n.heap[o].dirty <=> o \in n.remset
  PROVE  /\ Sound(n) /\ SameView(m, n)
         /\ \A g : In(n.heap, g) = In(m.heap, g)
         /\ \A w \in Value : Resolve(n.heap, w) = Resolve(m.heap, w)
<1> DEFINE h == m.heap
           k == n.heap
<1>1. /\ h \in Heaps /\ Chains(h) /\ Shape(h)
      /\ \A r \in Root : m.root[r] \in Value
  BY MemoryFacts DEF Sound
<1>2. /\ k \in Heaps /\ Chains(k) /\ Shape(k)
      /\ \A w \in Value : Resolve(k, w) = Resolve(h, w)
      /\ \A o \in Object : Slot(k, o) = Slot(h, o)
      /\ \A g : In(k, g) = In(h, g)
  <2> HIDE DEF h, k
  <2>1. Touched(h, k)
    BY DEF h, k
  <2> QED
    BY <1>1, <2>1, TouchFacts
<1>3. ASSUME NEW r \in Root
      PROVE  Resolve(k, n.root[r]) = Resolve(h, m.root[r]) /\ Used(k, n.root[r])
  <2>1. /\ Resolve(h, m.root[r]) \in Value
        /\ Resolve(h, Resolve(h, m.root[r])) = Resolve(h, m.root[r])
    BY <1>1, ResolveFacts
  <2>2. Used(h, m.root[r]) /\ Used(h, Resolve(h, m.root[r]))
    BY <1>1, ResolveShape DEF Sound
  <2>3. \A v : Used(h, v) => Used(k, v)
    BY DEF Used, Touched
  <2> QED
    BY <1>1, <1>2, <2>1, <2>2, <2>3
<1>4. Reach(k, n.root) = Reach(h, m.root)
  BY <1>2, <1>3, ReachFacts, SameReach
<1>5. SameView(m, n)
  BY <1>2, <1>3, <1>4 DEF SameView
<1>6. /\ \A r \in Root : Resolve(k, n.root[r]) # Lost
      /\ \A o \in Reach(k, n.root) : Slot(k, o) # Lost
  BY <1>2, <1>3, <1>4, ReachFacts DEF Sound
<1>7. Sound(n)
  BY <1>2, <1>3, <1>6 DEF Sound
<1> QED
  BY <1>2, <1>5, <1>7

-----------------------------------------------------------------------------
(* The steps of a major collection that mark.                               *)

LEMMA MarkFacts ==
  ASSUME HeapAssumption, NEW h \in Heaps, Chains(h), Shape(h),
         NEW s, \A v \in s : Used(h, v)
  PROVE  /\ Touched(h, Mark(h, s))
         /\ \A o \in Object :
              /\ Mark(h, s)[o].dirty = h[o].dirty
              /\ Mark(h, s)[o].finalized = h[o].finalized
              /\ h[o].marked => Mark(h, s)[o].marked
              /\ o \in s => Mark(h, s)[o].marked
              /\ Mark(h, s)[o].marked /\ Slot(h, o) \in Object
                   => h[o].marked \/ Mark(h, s)[Slot(h, o)].marked
<1> DEFINE unmarked == {o \in Object : ~ h[o].marked}
           found == Trace(h, s, unmarked)
           k == Mark(h, s)
<1>1. /\ found \subseteq unmarked
      /\ s \cap unmarked \subseteq found
      /\ ClosedUnder(h, found, unmarked)
  BY TraceFacts
<1>2. found \subseteq {o \in Object : h[o].gen # "free"}
  <2> DEFINE C == {o \in Object : h[o].gen # "free"}
  <2>1. s \cap unmarked \subseteq C
    BY DEF Used
  <2>2. \A o \in Object : Used(h, Slot(h, o))
    BY HeapsAt, ResolveShape DEF Shape, Slot
  <2>3. ClosedUnder(h, C, unmarked)
    BY <2>2 DEF ClosedUnder, Used
  <2> HIDE DEF C, unmarked
  <2>4. Trace(h, s, unmarked) \subseteq C
    BY <2>1, <2>3, TraceLeast
  <2> QED
    BY <2>4 DEF C
<1> DEFINE After(o) == IF o \in found
                       THEN [h[o] EXCEPT !.marked = TRUE, !.slot = Slot(h, o)]
                       ELSE h[o]
<1>3. k = [o \in Object |-> k[o]] /\ \A o \in Object : k[o] = After(o)
  <2>1. k = [o \in Object |-> After(o)]
    BY DEF Mark
  <2> HIDE DEF k, After
  <2> QED
    BY <2>1
<1> HIDE DEF found, k, After
<1>4. ASSUME NEW o \in Object
      PROVE  /\ k[o] \in Objects
             /\ k[o].gen = h[o].gen /\ k[o].forward = h[o].forward
             /\ k[o].slot \in {h[o].slot, Slot(h, o)}
             /\ k[o].dirty = h[o].dirty /\ k[o].finalized = h[o].finalized
             /\ k[o].marked <=> (h[o].marked \/ o \in found)
             /\ h[o].gen = "free" => k[o] = h[o]
  <2>1. Slot(h, o) \in Value
    BY SlotFacts
  <2>2. CASE o \in found
    <3>1. k[o] = [h[o] EXCEPT !.marked = TRUE, !.slot = Slot(h, o)]
      BY <1>3, <2>2, Zenon DEF After
    <3>2. h[o].gen # "free" /\ h[o] \in Objects
      BY <1>2, <2>2, HeapsAt
    <3> DEFINE a == h[o]
               v == Slot(h, o)
               b == [a EXCEPT !.marked = TRUE]
    <3>3. a \in Objects /\ v \in Value /\ k[o] = [b EXCEPT !.slot = v]
      BY <2>1, <3>1, <3>2, Zenon
    <3> HIDE DEF a, v
    <3>4. /\ b \in Objects /\ b.marked = TRUE
          /\ b.gen = a.gen /\ b.forward = a.forward /\ b.dirty = a.dirty
          /\ b.finalized = a.finalized
      BY ONLY <3>3 DEF Objects
    <3> HIDE DEF b
    <3>5. /\ k[o] \in Objects /\ k[o].slot = v /\ k[o].marked = TRUE
          /\ k[o].gen = a.gen /\ k[o].forward = a.forward /\ k[o].dirty = a.dirty
          /\ k[o].finalized = a.finalized
      BY ONLY <3>3, <3>4 DEF Objects
    <3> QED
      BY <2>2, <3>2, <3>5 DEF a, v
  <2>3. CASE o \notin found
    <3>1. k[o] = h[o]
      BY <1>3, <2>3, Zenon DEF After
    <3> QED
      BY <2>3, <3>1, HeapsAt DEF Objects
  <2> QED
    BY <2>2, <2>3
<1>5. k \in Heaps
  BY <1>3, <1>4 DEF Heaps
<1>6. Touched(h, k)
  BY <1>4, <1>5 DEF Touched, Shape
<1>7. ASSUME NEW o \in Object
      PROVE  /\ o \in s => k[o].marked
             /\ k[o].marked /\ Slot(h, o) \in Object => h[o].marked \/ k[Slot(h, o)].marked
  BY <1>1, <1>4 DEF ClosedUnder
<1> QED
  BY <1>4, <1>6, <1>7 DEF k

LEMMA MarkRootsFacts ==
  ASSUME HeapAssumption, NEW m, Sound(m), NEW more \in SUBSET m.queue,
         NEW n, n = MarkRoots(m, more)
  PROVE  /\ Sound(n) /\ SameView(m, n)
         /\ n.remset = m.remset /\ n.queue = m.queue
         /\ \A g : In(n.heap, g) = In(m.heap, g)
         /\ \A w \in Value : Resolve(n.heap, w) = Resolve(m.heap, w)
         /\ \A r \in Root : Resolve(m.heap, m.root[r]) \in Object
                             => n.heap[Resolve(m.heap, m.root[r])].marked
         /\ \A o \in more : n.heap[o].marked
         /\ \A o \in Object :
              /\ n.heap[o].finalized = m.heap[o].finalized
              /\ m.heap[o].marked => n.heap[o].marked
              /\ n.heap[o].marked /\ Slot(m.heap, o) \in Object
                   => m.heap[o].marked \/ n.heap[Slot(m.heap, o)].marked
<1> DEFINE h == m.heap
           resolved == [r \in Root |-> Resolve(h, m.root[r])]
           s == {resolved[r] : r \in Root} \cup more
<1>1. /\ h \in Heaps /\ Chains(h) /\ Shape(h)
      /\ \A r \in Root : m.root[r] \in Value
      /\ m \in Memories
  BY MemoryFacts DEF Sound
<1>2. n = [heap |-> Mark(h, s), root |-> resolved, remset |-> m.remset, queue |-> m.queue]
  <2>1. n = [m EXCEPT !.heap = Mark(h, s), !.root = resolved]
    BY DEF MarkRoots
  <2> HIDE DEF h, s, resolved
  <2> QED
    BY <1>1, <2>1, ExceptHeapRoot, Zenon
<1>3. \A v \in s : Used(h, v)
  <2>1. \A r \in Root : Used(h, resolved[r])
    BY <1>1, ResolveShape DEF Sound
  <2>2. \A o \in more : Used(h, o)
    BY DEF Sound, In, Tenured, Used
  <2> QED
    BY <2>1, <2>2
<1>4. resolved \in [Root -> Value]
  BY <1>1, ResolveFacts
<1> HIDE DEF h, s, resolved
<1>5. /\ Touched(h, n.heap)
      /\ \A o \in Object :
              /\ n.heap[o].dirty = h[o].dirty
              /\ n.heap[o].finalized = h[o].finalized
              /\ h[o].marked => n.heap[o].marked
              /\ o \in s => n.heap[o].marked
              /\ n.heap[o].marked /\ Slot(h, o) \in Object
                   => h[o].marked \/ n.heap[Slot(h, o)].marked
  BY <1>1, <1>2, <1>3, MarkFacts
<1>6. n \in Memories /\ n.remset = m.remset /\ n.queue = m.queue /\ n.root = resolved
  BY <1>1, <1>2, <1>4, <1>5, MemoryFacts DEF Memories, Touched
<1>7. \A r \in Root : n.root[r] \in {m.root[r], Resolve(m.heap, m.root[r])}
  BY <1>6 DEF resolved, h
<1>8. /\ Sound(n) /\ SameView(m, n)
      /\ \A g : In(n.heap, g) = In(m.heap, g)
      /\ \A w \in Value : Resolve(n.heap, w) = Resolve(m.heap, w)
  <2>1. /\ Touched(m.heap, n.heap)
        /\ n.remset \subseteq In(m.heap, Tenured)
        /\ n.queue \subseteq In(m.heap, Tenured) \cap Finalizable
        /\ \A o \in n.queue : n.heap[o].finalized
        /\ \A o \in Object : n.heap[o].dirty <=> o \in n.remset
    BY <1>5, <1>6, MemoryFacts DEF Sound, h
  <2> QED
    BY <1>6, <1>7, <2>1, MarkingKeeps
<1>9. /\ \A r \in Root : Resolve(m.heap, m.root[r]) \in s
      /\ more \subseteq s /\ more \subseteq Object
  BY <1>6, <1>1, MemoryFacts DEF s, resolved, h
<1> QED
  BY <1>5, <1>6, <1>8, <1>9 DEF h

LEMMA FilterRemsetFacts ==
  ASSUME HeapAssumption, NEW m, Sound(m), NEW n, n = FilterRemset(m)
  PROVE  /\ Sound(n) /\ SameView(m, n)
         /\ n.remset = {o \in m.remset : m.heap[o].marked} /\ n.queue = m.queue
         /\ \A g : In(n.heap, g) = In(m.heap, g)
         /\ \A w \in Value : Resolve(n.heap, w) = Resolve(m.heap, w)
         /\ \A o \in Object : /\ n.heap[o].marked = m.heap[o].marked
                              /\ n.heap[o].finalized = m.heap[o].finalized
<1> DEFINE h == m.heap
           dropped == {o \in m.remset : ~ h[o].marked}
           Flag(o) == h[o].dirty /\ o \notin dropped
           After(o) == [h[o] EXCEPT !.dirty = Flag(o)]
           k == [o \in Object |-> After(o)]
<1>1. /\ m \in Memories /\ h \in Heaps /\ Chains(h) /\ Shape(h)
      /\ \A o \in Object : h[o].dirty <=> o \in m.remset
  BY MemoryFacts DEF Sound
<1>2. n = [heap |-> k, root |-> m.root, remset |-> m.remset \ dropped, queue |-> m.queue]
  <2>1. n = [m EXCEPT !.remset = m.remset \ dropped, !.heap = k]
    BY Zenon DEF FilterRemset
  <2> HIDE DEF k, dropped
  <2> QED
    BY <1>1, <2>1, ExceptRemsetHeap, Zenon
<1>3. m.remset \ dropped = {o \in m.remset : h[o].marked}
  OBVIOUS
<1>4. ASSUME NEW o \in Object
      PROVE  /\ After(o) \in Objects
             /\ After(o).gen = h[o].gen /\ After(o).forward = h[o].forward
             /\ After(o).slot = h[o].slot
             /\ After(o).marked = h[o].marked /\ After(o).finalized = h[o].finalized
             /\ After(o).dirty <=> (h[o].dirty /\ o \notin dropped)
             /\ h[o].gen = "free" => After(o) = Blank
  <2>1. h[o] \in Objects /\ Flag(o) \in BOOLEAN
    BY <1>1, HeapsAt
  <2>2. ASSUME h[o].gen = "free" PROVE h[o] = Blank /\ ~ Flag(o)
    <3>1. h[o] = Blank
      BY <1>1, <2>2 DEF Shape
    <3> QED
      BY <3>1 DEF Blank
  <2> HIDE DEF Flag
  <2>3. /\ After(o) \in Objects
        /\ After(o).gen = h[o].gen /\ After(o).forward = h[o].forward
        /\ After(o).slot = h[o].slot
        /\ h[o].gen = "free" => After(o) = Blank
    BY <2>1, <2>2, FlagFacts
  <2>4. /\ After(o).dirty = Flag(o)
        /\ After(o).marked = h[o].marked /\ After(o).finalized = h[o].finalized
    BY <2>1, FlagIs
  <2> QED
    BY <2>3, <2>4 DEF Flag
<1> HIDE DEF h, dropped, After
<1>5. k \in Heaps /\ \A o \in Object : k[o] = After(o)
  BY <1>4 DEF Heaps
<1> HIDE DEF k
<1>6. n \in Memories /\ Touched(h, n.heap)
  BY <1>1, <1>2, <1>4, <1>5, MemoryFacts DEF Memories, Touched
<1>7. /\ \A r \in Root : n.root[r] \in {m.root[r], Resolve(h, m.root[r])}
      /\ n.remset \subseteq In(h, Tenured)
      /\ n.queue \subseteq In(h, Tenured) \cap Finalizable
  BY <1>2 DEF Sound, h
<1>8. n.queue \subseteq Object /\ \A o \in n.queue : n.heap[o].finalized
  BY <1>2, <1>4, <1>5, <1>1, MemoryFacts DEF Sound, h
<1>9. \A o \in Object : n.heap[o].dirty <=> o \in n.remset
  BY <1>1, <1>2, <1>4, <1>5
<1>10. /\ Sound(n) /\ SameView(m, n)
       /\ \A g : In(n.heap, g) = In(m.heap, g)
       /\ \A w \in Value : Resolve(n.heap, w) = Resolve(m.heap, w)
  BY <1>6, <1>7, <1>8, <1>9, MarkingKeeps DEF h
<1> QED
  BY <1>2, <1>3, <1>4, <1>5, <1>10 DEF h

\* The dead that wait for a finalizer.
Doomed(h) == {o \in In(h, Tenured) \cap Finalizable : ~ h[o].marked /\ ~ h[o].finalized}

LEMMA ResurrectFacts ==
  ASSUME HeapAssumption, NEW m, Sound(m), NEW n, n = Resurrect(m)
  PROVE  /\ Sound(n) /\ SameView(m, n)
         /\ n.remset = m.remset /\ n.queue = m.queue \cup Doomed(m.heap)
         /\ \A g : In(n.heap, g) = In(m.heap, g)
         /\ \A w \in Value : Resolve(n.heap, w) = Resolve(m.heap, w)
         /\ \A o \in Object :
              /\ m.heap[o].marked => n.heap[o].marked
              /\ o \in Doomed(m.heap) => n.heap[o].marked
              /\ n.heap[o].finalized <=> (m.heap[o].finalized \/ o \in Doomed(m.heap))
<1> DEFINE h == m.heap
           Flag(o) == h[o].finalized \/ o \in Doomed(h)
           After(o) == [h[o] EXCEPT !.finalized = Flag(o)]
           flagged == [o \in Object |-> After(o)]
<1>1. /\ m \in Memories /\ h \in Heaps /\ Chains(h) /\ Shape(h)
      /\ \A o \in Object : h[o].dirty <=> o \in m.remset
  BY MemoryFacts DEF Sound
<1>2. n = [heap |-> Mark(flagged, Doomed(h)), root |-> m.root,
           remset |-> m.remset, queue |-> m.queue \cup Doomed(h)]
  <2>1. n = [m EXCEPT !.queue = m.queue \cup Doomed(h), !.heap = Mark(flagged, Doomed(h))]
    BY DEF Resurrect, Doomed
  <2> HIDE DEF flagged, h
  <2> QED
    BY <1>1, <2>1, ExceptQueueHeap, Zenon
<1>3. Doomed(h) \subseteq In(h, Tenured) \cap Finalizable /\ Doomed(h) \subseteq Object
  BY DEF Doomed, In
<1>4. ASSUME NEW o \in Object
      PROVE  /\ After(o) \in Objects
             /\ After(o).gen = h[o].gen /\ After(o).forward = h[o].forward
             /\ After(o).slot = h[o].slot
             /\ After(o).marked = h[o].marked /\ After(o).dirty = h[o].dirty
             /\ After(o).finalized <=> (h[o].finalized \/ o \in Doomed(h))
             /\ h[o].gen = "free" => After(o) = Blank
  <2>1. h[o] \in Objects /\ Flag(o) \in BOOLEAN
    BY <1>1, HeapsAt
  <2>2. ASSUME h[o].gen = "free" PROVE h[o] = Blank /\ ~ Flag(o)
    <3>1. h[o] = Blank /\ o \notin Doomed(h)
      BY <1>1, <2>2 DEF Shape, Doomed, In, Tenured
    <3> QED
      BY <3>1 DEF Blank
  <2> HIDE DEF Flag
  <2>3. /\ After(o) \in Objects
        /\ After(o).gen = h[o].gen /\ After(o).forward = h[o].forward
        /\ After(o).slot = h[o].slot
        /\ h[o].gen = "free" => After(o) = Blank
    BY <2>1, <2>2, FlagFacts
  <2>4. /\ After(o).finalized = Flag(o)
        /\ After(o).dirty = h[o].dirty /\ After(o).marked = h[o].marked
    BY <2>1, FlagIs
  <2> QED
    BY <2>3, <2>4 DEF Flag
<1> HIDE DEF h, After
<1>5. flagged \in Heaps /\ \A o \in Object : flagged[o] = After(o)
  BY <1>4 DEF Heaps
<1> HIDE DEF flagged
<1>6. Touched(h, flagged)
  BY <1>4, <1>5 DEF Touched
<1>7. /\ Chains(flagged) /\ Shape(flagged)
      /\ \A o \in Object : Slot(flagged, o) = Slot(h, o)
      /\ \A g : In(flagged, g) = In(h, g)
  BY <1>1, <1>6, TouchFacts
<1>8. \A v \in Doomed(h) : Used(flagged, v)
  <2>1. Doomed(h) \subseteq In(flagged, Tenured)
    BY <1>3, <1>7
  <2> QED
    BY <2>1 DEF In, Used, Tenured
<1> DEFINE k == Mark(flagged, Doomed(h))
<1>9. /\ Touched(flagged, k)
      /\ \A o \in Object :
           /\ k[o].dirty = flagged[o].dirty
           /\ k[o].finalized = flagged[o].finalized
           /\ flagged[o].marked => k[o].marked
           /\ o \in Doomed(h) => k[o].marked
  BY <1>5, <1>7, <1>8, MarkFacts
<1> HIDE DEF k
<1>10. Touched(h, k)
  BY <1>4, <1>5, <1>7, <1>9 DEF Touched
<1>11. n = [heap |-> k, root |-> m.root, remset |-> m.remset, queue |-> m.queue \cup Doomed(h)]
  BY <1>2 DEF k
<1>12. n \in Memories /\ Touched(h, n.heap)
  BY <1>1, <1>3, <1>10, <1>11, MemoryFacts DEF Memories, Touched
<1>13. /\ \A r \in Root : n.root[r] \in {m.root[r], Resolve(h, m.root[r])}
       /\ n.remset \subseteq In(h, Tenured)
       /\ n.queue \subseteq In(h, Tenured) \cap Finalizable
  BY <1>3, <1>11 DEF Sound, h
<1>14. \A o \in n.queue : n.heap[o].finalized
  <2>1. \A o \in n.queue : o \in Object /\ (h[o].finalized \/ o \in Doomed(h))
    BY <1>1, <1>3, <1>11, MemoryFacts DEF Sound, h
  <2> QED
    BY <1>4, <1>5, <1>9, <1>11, <2>1
<1>15. \A o \in Object : n.heap[o].dirty <=> o \in n.remset
  BY <1>1, <1>4, <1>5, <1>9, <1>11
<1>16. /\ Sound(n) /\ SameView(m, n)
       /\ \A g : In(n.heap, g) = In(m.heap, g)
       /\ \A w \in Value : Resolve(n.heap, w) = Resolve(m.heap, w)
  BY <1>12, <1>13, <1>14, <1>15, MarkingKeeps DEF h
<1> QED
  BY <1>4, <1>5, <1>9, <1>11, <1>16 DEF h

LEMMA ClearSurvivorsFacts ==
  ASSUME HeapAssumption, NEW m, Sound(m), NEW n, n = ClearSurvivors(m)
  PROVE  /\ Sound(n) /\ SameView(m, n)
         /\ n.remset = m.remset /\ n.queue = m.queue
         /\ \A g : In(n.heap, g) = In(m.heap, g)
         /\ \A w \in Value : Resolve(n.heap, w) = Resolve(m.heap, w)
         /\ \A o \in Object :
              /\ n.heap[o].marked <=> (m.heap[o].marked /\ m.heap[o].gen # "survivor")
              /\ n.heap[o].finalized = m.heap[o].finalized
<1> DEFINE h == m.heap
           Flag(o) == h[o].marked /\ h[o].gen # "survivor"
           After(o) == [h[o] EXCEPT !.marked = Flag(o)]
           k == [o \in Object |-> After(o)]
<1>1. /\ m \in Memories /\ h \in Heaps /\ Chains(h) /\ Shape(h)
      /\ \A o \in Object : h[o].dirty <=> o \in m.remset
  BY MemoryFacts DEF Sound
<1>2. n = [heap |-> k, root |-> m.root, remset |-> m.remset, queue |-> m.queue]
  <2>1. n = [m EXCEPT !.heap = k]
    BY Zenon DEF ClearSurvivors
  <2> HIDE DEF k
  <2> QED
    BY <1>1, <2>1, ExceptHeap, Zenon
<1>4. ASSUME NEW o \in Object
      PROVE  /\ After(o) \in Objects
             /\ After(o).gen = h[o].gen /\ After(o).forward = h[o].forward
             /\ After(o).slot = h[o].slot
             /\ After(o).marked <=> (h[o].marked /\ h[o].gen # "survivor")
             /\ After(o).finalized = h[o].finalized
             /\ After(o).dirty = h[o].dirty
             /\ h[o].gen = "free" => After(o) = Blank
  <2>1. h[o] \in Objects /\ Flag(o) \in BOOLEAN
    BY <1>1, HeapsAt
  <2>2. ASSUME h[o].gen = "free" PROVE h[o] = Blank /\ ~ Flag(o)
    <3>1. h[o] = Blank
      BY <1>1, <2>2 DEF Shape
    <3> QED
      BY <3>1 DEF Blank
  <2> HIDE DEF Flag
  <2>3. /\ After(o) \in Objects
        /\ After(o).gen = h[o].gen /\ After(o).forward = h[o].forward
        /\ After(o).slot = h[o].slot
        /\ h[o].gen = "free" => After(o) = Blank
    BY <2>1, <2>2, FlagFacts
  <2>4. /\ After(o).marked = Flag(o)
        /\ After(o).dirty = h[o].dirty /\ After(o).finalized = h[o].finalized
    BY <2>1, FlagIs
  <2> QED
    BY <2>3, <2>4 DEF Flag
<1> HIDE DEF h, After
<1>5. k \in Heaps /\ \A o \in Object : k[o] = After(o)
  BY <1>4 DEF Heaps
<1> HIDE DEF k
<1>6. n \in Memories /\ Touched(h, n.heap)
  BY <1>1, <1>2, <1>4, <1>5, MemoryFacts DEF Memories, Touched
<1>7. /\ \A r \in Root : n.root[r] \in {m.root[r], Resolve(h, m.root[r])}
      /\ n.remset \subseteq In(h, Tenured)
      /\ n.queue \subseteq In(h, Tenured) \cap Finalizable
  BY <1>2 DEF Sound, h
<1>8. \A o \in n.queue : n.heap[o].finalized
  BY <1>2, <1>4, <1>5, <1>1, MemoryFacts DEF Sound, h
<1>9. \A o \in Object : n.heap[o].dirty <=> o \in n.remset
  BY <1>1, <1>2, <1>4, <1>5
<1>10. /\ Sound(n) /\ SameView(m, n)
       /\ \A g : In(n.heap, g) = In(m.heap, g)
       /\ \A w \in Value : Resolve(n.heap, w) = Resolve(m.heap, w)
  BY <1>6, <1>7, <1>8, <1>9, MarkingKeeps DEF h
<1> QED
  BY <1>2, <1>4, <1>5, <1>10 DEF h

-----------------------------------------------------------------------------
(* The end of the trace and the sweep.                                      *)

ReadyToSweep(m) ==
  /\ \A o \in Reach(m.heap, m.root) \cap In(m.heap, Tenured) : m.heap[o].marked
  /\ \A o \in m.remset \cup m.queue : m.heap[o].marked
  /\ \A o \in In(m.heap, Tenured) \cap Finalizable :
       ~ m.heap[o].marked => m.heap[o].finalized

LEMMA SlotYoung ==
  ASSUME NEW m, Sound(m), NEW o \in Object
  PROVE  m.heap[o].slot \in In(m.heap, Young) <=> Slot(m.heap, o) \in In(m.heap, Young)
<1> DEFINE h == m.heap
<1>1. h \in Heaps /\ Chains(h) /\ Shape(h)
  BY MemoryFacts DEF Sound
<1> HIDE DEF h
<1>2. h[o].slot \in Value
  BY <1>1, HeapsAt
<1>3. h[o].slot \in In(h, Young) <=> Slot(h, o) \in In(h, Young)
  BY <1>1, <1>2, ResolveShape DEF Slot
<1> QED
  BY <1>3 DEF h

\* D is what the trace has found: it is closed, and so holds what is reachable
\* once the roots have been marked.
LEMMA RemarkFacts ==
  ASSUME HeapAssumption, NEW m, Sound(m), Remembered(m, {}), NEW D,
         \A o \in D : Slot(m.heap, o) \in Object => Slot(m.heap, o) \in D,
         \A o \in D \cap In(m.heap, Tenured) : m.heap[o].marked,
         \A o \in Object : m.heap[o].marked => Resolve(m.heap, o) \in D,
         m.queue \subseteq D,
         NEW n, n = Remark(m, {})
  PROVE  /\ Sound(n) /\ Remembered(n, {}) /\ ReadyToSweep(n) /\ SameView(m, n)
         /\ \A g : In(n.heap, g) = In(m.heap, g)
         /\ \A o \in n.queue \ m.queue :
              o \notin Reach(m.heap, m.root) /\ ~ m.heap[o].finalized
         /\ m.queue \subseteq n.queue
         /\ \A o \in Object : m.heap[o].finalized => n.heap[o].finalized
         /\ \A o \in In(m.heap, Tenured) \cap Finalizable :
              ~ n.heap[o].marked => m.heap[o].finalized
<1> DEFINE a == MarkRoots(m, {})
           b == FilterRemset(a)
           c == Resurrect(b)
<1> DEFINE h == m.heap
           R == Reach(h, m.root)
<1>1. n = ClearSurvivors(c)
  BY DEF Remark
<1>2. /\ Sound(a) /\ SameView(m, a)
      /\ a.remset = m.remset /\ a.queue = m.queue
      /\ \A g : In(a.heap, g) = In(h, g)
      /\ \A w \in Value : Resolve(a.heap, w) = Resolve(h, w)
      /\ \A r \in Root : Resolve(h, m.root[r]) \in Object => a.heap[Resolve(h, m.root[r])].marked
      /\ \A o \in Object :
           /\ a.heap[o].finalized = h[o].finalized
           /\ h[o].marked => a.heap[o].marked
           /\ a.heap[o].marked /\ Slot(h, o) \in Object
                => h[o].marked \/ a.heap[Slot(h, o)].marked
  <2>1. {} \in SUBSET m.queue
    OBVIOUS
  <2> HIDE DEF a
  <2>2. a = MarkRoots(m, {})
    BY DEF a
  <2> QED
    BY <2>1, <2>2, MarkRootsFacts
<1> HIDE DEF a
<1>3. /\ Sound(b) /\ SameView(a, b)
      /\ b.remset = {o \in a.remset : a.heap[o].marked} /\ b.queue = a.queue
      /\ \A g : In(b.heap, g) = In(a.heap, g)
      /\ \A w \in Value : Resolve(b.heap, w) = Resolve(a.heap, w)
      /\ \A o \in Object : /\ b.heap[o].marked = a.heap[o].marked
                           /\ b.heap[o].finalized = a.heap[o].finalized
  BY <1>2, FilterRemsetFacts
<1> HIDE DEF b
<1>4. /\ Sound(c) /\ SameView(b, c)
      /\ c.remset = b.remset /\ c.queue = b.queue \cup Doomed(b.heap)
      /\ \A g : In(c.heap, g) = In(b.heap, g)
      /\ \A w \in Value : Resolve(c.heap, w) = Resolve(b.heap, w)
      /\ \A o \in Object :
           /\ b.heap[o].marked => c.heap[o].marked
           /\ o \in Doomed(b.heap) => c.heap[o].marked
           /\ c.heap[o].finalized <=> (b.heap[o].finalized \/ o \in Doomed(b.heap))
  BY <1>3, ResurrectFacts
<1> HIDE DEF c
<1>5. /\ Sound(n) /\ SameView(c, n)
      /\ n.remset = c.remset /\ n.queue = c.queue
      /\ \A g : In(n.heap, g) = In(c.heap, g)
      /\ \A w \in Value : Resolve(n.heap, w) = Resolve(c.heap, w)
      /\ \A o \in Object :
           /\ n.heap[o].marked <=> (c.heap[o].marked /\ c.heap[o].gen # "survivor")
           /\ n.heap[o].finalized = c.heap[o].finalized
  BY <1>1, <1>4, ClearSurvivorsFacts
<1>6. /\ SameView(m, n) /\ Reach(n.heap, n.root) = R
      /\ \A g : In(n.heap, g) = In(h, g)
  BY <1>2, <1>3, <1>4, <1>5 DEF SameView
<1>7. /\ h \in Heaps /\ Chains(h) /\ \A r \in Root : m.root[r] \in Value
      /\ R \subseteq Object
  BY MemoryFacts, ReachFacts DEF Sound
<1>8. \A o \in R \cap In(h, Tenured) : a.heap[o].marked
  <2> DEFINE C == {o \in Object : ~ Forwards(h, o) /\ (a.heap[o].marked \/ o \in D)}
  <2>1. ASSUME NEW r \in Root, Resolve(h, m.root[r]) \in Object
        PROVE  Resolve(h, m.root[r]) \in C
    <3>1. ~ Forwards(h, Resolve(h, m.root[r]))
      BY <1>7, ResolveFacts
    <3> QED
      BY <1>2, <2>1, <3>1
  <2>2. ASSUME NEW o \in C, Slot(h, o) \in Object PROVE Slot(h, o) \in C
    <3>1. o \in Object /\ ~ Forwards(h, o) /\ o \in Value
      BY DEF Value
    <3>2. ~ Forwards(h, Slot(h, o))
      BY <1>7, <3>1, SlotFacts
    <3>3. Resolve(h, o) = o
      BY <1>7, <3>1, ResolveFacts
    <3>4. CASE o \in D
      BY <2>2, <3>2, <3>4
    <3>5. CASE o \notin D
      <4>1. ~ h[o].marked /\ a.heap[o].marked
        BY <3>1, <3>3, <3>5
      <4> QED
        BY <1>2, <2>2, <3>1, <3>2, <4>1
    <3> QED
      BY <3>4, <3>5
  <2> HIDE DEF C
  <2>3. R \subseteq C
    BY <2>1, <2>2, ReachLeast
  <2> QED
    BY <1>2, <1>7, <2>3 DEF C
<1>9. ReadyToSweep(n)
  <2>1. \A o \in In(h, Tenured) : o \in Object /\ c.heap[o].gen # "survivor"
    <3>1. \A o \in In(c.heap, Tenured) : o \in Object /\ c.heap[o].gen # "survivor"
      BY DEF In, Tenured
    <3> QED
      BY <1>2, <1>3, <1>4, <3>1
  <2>2. \A o \in In(h, Tenured) : a.heap[o].marked => n.heap[o].marked
    BY <1>3, <1>4, <1>5, <2>1
  <2>3. \A o \in R \cap In(h, Tenured) : n.heap[o].marked
    BY <1>8, <2>2
  <2>4. \A o \in n.remset : n.heap[o].marked
    <3>1. \A o \in n.remset : o \in In(h, Tenured) /\ a.heap[o].marked
      BY <1>2, <1>3, <1>4, <1>5 DEF Sound
    <3> QED
      BY <2>2, <3>1
  <2>5. \A o \in n.queue : n.heap[o].marked
    <3>1. ASSUME NEW o \in m.queue PROVE n.heap[o].marked
      <4>1. o \in In(h, Tenured) /\ h[o].marked
        BY DEF Sound
      <4> QED
        BY <1>2, <2>1, <2>2, <4>1
    <3>2. ASSUME NEW o \in Doomed(b.heap) PROVE n.heap[o].marked
      <4>1. o \in In(b.heap, Tenured)
        BY DEF Doomed
      <4>2. o \in In(h, Tenured)
        BY <1>2, <1>3, <4>1
      <4> QED
        BY <1>4, <1>5, <2>1, <4>2
    <3> QED
      BY <1>2, <1>3, <1>4, <1>5, <3>1, <3>2
  <2>6. ASSUME NEW o \in In(h, Tenured) \cap Finalizable, ~ n.heap[o].marked
        PROVE  n.heap[o].finalized
    <3>1. o \in Object /\ c.heap[o].gen # "survivor" /\ ~ c.heap[o].marked
      BY <1>5, <2>1, <2>6
    <3>2. o \in In(b.heap, Tenured) /\ o \notin Doomed(b.heap) /\ ~ b.heap[o].marked
      BY <1>2, <1>3, <1>4, <3>1
    <3>3. b.heap[o].finalized
      BY <3>2 DEF Doomed
    <3> QED
      BY <1>4, <1>5, <3>1, <3>3
  <2> QED
    BY <1>6, <2>3, <2>4, <2>5, <2>6 DEF ReadyToSweep
<1>10. Remembered(n, {})
  <2> SUFFICES ASSUME NEW o \in R, n.heap[o].gen = "old",
                      n.heap[o].slot \in In(n.heap, Young)
               PROVE  o \in n.remset
    BY <1>6 DEF Remembered
  <2>1. o \in Object /\ o \in In(h, Tenured)
    <3>1. o \in In(n.heap, Tenured)
      BY <1>7 DEF In, Tenured
    <3> QED
      BY <1>6, <1>7, <3>1
  <2>2. h[o].gen = "old"
    <3>1. o \in In(n.heap, {"old"})
      BY <2>1 DEF In
    <3>2. o \in In(h, {"old"})
      BY <1>6, <3>1
    <3> QED
      BY <3>2 DEF In
  <2>3. Slot(n.heap, o) \in In(n.heap, Young)
    BY <1>5, <2>1, SlotYoung
  <2>4. Slot(h, o) \in In(h, Young)
    BY <1>6, <2>1, <2>3 DEF SameView
  <2>5. h[o].slot \in In(h, Young)
    BY <2>1, <2>4, SlotYoung
  <2>6. o \in m.remset
    BY <2>2, <2>5 DEF Remembered
  <2> QED
    BY <1>2, <1>3, <1>4, <1>5, <1>8, <2>1, <2>6
<1>11. ASSUME NEW o \in n.queue \ m.queue PROVE o \notin R /\ ~ h[o].finalized
  <2>1. o \in Doomed(b.heap)
    BY <1>2, <1>3, <1>4, <1>5
  <2>2. o \in In(b.heap, Tenured) /\ ~ b.heap[o].marked /\ ~ b.heap[o].finalized
    BY <2>1 DEF Doomed
  <2>3. o \in In(h, Tenured) /\ o \in Object
    BY <1>2, <1>3, <2>2 DEF In
  <2> QED
    BY <1>2, <1>3, <1>8, <2>2, <2>3
<1>12. m.queue \subseteq n.queue
  BY <1>2, <1>3, <1>4, <1>5
<1>13. \A o \in Object : h[o].finalized => n.heap[o].finalized
  BY <1>2, <1>3, <1>4, <1>5
<1>14. ASSUME NEW o \in In(h, Tenured) \cap Finalizable, ~ n.heap[o].marked
       PROVE  h[o].finalized
  <2>1. o \in Object /\ o \in In(c.heap, Tenured)
    BY <1>2, <1>3, <1>4 DEF In
  <2>2. c.heap[o].gen # "survivor"
    BY <2>1 DEF In, Tenured
  <2>3. o \in In(b.heap, Tenured) /\ o \notin Doomed(b.heap) /\ ~ b.heap[o].marked
    BY <1>2, <1>3, <1>4, <1>5, <1>14, <2>1, <2>2
  <2>4. b.heap[o].finalized
    BY <2>3, <1>14 DEF Doomed
  <2> QED
    BY <1>2, <1>3, <2>1, <2>4
<1> QED
  BY <1>5, <1>6, <1>9, <1>10, <1>11, <1>12, <1>13, <1>14

\* What the sweep of the heap h reclaims.
Dead(h) == {o \in In(h, Tenured) : ~ h[o].marked}

LEMMA SweepIs ==
  ASSUME NEW m \in Memories, NEW n, n = Sweep(m)
  PROVE  /\ n = [heap |-> n.heap, root |-> n.root, remset |-> m.remset, queue |-> m.queue]
         /\ n.heap = [o \in Object |-> n.heap[o]]
         /\ n.root = [r \in Root |-> n.root[r]]
         /\ \A r \in Root : n.root[r] = Left(m.root[r], Dead(m.heap))
         /\ \A o \in Object : o \in Dead(m.heap) => n.heap[o] = Blank
         /\ \A o \in Object : o \notin Dead(m.heap) =>
              /\ n.heap[o] = [gen |-> m.heap[o].gen,
                              slot |-> Left(m.heap[o].slot, Dead(m.heap)),
                              age |-> m.heap[o].age,
                              marked |-> n.heap[o].marked,
                              dirty |-> m.heap[o].dirty,
                              finalized |-> m.heap[o].finalized,
                              forward |-> Left(m.heap[o].forward, Dead(m.heap))]
              /\ n.heap[o].marked \in BOOLEAN
              /\ n.heap[o].marked => m.heap[o].marked
<1> DEFINE dead == Dead(m.heap)
           After(o) ==
             IF o \in dead THEN Blank
             ELSE [m.heap[o] EXCEPT !.slot = Left(m.heap[o].slot, dead),
                                    !.forward = Left(m.heap[o].forward, dead),
                                    !.marked = m.heap[o].marked /\ m.heap[o].gen \notin Tenured]
           k == [o \in Object |-> After(o)]
           ru == [r \in Root |-> Left(m.root[r], dead)]
<1>1. n = [m EXCEPT !.heap = k, !.root = ru]
  BY DEF Sweep, Dead
<1> HIDE DEF k, ru
<1>2. n = [heap |-> k, root |-> ru, remset |-> m.remset, queue |-> m.queue]
  BY <1>1, ExceptHeapRoot, Zenon
<1>3. n.heap = k /\ n.root = ru /\ n.remset = m.remset /\ n.queue = m.queue
  BY <1>2
<1> HIDE DEF After
<1>4. k = [o \in Object |-> k[o]] /\ \A o \in Object : k[o] = After(o)
  BY DEF k
<1>5. /\ ru = [r \in Root |-> ru[r]]
      /\ \A r \in Root : ru[r] = Left(m.root[r], dead)
  BY DEF ru
<1>6. ASSUME NEW o \in Object, o \notin dead
      PROVE  /\ k[o] = [gen |-> m.heap[o].gen, slot |-> Left(m.heap[o].slot, dead),
                         age |-> m.heap[o].age, marked |-> k[o].marked,
                         dirty |-> m.heap[o].dirty, finalized |-> m.heap[o].finalized,
                         forward |-> Left(m.heap[o].forward, dead)]
             /\ k[o].marked \in BOOLEAN
             /\ k[o].marked => m.heap[o].marked
  <2> DEFINE s == Left(m.heap[o].slot, dead)
             f == Left(m.heap[o].forward, dead)
             b == m.heap[o].marked /\ m.heap[o].gen \notin Tenured
             z == m.heap[o]
             x == [z EXCEPT !.slot = s]
             y == [x EXCEPT !.forward = f]
  <2>1. k[o] = [y EXCEPT !.marked = b]
    BY <1>4, <1>6, Zenon DEF After
  <2>2. b \in BOOLEAN /\ (b => z.marked) /\ z \in Objects
    BY MemoryFacts, HeapsAt
  <2> HIDE DEF z, s, f, b, x, y
  <2>3. x = [gen |-> z.gen, slot |-> s, age |-> z.age, marked |-> z.marked,
             dirty |-> z.dirty, finalized |-> z.finalized, forward |-> z.forward]
    BY <2>2 DEF x, Objects
  <2>4. y = [gen |-> z.gen, slot |-> s, age |-> z.age, marked |-> z.marked,
             dirty |-> z.dirty, finalized |-> z.finalized, forward |-> f]
    BY <2>3 DEF y
  <2>5. k[o] = [gen |-> z.gen, slot |-> s, age |-> z.age, marked |-> b,
                dirty |-> z.dirty, finalized |-> z.finalized, forward |-> f]
    BY <2>1, <2>4
  <2>6. k[o].marked = b
    BY <2>5
  <2> QED
    BY <2>2, <2>5, <2>6 DEF z, s, f
<1> QED
  BY <1>2, <1>3, <1>4, <1>5, <1>6 DEF After

LEMMA SweepFacts ==
  ASSUME HeapAssumption, NEW m, Sound(m), ReadyToSweep(m), NEW n, n = Sweep(m)
  PROVE  /\ Sound(n)
         /\ \A busy : Remembered(m, busy) => Remembered(n, busy)
         /\ n.remset = m.remset /\ n.queue = m.queue /\ n.root = m.root
         /\ Reach(n.heap, n.root) = Reach(m.heap, m.root)
         /\ \A w \in Value : Resolve(n.heap, w) = Resolve(m.heap, w)
         /\ \A o \in Reach(m.heap, m.root) : Slot(n.heap, o) = Slot(m.heap, o)
         /\ \A o \in Object : \/ o \in Dead(m.heap) /\ n.heap[o] = Blank
                              \/ /\ o \notin Dead(m.heap)
                                 /\ n.heap[o].gen = m.heap[o].gen
                                 /\ n.heap[o].finalized = m.heap[o].finalized
                                 /\ n.heap[o].marked => m.heap[o].marked
<1> DEFINE h == m.heap
           k == n.heap
           dead == Dead(h)
           R == Reach(h, m.root)
<1>1. /\ m \in Memories /\ h \in Heaps /\ Chains(h) /\ Shape(h)
      /\ \A r \in Root : m.root[r] \in Value
      /\ R \subseteq Object
  BY MemoryFacts, ReachFacts DEF Sound
<1>2. /\ n = [heap |-> k, root |-> n.root, remset |-> m.remset, queue |-> m.queue]
      /\ k = [o \in Object |-> k[o]]
      /\ n.root = [r \in Root |-> n.root[r]]
      /\ \A r \in Root : n.root[r] = Left(m.root[r], dead)
      /\ \A o \in Object : o \in dead => k[o] = Blank
      /\ \A o \in Object : o \notin dead =>
           /\ k[o] = [gen |-> h[o].gen, slot |-> Left(h[o].slot, dead),
                      age |-> h[o].age, marked |-> k[o].marked, dirty |-> h[o].dirty,
                      finalized |-> h[o].finalized, forward |-> Left(h[o].forward, dead)]
           /\ k[o].marked \in BOOLEAN
           /\ k[o].marked => h[o].marked
  BY <1>1, SweepIs
<1>3. \A o \in Object : o \in dead <=> h[o].gen \in Tenured /\ ~ h[o].marked
  BY DEF Dead, In
<1>4. dead \subseteq Object /\ \A o \in R : o \notin dead
  BY <1>1 DEF ReadyToSweep, Dead, In
<1>5. \A o \in Object : ~ Forwards(h, o) \/ o \notin dead
  BY <1>1, <1>3 DEF Shape, Forwards, Young, Tenured
<1> HIDE DEF h, dead, R
\* The pointers that lead to what is swept are those of the dead.
<1>6. \A o \in Object : h[o].forward \notin dead
  <2> SUFFICES ASSUME NEW o \in Object, h[o].forward \in dead PROVE FALSE
    OBVIOUS
  <2>1. h[o].forward # Nil
    BY <1>4 DEF HeapAssumption
  <2>2. h[o].forward \in In(h, Young)
    BY <1>1, <2>1 DEF Shape
  <2> QED
    BY <1>3, <1>4, <2>2 DEF In, Young, Tenured
<1>7. ASSUME NEW r \in Root PROVE m.root[r] \notin dead
  <2> SUFFICES ASSUME m.root[r] \in dead PROVE FALSE
    OBVIOUS
  <2>1. m.root[r] \in Object /\ ~ Forwards(h, m.root[r])
    BY <1>4, <1>5
  <2>2. Resolve(h, m.root[r]) = m.root[r]
    BY <1>1, <2>1, ResolveFacts
  <2>3. m.root[r] \in R
    BY <2>1, <2>2, ReachFacts DEF R, h
  <2> QED
    BY <1>4, <2>3
<1>8. ASSUME NEW o \in R PROVE h[o].slot \notin dead
  <2> SUFFICES ASSUME h[o].slot \in dead PROVE FALSE
    OBVIOUS
  <2>1. h[o].slot \in Object /\ ~ Forwards(h, h[o].slot) /\ o \in Object
    BY <1>1, <1>4, <1>5
  <2>2. Slot(h, o) = h[o].slot
    BY <1>1, <2>1, HeapsAt, ResolveFacts DEF Slot
  <2>3. h[o].slot \in R
    BY <2>1, <2>2, ReachFacts DEF R, h
  <2> QED
    BY <1>4, <2>3
<1>9. n.root = m.root
  <2>1. \A r \in Root : n.root[r] = m.root[r]
    BY <1>2, <1>7 DEF Left
  <2>2. m.root \in [Root -> Value]
    BY <1>1, MemoryFacts
  <2> QED
    BY <1>2, <2>1, <2>2
<1>10. ASSUME NEW o \in Object
       PROVE  /\ k[o] \in Objects
              /\ k[o].forward = h[o].forward
              /\ o \in dead => k[o] = Blank
              /\ o \notin dead => /\ k[o].gen = h[o].gen
                                  /\ k[o].slot = Left(h[o].slot, dead)
                                  /\ k[o].dirty = h[o].dirty
                                  /\ k[o].finalized = h[o].finalized
                                  /\ k[o].marked => h[o].marked
                                  /\ h[o] = Blank => k[o] = Blank
  <2>1. h[o] \in Objects /\ h[o].slot \in Value /\ h[o].forward \in Value
    BY <1>1, HeapsAt
  <2>2. CASE o \in dead
    <3>1. k[o] = Blank
      BY <1>2, <2>2
    <3>2. h[o].forward = Nil
      BY <1>5, <2>2 DEF Forwards
    <3>3. Blank \in Objects /\ Blank.forward = Nil
      BY DEF Blank, Objects, Value
    <3> QED
      BY <2>2, <3>1, <3>2, <3>3
  <2>3. CASE o \notin dead
    <3> DEFINE s == Left(h[o].slot, dead)
               f == Left(h[o].forward, dead)
    <3>1. /\ k[o] = [gen |-> h[o].gen, slot |-> s, age |-> h[o].age,
                     marked |-> k[o].marked, dirty |-> h[o].dirty,
                     finalized |-> h[o].finalized, forward |-> f]
          /\ k[o].marked \in BOOLEAN
          /\ k[o].marked => h[o].marked
      BY <1>2, <2>3
    <3>2. s \in Value /\ f = h[o].forward
      BY <1>6, <2>1 DEF Left, Value
    <3>3. h[o] = Blank => s = Nil
      BY <1>4 DEF Blank, Left, HeapAssumption
    <3> HIDE DEF s, f
    <3>5. k[o] \in Objects
      BY <2>1, <3>1, <3>2 DEF Objects
    <3>6. ASSUME h[o] = Blank PROVE k[o] = Blank
      <4>1. s = Nil /\ f = Nil /\ k[o].marked = FALSE
        BY <3>1, <3>2, <3>3, <3>6 DEF Blank
      <4>2. h[o].gen = "free" /\ h[o].age = 0 /\ h[o].dirty = FALSE /\ h[o].finalized = FALSE
        BY <3>6 DEF Blank
      <4> QED
        BY <3>1, <4>1, <4>2 DEF Blank
    <3>7. /\ k[o].gen = h[o].gen /\ k[o].slot = s /\ k[o].forward = f
          /\ k[o].dirty = h[o].dirty /\ k[o].finalized = h[o].finalized
      BY <3>1
    <3> QED
      BY <2>3, <3>1, <3>2, <3>5, <3>6, <3>7 DEF s
  <2> QED
    BY <2>2, <2>3
<1>11. k \in Heaps
  BY <1>2, <1>10 DEF Heaps
<1>12. n \in Memories /\ n.remset = m.remset /\ n.queue = m.queue
  BY <1>1, <1>2, <1>9, <1>11, MemoryFacts DEF Memories
<1>13. Chains(k) /\ \A w \in Value : Resolve(k, w) = Resolve(h, w)
  BY <1>1, <1>10, SameForwards
<1>14. ASSUME NEW o \in R PROVE k[o].slot = h[o].slot /\ Slot(k, o) = Slot(h, o)
  <2>1. o \in Object /\ o \notin dead /\ h[o].slot \in Value
    BY <1>1, <1>4, HeapsAt
  <2>2. k[o].slot = h[o].slot
    BY <1>8, <1>10, <2>1 DEF Left
  <2> QED
    BY <1>13, <2>1, <2>2 DEF Slot
<1> HIDE DEF k
<1>15. Reach(k, n.root) = R
  BY <1>1, <1>9, <1>13, <1>14, SameReach DEF R, h
<1>16. \A g : g \in {Young, Tenured} => \A o \in In(h, g) : o \in dead \/ o \in In(k, g)
  BY <1>10 DEF In
<1>17. In(k, Young) = In(h, Young)
  <2>1. \A o \in Object : k[o].gen \in Young <=> h[o].gen \in Young
    <3> TAKE o \in Object
    <3>1. CASE o \in dead
      BY <1>3, <1>10, <3>1 DEF Blank, Young, Tenured
    <3>2. CASE o \notin dead
      BY <1>10, <3>2
    <3> QED
      BY <3>1, <3>2
  <2> QED
    BY <2>1 DEF In
<1>18. \A v : Used(h, v) /\ v \notin dead => Used(k, v)
  BY <1>10 DEF Used
<1>19. Shape(k)
  <2>1. ASSUME NEW o \in Object, k[o].gen = "free" PROVE k[o] = Blank
    BY <1>1, <1>10, <2>1 DEF Shape
  <2>2. ASSUME NEW o \in Object PROVE Used(k, k[o].slot)
    <3>1. CASE o \in dead
      <4>1. k[o].slot = Nil
        BY <1>10, <3>1 DEF Blank
      <4> QED
        BY <4>1 DEF Used, HeapAssumption
    <3>2. CASE o \notin dead
      <4>1. k[o].slot = Left(h[o].slot, dead)
        BY <1>10, <3>2
      <4>2. Used(h, h[o].slot)
        BY <1>1 DEF Shape
      <4>3. CASE h[o].slot \in dead
        BY <4>1, <4>3 DEF Left, Used, HeapAssumption
      <4>4. CASE h[o].slot \notin dead
        <5>1. k[o].slot = h[o].slot
          BY <4>1, <4>4 DEF Left
        <5> QED
          BY <1>18, <4>2, <4>4, <5>1
      <4> QED
        BY <4>3, <4>4
    <3> QED
      BY <3>1, <3>2
  <2>3. ASSUME NEW o \in Object, k[o].forward # Nil
        PROVE  /\ k[o].gen \in Young
               /\ k[o].forward \in In(k, Young)
               /\ Resolve(k, o) \in In(k, Young)
    <3>1. k[o].forward = h[o].forward /\ o \in Value
      BY <1>10 DEF Value
    <3>2. /\ h[o].gen \in Young
          /\ h[o].forward \in In(h, Young)
          /\ Resolve(h, o) \in In(h, Young)
      BY <1>1, <2>3, <3>1 DEF Shape
    <3>3. k[o].gen \in Young
      BY <1>17, <3>2 DEF In
    <3> QED
      BY <1>13, <1>17, <3>1, <3>2, <3>3
  <2> QED
    BY <2>1, <2>2, <2>3 DEF Shape
<1>20. Sound(n)
  <2>1. \A r \in Root : Used(k, n.root[r])
    BY <1>7, <1>9, <1>18 DEF Sound, h
  <2>2. n.remset \cup n.queue \subseteq Object \ dead
    <3>1. m.remset \cup m.queue \subseteq Object
      BY <1>1, MemoryFacts
    <3>2. \A o \in m.remset \cup m.queue : h[o].marked
      BY DEF ReadyToSweep, h
    <3> QED
      BY <1>3, <1>12, <3>1, <3>2
  <2>3. /\ m.remset \subseteq In(h, Tenured)
        /\ m.queue \subseteq In(h, Tenured) \cap Finalizable
        /\ \A o \in m.queue : h[o].finalized
        /\ \A o \in Object : h[o].dirty <=> o \in m.remset
        /\ \A r \in Root : Resolve(h, m.root[r]) # Lost
        /\ \A o \in R : Slot(h, o) # Lost
    BY DEF Sound, h, R
  <2>4. /\ n.remset \subseteq In(k, Tenured)
        /\ n.queue \subseteq In(k, Tenured) \cap Finalizable
    BY <1>12, <1>16, <2>2, <2>3
  <2>5. \A o \in n.queue : k[o].finalized
    BY <1>10, <1>12, <2>2, <2>3
  <2>6. ASSUME NEW o \in Object PROVE k[o].dirty <=> o \in n.remset
    <3>1. CASE o \in dead
      <4>1. k[o].dirty = FALSE /\ o \notin n.remset
        BY <1>10, <2>2, <3>1 DEF Blank
      <4> QED
        BY <4>1
    <3>2. CASE o \notin dead
      BY <1>10, <1>12, <2>3, <3>2
    <3> QED
      BY <3>1, <3>2
  <2>7. /\ \A r \in Root : Resolve(k, n.root[r]) # Lost
        /\ \A o \in Reach(k, n.root) : Slot(k, o) # Lost
    BY <1>1, <1>9, <1>13, <1>14, <1>15, <2>3
  <2> QED
    BY <1>12, <1>13, <1>19, <2>1, <2>4, <2>5, <2>6, <2>7 DEF Sound, k
<1>21. ASSUME NEW busy, Remembered(m, busy) PROVE Remembered(n, busy)
  <2> SUFFICES ASSUME NEW o \in R \ busy, k[o].gen = "old", k[o].slot \in In(k, Young)
               PROVE  o \in n.remset
    BY <1>15 DEF Remembered, k
  <2>1. o \in Object /\ o \notin dead
    BY <1>1, <1>4
  <2>2. h[o].gen = "old" /\ h[o].slot \in In(h, Young)
    BY <1>10, <1>14, <1>17, <2>1
  <2> QED
    BY <1>12, <1>21, <2>2 DEF Remembered, h, R
<1> QED
  BY <1>9, <1>10, <1>12, <1>13, <1>14, <1>15, <1>20, <1>21 DEF h, k, R, dead

-----------------------------------------------------------------------------
(* The minor collection.                                                    *)

Promoted(m, stay) == {o \in Copied(m) : Destination(m.heap, o, stay) = "old"}

\* A slot that a remembered or promoted object must be remembered for.
Stays(m, stay, o) == Slot(m.heap, o) \in Copied(m) \ Promoted(m, stay)

\* The objects, the roots and the remembered objects that it leaves.
MinorLeaves(m, stay, n) ==
  /\ n = [heap |-> n.heap, root |-> n.root, remset |-> n.remset, queue |-> m.queue]
  /\ n.heap = [o \in Object |-> n.heap[o]]
  /\ n.root = [r \in Root |-> n.root[r]]
  /\ \A r \in Root : n.root[r] = Resolve(m.heap, m.root[r])
  /\ n.remset = {o \in m.remset \cup Promoted(m, stay) : Stays(m, stay, o)}
  /\ \A o \in Object : o \in Copied(m) =>
       /\ n.heap[o] = [gen |-> Destination(m.heap, o, stay),
                       slot |-> Slot(m.heap, o),
                       age |-> IF o \in Promoted(m, stay) THEN 0
                               ELSE m.heap[o].age + 1,
                       marked |-> m.heap[o].marked,
                       dirty |-> n.heap[o].dirty,
                       finalized |-> m.heap[o].finalized,
                       forward |-> m.heap[o].forward]
       /\ n.heap[o].dirty \in BOOLEAN
       /\ n.heap[o].dirty <=> o \in Promoted(m, stay) /\ Stays(m, stay, o)
  /\ \A o \in Object : o \notin Copied(m) /\ m.heap[o].gen \in Young =>
       n.heap[o] = Blank
  /\ \A o \in Object : o \notin Copied(m) /\ m.heap[o].gen \notin Young =>
       /\ n.heap[o] = [gen |-> m.heap[o].gen,
                       slot |-> IF o \in Scanned(m) THEN Slot(m.heap, o)
                                ELSE Left(m.heap[o].slot, In(m.heap, Young)),
                       age |-> m.heap[o].age,
                       marked |-> m.heap[o].marked,
                       dirty |-> n.heap[o].dirty,
                       finalized |-> m.heap[o].finalized,
                       forward |-> Left(m.heap[o].forward, In(m.heap, Young))]
       /\ n.heap[o].dirty \in BOOLEAN
       /\ n.heap[o].dirty <=> IF o \in m.remset THEN Stays(m, stay, o)
                              ELSE m.heap[o].dirty

LEMMA MinorIs ==
  ASSUME NEW m \in Memories, NEW stay, NEW n, n = Minor(m, stay)
  PROVE  MinorLeaves(m, stay, n)
<1> DEFINE h == m.heap
           copied == Copied(m)
           promoted == Promoted(m, stay)
           young == In(h, Young)
           After(o) ==
             IF o \in copied
             THEN [h[o] EXCEPT !.gen = Destination(h, o, stay), !.slot = Slot(h, o),
                               !.age = IF o \in promoted THEN 0 ELSE h[o].age + 1,
                               !.dirty = o \in promoted /\ Stays(m, stay, o)]
             ELSE IF h[o].gen \in Young THEN Blank
             ELSE [h[o] EXCEPT !.slot = IF o \in Scanned(m) THEN Slot(h, o)
                                        ELSE Left(h[o].slot, young),
                               !.forward = Left(h[o].forward, young),
                               !.dirty = IF o \in m.remset THEN Stays(m, stay, o)
                                         ELSE h[o].dirty]
           k == [o \in Object |-> After(o)]
           ru == [r \in Root |-> Resolve(h, m.root[r])]
           rs == {o \in m.remset \cup promoted : Stays(m, stay, o)}
<1>1. n = [m EXCEPT !.heap = k, !.root = ru, !.remset = rs]
  BY DEF Minor, Promoted, Stays
<1> HIDE DEF k, ru, rs
<1>2. n = [heap |-> k, root |-> ru, remset |-> rs, queue |-> m.queue]
  BY <1>1, ExceptHeapRootRemset, Zenon
<1>3. n.heap = k /\ n.root = ru /\ n.remset = rs /\ n.queue = m.queue
  BY <1>2
<1> HIDE DEF After
<1>4. k = [o \in Object |-> k[o]] /\ \A o \in Object : k[o] = After(o)
  BY DEF k
<1>5. ru = [r \in Root |-> ru[r]] /\ \A r \in Root : ru[r] = Resolve(h, m.root[r])
  BY DEF ru
<1>6. ASSUME NEW o \in Object, o \in copied
      PROVE  /\ k[o] = [gen |-> Destination(h, o, stay), slot |-> Slot(h, o),
                        age |-> IF o \in promoted THEN 0 ELSE h[o].age + 1,
                        marked |-> h[o].marked, dirty |-> k[o].dirty,
                        finalized |-> h[o].finalized, forward |-> h[o].forward]
             /\ k[o].dirty \in BOOLEAN
             /\ k[o].dirty <=> o \in promoted /\ Stays(m, stay, o)
  <2> DEFINE g == Destination(h, o, stay)
             s == Slot(h, o)
             a == IF o \in promoted THEN 0 ELSE h[o].age + 1
             d == o \in promoted /\ Stays(m, stay, o)
             z == h[o]
             w == [z EXCEPT !.gen = g]
             x == [w EXCEPT !.slot = s]
             y == [x EXCEPT !.age = a]
  <2>1. k[o] = [y EXCEPT !.dirty = d]
    BY <1>4, <1>6, Zenon DEF After
  <2>2. d \in BOOLEAN /\ z \in Objects
    BY MemoryFacts, HeapsAt
  <2> HIDE DEF g, s, a, d, z, w, x, y
  <2>3. w = [gen |-> g, slot |-> z.slot, age |-> z.age, marked |-> z.marked,
             dirty |-> z.dirty, finalized |-> z.finalized, forward |-> z.forward]
    BY <2>2 DEF w, Objects
  <2>4. x = [gen |-> g, slot |-> s, age |-> z.age, marked |-> z.marked,
             dirty |-> z.dirty, finalized |-> z.finalized, forward |-> z.forward]
    BY <2>3 DEF x
  <2>5. y = [gen |-> g, slot |-> s, age |-> a, marked |-> z.marked,
             dirty |-> z.dirty, finalized |-> z.finalized, forward |-> z.forward]
    BY <2>4 DEF y
  <2>6. k[o] = [gen |-> g, slot |-> s, age |-> a, marked |-> z.marked,
                dirty |-> d, finalized |-> z.finalized, forward |-> z.forward]
    BY <2>1, <2>5
  <2>7. k[o].dirty = d
    BY <2>6
  <2> QED
    BY <2>2, <2>6, <2>7 DEF z, s, a, g, d
<1>7. ASSUME NEW o \in Object, o \notin copied, h[o].gen \in Young PROVE k[o] = Blank
  BY <1>4, <1>7 DEF After
<1>8. ASSUME NEW o \in Object, o \notin copied, h[o].gen \notin Young
      PROVE  /\ k[o] = [gen |-> h[o].gen,
                        slot |-> IF o \in Scanned(m) THEN Slot(h, o)
                                 ELSE Left(h[o].slot, young),
                        age |-> h[o].age, marked |-> h[o].marked, dirty |-> k[o].dirty,
                        finalized |-> h[o].finalized,
                        forward |-> Left(h[o].forward, young)]
             /\ k[o].dirty \in BOOLEAN
             /\ k[o].dirty <=> IF o \in m.remset THEN Stays(m, stay, o) ELSE h[o].dirty
  <2> DEFINE s == IF o \in Scanned(m) THEN Slot(h, o) ELSE Left(h[o].slot, young)
             f == Left(h[o].forward, young)
             d == IF o \in m.remset THEN Stays(m, stay, o) ELSE h[o].dirty
             z == h[o]
             x == [z EXCEPT !.slot = s]
             y == [x EXCEPT !.forward = f]
  <2>1. k[o] = [y EXCEPT !.dirty = d]
    BY <1>4, <1>8, Zenon DEF After
  <2>2. z \in Objects
    BY MemoryFacts, HeapsAt
  <2>3. d \in BOOLEAN
    <3>1. Stays(m, stay, o) \in BOOLEAN
      BY DEF Stays
    <3>2. h[o].dirty \in BOOLEAN
      BY <2>2 DEF Objects
    <3> QED
      BY <3>1, <3>2, Zenon
  <2> HIDE DEF s, f, d, z, x, y
  <2>4. x = [gen |-> z.gen, slot |-> s, age |-> z.age, marked |-> z.marked,
             dirty |-> z.dirty, finalized |-> z.finalized, forward |-> z.forward]
    BY <2>2 DEF x, Objects
  <2>5. y = [gen |-> z.gen, slot |-> s, age |-> z.age, marked |-> z.marked,
             dirty |-> z.dirty, finalized |-> z.finalized, forward |-> f]
    BY <2>4 DEF y
  <2>6. k[o] = [gen |-> z.gen, slot |-> s, age |-> z.age, marked |-> z.marked,
                dirty |-> d, finalized |-> z.finalized, forward |-> f]
    BY <2>1, <2>5
  <2>7. k[o].dirty = d
    BY <2>6
  <2> QED
    BY <2>3, <2>6, <2>7 DEF z, s, f, d
<1> QED
  BY <1>2, <1>3, <1>4, <1>5, <1>6, <1>7, <1>8 DEF rs, MinorLeaves

\* What a minor collection copies: all that is young and reachable.
LEMMA CopiedFacts ==
  ASSUME HeapAssumption, NEW m, Sound(m), Remembered(m, {})
  PROVE  /\ Copied(m) \subseteq In(m.heap, Young)
         /\ \A o \in Copied(m) : ~ Forwards(m.heap, o)
         /\ \A o \in Copied(m) \cup Scanned(m) :
              Slot(m.heap, o) \in In(m.heap, Young) => Slot(m.heap, o) \in Copied(m)
         /\ \A r \in Root : Resolve(m.heap, m.root[r]) \in In(m.heap, Young)
                             => Resolve(m.heap, m.root[r]) \in Copied(m)
         /\ Reach(m.heap, m.root) \subseteq Copied(m) \cup In(m.heap, Tenured)
<1> DEFINE h == m.heap
           young == In(h, Young)
           s == {Resolve(h, m.root[r]) : r \in Root} \cup m.queue
                  \cup {Slot(h, o) : o \in Scanned(m)}
           T == Trace(h, s, young)
<1>1. /\ m \in Memories /\ h \in Heaps /\ Chains(h) /\ Shape(h)
      /\ \A r \in Root : m.root[r] \in Value
  BY MemoryFacts DEF Sound
<1>2. Copied(m) = T
  BY DEF Copied
<1>3. young \subseteq Object
  BY DEF In
<1>4. T \subseteq young /\ s \cap young \subseteq T /\ ClosedUnder(h, T, young)
  <2> HIDE DEF s, young, h
  <2> QED
    BY <1>3, TraceFacts
<1>5. Scanned(m) \subseteq Object /\ m.queue \subseteq In(h, Tenured)
  BY <1>1, MemoryFacts DEF Scanned, In, Sound
<1>6. \A o \in T : ~ Forwards(h, o)
  <2> DEFINE C == {o \in young : ~ Forwards(h, o)}
  <2>1. s \cap young \subseteq C
    <3>1. \A r \in Root : ~ Forwards(h, Resolve(h, m.root[r]))
      BY <1>1, ResolveFacts
    <3>2. \A o \in m.queue : o \notin young
      BY <1>5 DEF In, Young, Tenured
    <3>3. \A o \in Scanned(m) : ~ Forwards(h, Slot(h, o))
      BY <1>1, <1>5, SlotFacts
    <3> QED
      BY <3>1, <3>2, <3>3
  <2>2. ClosedUnder(h, C, young)
    BY <1>1, <1>3, SlotFacts DEF ClosedUnder
  <2> HIDE DEF C, s, young, h
  <2>3. T \subseteq C
    BY <2>1, <2>2, TraceLeast
  <2> QED
    BY <2>3 DEF C
<1>7. \A o \in T \cup Scanned(m) : Slot(h, o) \in young => Slot(h, o) \in T
  BY <1>4 DEF ClosedUnder
<1>8. \A r \in Root : Resolve(h, m.root[r]) \in young => Resolve(h, m.root[r]) \in T
  BY <1>4
<1> HIDE DEF s, T
<1>9. Reach(h, m.root) \subseteq T \cup In(h, Tenured)
  <2> DEFINE C == Reach(h, m.root) \cap (T \cup In(h, Tenured))
  <2>1. \A v \in Object : Used(h, v) => v \in young \/ v \in In(h, Tenured)
    <3> SUFFICES ASSUME NEW v \in Object, h[v].gen # "free"
                 PROVE  h[v].gen \in Young \cup Tenured
      BY DEF Used, In
    <3>1. h[v] \in Objects
      BY <1>1, HeapsAt
    <3> QED
      BY <3>1 DEF Objects
  <2>2. ASSUME NEW r \in Root, Resolve(h, m.root[r]) \in Object
        PROVE  Resolve(h, m.root[r]) \in C
    <3>1. Used(h, Resolve(h, m.root[r]))
      BY <1>1, ResolveShape DEF Sound
    <3> QED
      BY <1>8, <2>1, <2>2, <3>1, ReachFacts
  <2>3. ASSUME NEW o \in C, Slot(h, o) \in Object PROVE Slot(h, o) \in C
    <3>1. o \in Object /\ o \in Reach(h, m.root) /\ Slot(h, o) \in Reach(h, m.root)
      BY <2>3, ReachFacts
    <3>2. Used(h, Slot(h, o))
      BY <1>1, <3>1, HeapsAt, ResolveShape DEF Shape, Slot
    <3>3. ASSUME Slot(h, o) \in young PROVE Slot(h, o) \in T
      <4>1. CASE o \in T
        BY <1>7, <3>3, <4>1
      <4>2. CASE h[o].gen = "old"
        <5>1. h[o].slot \in young
          BY <3>1, <3>3, SlotYoung
        <5>2. o \in m.remset
          BY <3>1, <4>2, <5>1 DEF Remembered
        <5> QED
          BY <1>7, <3>3, <5>2 DEF Scanned
      <4>3. CASE h[o].gen = "los"
        <5>1. o \in Scanned(m)
          BY <3>1, <4>3 DEF Scanned, In
        <5> QED
          BY <1>7, <3>3, <5>1
      <4>4. o \in T \/ h[o].gen \in Tenured
        BY DEF In
      <4> QED
        BY <4>1, <4>2, <4>3, <4>4 DEF Tenured
    <3> QED
      BY <2>1, <2>3, <3>1, <3>2, <3>3
  <2> HIDE DEF C
  <2>4. Reach(h, m.root) \subseteq C
    BY <2>2, <2>3, ReachLeast
  <2> QED
    BY <2>4 DEF C
<1> QED
  BY <1>2, <1>4, <1>6, <1>7, <1>8, <1>9

LEMMA MinorFacts ==
  ASSUME HeapAssumption, NEW m, Sound(m), Remembered(m, {}), NEW n \in Minors(m)
  PROVE  /\ Sound(n) /\ Remembered(n, {})
         /\ Reach(n.heap, n.root) = Reach(m.heap, m.root)
         /\ \A r \in Root : Resolve(n.heap, n.root[r]) = Resolve(m.heap, m.root[r])
         /\ \A o \in Reach(m.heap, m.root) : Slot(n.heap, o) = Slot(m.heap, o)
         /\ \A o \in Object : n.heap[o].forward = Nil
         /\ \A o \in Object : n.heap[o].marked => m.heap[o].marked
         /\ n.queue = m.queue
         /\ \A o \in Object : n.heap[o].gen \in Tenured =>
              n.heap[o].finalized = m.heap[o].finalized
         /\ \A o \in In(m.heap, Tenured) : n.heap[o].gen = m.heap[o].gen
<1>1. PICK stay : n = Minor(m, stay)
  BY DEF Minors
<1> DEFINE h == m.heap
           k == n.heap
           copied == Copied(m)
           promoted == Promoted(m, stay)
           young == In(h, Young)
           scanned == Scanned(m)
           R == Reach(h, m.root)
           Dirty(o) == Stays(m, stay, o)
<1>2. /\ m \in Memories /\ h \in Heaps /\ Chains(h) /\ Shape(h)
      /\ \A r \in Root : m.root[r] \in Value
      /\ R \subseteq Object
  BY MemoryFacts, ReachFacts DEF Sound
<1>3a. MinorLeaves(m, stay, n)
  BY <1>1, <1>2, MinorIs
<1>3. /\ n = [heap |-> k, root |-> n.root, remset |-> n.remset, queue |-> m.queue]
      /\ k = [o \in Object |-> k[o]]
      /\ n.root = [r \in Root |-> n.root[r]]
      /\ \A r \in Root : n.root[r] = Resolve(h, m.root[r])
      /\ n.remset = {o \in m.remset \cup promoted : Dirty(o)}
  BY <1>3a DEF MinorLeaves
<1>4. \A o \in Object : o \in copied =>
         /\ k[o] = [gen |-> Destination(h, o, stay), slot |-> Slot(h, o),
                    age |-> IF o \in promoted THEN 0 ELSE h[o].age + 1,
                    marked |-> h[o].marked, dirty |-> k[o].dirty,
                    finalized |-> h[o].finalized, forward |-> h[o].forward]
         /\ k[o].dirty \in BOOLEAN
         /\ k[o].dirty <=> o \in promoted /\ Dirty(o)
  BY <1>3a DEF MinorLeaves
<1>5. \A o \in Object : o \notin copied /\ h[o].gen \in Young => k[o] = Blank
  BY <1>3a DEF MinorLeaves
<1>6. \A o \in Object : o \notin copied /\ h[o].gen \notin Young =>
         /\ k[o] = [gen |-> h[o].gen,
                    slot |-> IF o \in scanned THEN Slot(h, o) ELSE Left(h[o].slot, young),
                    age |-> h[o].age, marked |-> h[o].marked, dirty |-> k[o].dirty,
                    finalized |-> h[o].finalized, forward |-> Left(h[o].forward, young)]
         /\ k[o].dirty \in BOOLEAN
         /\ k[o].dirty <=> IF o \in m.remset THEN Dirty(o) ELSE h[o].dirty
  BY <1>3a DEF MinorLeaves
<1>7. /\ copied \subseteq young /\ young \subseteq Object
      /\ \A o \in copied : ~ Forwards(h, o)
      /\ \A o \in copied \cup scanned : Slot(h, o) \in young => Slot(h, o) \in copied
      /\ \A r \in Root : Resolve(h, m.root[r]) \in young => Resolve(h, m.root[r]) \in copied
      /\ R \subseteq copied \cup In(h, Tenured)
  BY CopiedFacts DEF In
<1>8. /\ scanned = m.remset \cup In(h, {"los"})
      /\ m.remset \subseteq In(h, Tenured)
      /\ m.queue \subseteq In(h, Tenured) \cap Finalizable
      /\ \A o \in m.queue : h[o].finalized
      /\ \A o \in Object : h[o].dirty <=> o \in m.remset
      /\ \A r \in Root : Used(h, m.root[r])
      /\ \A r \in Root : Resolve(h, m.root[r]) # Lost
      /\ \A o \in R : Slot(h, o) # Lost
  BY DEF Sound, Scanned
<1>9. promoted \subseteq copied /\ \A o \in copied : o \in promoted <=> Destination(h, o, stay) = "old"
  BY DEF Promoted
<1>10. \A o : Dirty(o) <=> Slot(h, o) \in copied \ promoted
  BY DEF Stays
<1>11. \A o \in Object : /\ o \in young <=> h[o].gen \in Young
                         /\ o \in In(h, Tenured) <=> h[o].gen \in Tenured
                         /\ h[o].gen \notin Young \/ h[o].gen \notin Tenured
  BY DEF In, Young, Tenured
<1>12. \A o \in R \cap In(h, Tenured) : h[o].gen = "old" /\ h[o].slot \in young => o \in m.remset
  BY DEF Remembered
<1>13. \A o \in Object : h[o].slot \in young <=> Slot(h, o) \in young
  BY SlotYoung
<1> HIDE DEF h, k, copied, promoted, young, scanned, R, Dirty
\* Where everything goes.
<1>14. ASSUME NEW o \in copied
       PROVE  /\ o \in Object /\ k[o] \in Objects
              /\ k[o].gen \in {"old", "survivor"} /\ (k[o].gen = "old" <=> o \in promoted)
              /\ k[o].slot = Slot(h, o)
              /\ k[o].forward = Nil
              /\ k[o].marked = h[o].marked /\ k[o].finalized = h[o].finalized
              /\ k[o].dirty <=> o \in promoted /\ Dirty(o)
  <2>1. o \in Object /\ h[o] \in Objects /\ Slot(h, o) \in Value
    BY <1>2, <1>7, HeapsAt, SlotFacts
  <2>2. h[o].forward = Nil
    BY <1>7, <2>1 DEF Forwards
  <2>3. /\ k[o] = [gen |-> Destination(h, o, stay), slot |-> Slot(h, o),
                   age |-> IF o \in promoted THEN 0 ELSE h[o].age + 1,
                   marked |-> h[o].marked, dirty |-> k[o].dirty,
                   finalized |-> h[o].finalized, forward |-> h[o].forward]
        /\ k[o].dirty \in BOOLEAN
        /\ k[o].dirty <=> o \in promoted /\ Dirty(o)
    BY <1>4, <2>1
  <2>4. /\ Destination(h, o, stay) \in {"old", "survivor"}
        /\ h[o].age \in 0 .. 1 /\ h[o].marked \in BOOLEAN /\ h[o].finalized \in BOOLEAN
    BY <2>1 DEF Destination, Objects
  <2>5. o \in promoted \/ h[o].age + 1 \in 0 .. 1
    <3> SUFFICES ASSUME o \notin promoted PROVE h[o].age + 1 \in 0 .. 1
      OBVIOUS
    <3>1. Destination(h, o, stay) # "old"
      BY <1>9
    <3>2. ~ (h[o].age + 1 >= 2)
      BY <3>1 DEF Destination
    <3> QED
      BY <2>4, <3>2
  <2>6. (IF o \in promoted THEN 0 ELSE h[o].age + 1) \in 0 .. 1
    BY <2>5
  <2>7. k[o] \in Objects
    BY <2>1, <2>2, <2>3, <2>4, <2>6 DEF Objects, Value, Young, Tenured
  <2>8. /\ k[o].gen = Destination(h, o, stay) /\ k[o].slot = Slot(h, o)
        /\ k[o].forward = h[o].forward /\ k[o].marked = h[o].marked
        /\ k[o].finalized = h[o].finalized
    BY <2>3
  <2> QED
    BY <1>9, <2>1, <2>2, <2>3, <2>4, <2>7, <2>8
<1>15. ASSUME NEW o \in Object, o \notin copied, h[o].gen \notin Young
       PROVE  /\ k[o] \in Objects
              /\ k[o].gen = h[o].gen
              /\ k[o].slot = IF o \in scanned THEN Slot(h, o) ELSE Left(h[o].slot, young)
              /\ k[o].forward = Nil
              /\ k[o].marked = h[o].marked /\ k[o].finalized = h[o].finalized
              /\ k[o].dirty <=> IF o \in m.remset THEN Dirty(o) ELSE h[o].dirty
              /\ h[o] = Blank => k[o] = Blank
  <2>1. h[o] \in Objects /\ Slot(h, o) \in Value /\ h[o].slot \in Value
    BY <1>2, HeapsAt, SlotFacts
  <2>2. h[o].forward = Nil
    BY <1>2, <1>15 DEF Shape
  <2>3. Left(h[o].forward, young) = Nil
    BY <1>7, <2>2 DEF Left, HeapAssumption
  <2> DEFINE s == IF o \in scanned THEN Slot(h, o) ELSE Left(h[o].slot, young)
  <2>4. /\ k[o] = [gen |-> h[o].gen, slot |-> s, age |-> h[o].age,
                   marked |-> h[o].marked, dirty |-> k[o].dirty,
                   finalized |-> h[o].finalized, forward |-> Left(h[o].forward, young)]
        /\ k[o].dirty \in BOOLEAN
        /\ k[o].dirty <=> IF o \in m.remset THEN Dirty(o) ELSE h[o].dirty
    BY <1>6, <1>15
  <2>5. s \in Value
    BY <2>1 DEF Left, Value
  <2>6. ASSUME h[o] = Blank PROVE k[o] = Blank
    <3>1. o \notin scanned /\ o \notin m.remset
      BY <1>8, <2>6 DEF In, Tenured, Blank
    <3>2. s = Nil
      BY <1>7, <2>6, <3>1 DEF Left, Blank, HeapAssumption
    <3>3. /\ h[o].gen = "free" /\ h[o].age = 0 /\ h[o].marked = FALSE
          /\ h[o].dirty = FALSE /\ h[o].finalized = FALSE
      BY <2>6 DEF Blank
    <3>4. k[o].dirty = FALSE
      BY <2>4, <3>1, <3>3
    <3> HIDE DEF s
    <3> QED
      BY <2>3, <2>4, <3>2, <3>3, <3>4 DEF Blank
  <2> HIDE DEF s
  <2>7. k[o] \in Objects
    BY <2>1, <2>3, <2>4, <2>5 DEF Objects, Value
  <2>8. /\ k[o].gen = h[o].gen /\ k[o].slot = s /\ k[o].forward = Nil
        /\ k[o].marked = h[o].marked /\ k[o].finalized = h[o].finalized
    BY <2>3, <2>4
  <2> QED
    BY <2>4, <2>6, <2>7, <2>8 DEF s
<1>16. Blank \in Objects /\ Blank.forward = Nil /\ Blank.gen = "free" /\ Blank.slot = Nil
       /\ Blank.dirty = FALSE /\ Blank.marked = FALSE
  BY DEF Blank, Objects, Value
<1>17. k \in Heaps
  <2>1. \A o \in Object : k[o] \in Objects
    BY <1>5, <1>14, <1>15, <1>16
  <2> QED
    BY <1>3, <2>1 DEF Heaps
<1>18. \A o \in Object : k[o].forward = Nil
  BY <1>5, <1>14, <1>15, <1>16
<1>19. Chains(k) /\ \A w \in Value : Resolve(k, w) = w
  BY <1>18, NoForwards
\* The slots of what the program can reach refer to what they did.
<1>20. ASSUME NEW o \in R PROVE k[o].slot = Slot(h, o) /\ Slot(k, o) = Slot(h, o)
  <2>1. o \in Object /\ h[o].slot \in Value /\ Slot(h, o) \in Value
    BY <1>2, HeapsAt, SlotFacts
  <2>2. k[o].slot = Slot(h, o)
    <3>1. CASE o \in copied
      BY <1>14, <3>1
    <3>2. CASE o \notin copied /\ o \in scanned
      BY <1>7, <1>11, <1>15, <2>1, <3>2
    <3>3. CASE o \notin copied /\ o \notin scanned
      <4>1. o \in In(h, Tenured)
        BY <1>7, <3>3
      <4>2. h[o].gen = "old"
        BY <1>8, <2>1, <3>3, <4>1 DEF In, Tenured
      <4>3. h[o].slot \notin young
        BY <1>8, <1>12, <3>3, <4>1, <4>2
      <4>4. Slot(h, o) = h[o].slot
        BY <1>2, <2>1, <4>3, ResolveShape DEF Slot, young
      <4> QED
        BY <1>11, <1>15, <2>1, <3>3, <4>1, <4>3, <4>4 DEF Left
    <3> QED
      BY <3>1, <3>2, <3>3
  <2>3. Slot(k, o) = k[o].slot
    BY <1>19, <2>1, <2>2 DEF Slot
  <2> QED
    BY <2>2, <2>3
<1>21. \A r \in Root : n.root[r] \in Value /\ Resolve(k, n.root[r]) = Resolve(h, m.root[r])
  <2> TAKE r \in Root
  <2>1. n.root[r] = Resolve(h, m.root[r]) /\ Resolve(h, m.root[r]) \in Value
    BY <1>2, <1>3, ResolveFacts
  <2> QED
    BY <1>19, <2>1
<1>22. Reach(k, n.root) = R
  BY <1>20, <1>21, SameReach DEF R, h
\* What a resolved slot of a scanned object refers to is still there.
<1>23. \A v : v \in copied \/ v \in In(h, Tenured) \/ v \notin Object => Used(k, v)
  <2> SUFFICES ASSUME NEW v \in Object, v \in copied \/ v \in In(h, Tenured)
               PROVE  k[v].gen # "free"
    BY DEF Used
  <2>1. CASE v \in copied
    BY <1>14, <2>1
  <2>2. CASE v \notin copied
    <3>1. h[v].gen \in Tenured /\ k[v].gen = h[v].gen
      BY <1>11, <1>15, <2>2
    <3> QED
      BY <3>1 DEF Tenured
  <2> QED
    BY <2>1, <2>2
<1>24. \A v : Used(h, v) => v \in young \/ v \in In(h, Tenured) \/ v \notin Object
  <2> SUFFICES ASSUME NEW v \in Object, h[v].gen # "free"
               PROVE  h[v].gen \in Young \cup Tenured
    BY <1>11 DEF Used
  <2>1. h[v] \in Objects
    BY <1>2, HeapsAt
  <2> QED
    BY <2>1 DEF Objects
<1>25. ASSUME NEW o \in Object PROVE Used(h, h[o].slot) /\ Used(h, Slot(h, o))
  BY <1>2, HeapsAt, ResolveShape DEF Shape, Slot
<1>26. \A o \in copied \cup scanned : Used(k, Slot(h, o))
  <2> TAKE o \in copied \cup scanned
  <2>1. o \in Object
    BY <1>7, <1>8 DEF In
  <2>2. Slot(h, o) \in young => Slot(h, o) \in copied
    BY <1>7
  <2> QED
    BY <1>23, <1>24, <1>25, <2>1, <2>2
<1>27. Shape(k)
  <2>1. ASSUME NEW o \in Object, k[o].gen = "free" PROVE k[o] = Blank
    <3>1. CASE o \in copied
      BY <1>14, <2>1, <3>1
    <3>2. CASE o \notin copied /\ h[o].gen \in Young
      BY <1>5, <3>2
    <3>3. CASE o \notin copied /\ h[o].gen \notin Young
      BY <1>2, <1>15, <2>1, <3>3 DEF Shape
    <3> QED
      BY <3>1, <3>2, <3>3
  <2>2. ASSUME NEW o \in Object PROVE Used(k, k[o].slot)
    <3>1. CASE o \in copied
      BY <1>14, <1>26, <3>1
    <3>2. CASE o \notin copied /\ h[o].gen \in Young
      <4>1. k[o].slot \notin Object
        BY <1>5, <1>16, <3>2 DEF HeapAssumption
      <4> QED
        BY <1>23, <4>1
    <3>3. CASE o \notin copied /\ h[o].gen \notin Young /\ o \in scanned
      BY <1>15, <1>26, <3>3
    <3>4. CASE o \notin copied /\ h[o].gen \notin Young /\ o \notin scanned
      <4>1. k[o].slot = Left(h[o].slot, young)
        BY <1>15, <3>4
      <4>2. CASE h[o].slot \in young
        BY <1>23, <4>1, <4>2 DEF Left, HeapAssumption
      <4>3. CASE h[o].slot \notin young
        <5>1. k[o].slot = h[o].slot
          BY <4>1, <4>3 DEF Left
        <5> QED
          BY <1>23, <1>24, <1>25, <4>3, <5>1
      <4> QED
        BY <4>2, <4>3
    <3> QED
      BY <3>1, <3>2, <3>3, <3>4
  <2> QED
    BY <1>18, <2>1, <2>2 DEF Shape
<1>28. n \in Memories /\ n.queue = m.queue
  <2>1. n.root \in [Root -> Value]
    BY <1>3, <1>21
  <2>2. n.remset \subseteq Object
    BY <1>2, <1>3, <1>7, <1>9, MemoryFacts
  <2> QED
    BY <1>2, <1>3, <1>17, <2>1, <2>2, MemoryFacts DEF Memories
<1>29. \A o \in In(h, Tenured) :
          o \in Object /\ o \notin copied /\ k[o].gen = h[o].gen /\ o \in In(k, Tenured)
  <2> TAKE o \in In(h, Tenured)
  <2>1. o \in Object
    BY DEF In
  <2>2. h[o].gen \in Tenured /\ o \notin copied
    BY <1>7, <1>11, <2>1
  <2>3. k[o].gen = h[o].gen
    BY <1>11, <1>15, <2>1, <2>2
  <2> QED
    BY <2>1, <2>2, <2>3 DEF In
<1>30. Sound(n)
  <2>1. ASSUME NEW r \in Root PROVE Used(k, n.root[r])
    <3>1. n.root[r] = Resolve(h, m.root[r]) /\ Used(h, Resolve(h, m.root[r]))
      BY <1>2, <1>3, <1>8, ResolveShape
    <3> QED
      BY <1>7, <1>23, <1>24, <3>1
  <2>2. n.remset \subseteq In(k, Tenured)
    <3>1. \A o \in promoted : o \in In(k, Tenured)
      BY <1>9, <1>14 DEF In, Tenured
    <3> QED
      BY <1>3, <1>8, <1>29, <3>1
  <2>3. n.queue \subseteq In(k, Tenured) \cap Finalizable
    BY <1>8, <1>28, <1>29
  <2>4. \A o \in n.queue : k[o].finalized
    BY <1>8, <1>11, <1>15, <1>28, <1>29
  <2>5. ASSUME NEW o \in Object PROVE k[o].dirty <=> o \in n.remset
    <3>1. CASE o \in copied
      <4>1. o \notin m.remset
        BY <1>8, <1>29, <3>1
      <4> QED
        BY <1>3, <1>14, <3>1, <4>1
    <3>2. CASE o \notin copied /\ h[o].gen \in Young
      <4>1. o \notin m.remset /\ o \notin promoted
        BY <1>8, <1>9, <1>11, <3>2
      <4> QED
        BY <1>3, <1>5, <1>16, <3>2, <4>1
    <3>3. CASE o \notin copied /\ h[o].gen \notin Young
      <4>1. o \notin promoted
        BY <1>9, <3>3
      <4>2. k[o].dirty <=> IF o \in m.remset THEN Dirty(o) ELSE h[o].dirty
        BY <1>15, <3>3
      <4> QED
        BY <1>3, <1>8, <4>1, <4>2
    <3> QED
      BY <3>1, <3>2, <3>3
  <2>6. /\ \A r \in Root : Resolve(k, n.root[r]) # Lost
        /\ \A o \in Reach(k, n.root) : Slot(k, o) # Lost
    BY <1>8, <1>20, <1>21, <1>22
  <2> QED
    BY <1>19, <1>27, <1>28, <2>1, <2>2, <2>3, <2>4, <2>5, <2>6 DEF Sound, k
<1>31. Remembered(n, {})
  <2> SUFFICES ASSUME NEW o \in R, k[o].gen = "old", k[o].slot \in In(k, Young)
               PROVE  o \in n.remset
    BY <1>22 DEF Remembered, k
  <2>1. o \in Object
    BY <1>2
  <2>2. Slot(h, o) \in Object /\ k[Slot(h, o)].gen \in Young
    BY <1>20 DEF In
  <2>3. Slot(h, o) \in copied \ promoted
    <3> DEFINE v == Slot(h, o)
    <3>1. v \in Object /\ k[v].gen \in Young
      BY <2>2
    <3> HIDE DEF v
    <3> SUFFICES v \in copied \ promoted
      BY DEF v
    <3>2. CASE v \in copied
      BY <1>14, <3>1, <3>2 DEF Young
    <3>3. CASE v \notin copied /\ h[v].gen \in Young
      BY <1>5, <1>16, <3>1, <3>3 DEF Young
    <3>4. CASE v \notin copied /\ h[v].gen \notin Young
      BY <1>15, <3>1, <3>4
    <3> QED
      BY <3>2, <3>3, <3>4 DEF v
  <2>4. Dirty(o)
    BY <1>10, <2>3
  <2>5. CASE o \in copied
    BY <1>3, <1>14, <2>4, <2>5
  <2>6. CASE o \notin copied
    <3>1. o \in In(h, Tenured)
      BY <1>7, <2>6
    <3>2. h[o].gen = "old"
      BY <1>29, <3>1
    <3>3. h[o].slot \in young
      BY <1>7, <1>13, <2>1, <2>3
    <3> QED
      BY <1>3, <1>12, <2>4, <3>1, <3>2, <3>3
  <2> QED
    BY <2>5, <2>6
<1>32. ASSUME NEW o \in Object PROVE k[o].marked => h[o].marked
  <2>1. CASE o \in copied
    BY <1>14, <2>1
  <2>2. CASE o \notin copied /\ h[o].gen \in Young
    BY <1>5, <1>16, <2>2
  <2>3. CASE o \notin copied /\ h[o].gen \notin Young
    BY <1>15, <2>3
  <2> QED
    BY <2>1, <2>2, <2>3
<1>33. ASSUME NEW o \in Object, k[o].gen \in Tenured PROVE k[o].finalized = h[o].finalized
  <2>1. CASE o \in copied
    BY <1>14, <2>1
  <2>2. CASE o \notin copied /\ h[o].gen \in Young
    BY <1>5, <1>16, <1>33, <2>2 DEF Tenured
  <2>3. CASE o \notin copied /\ h[o].gen \notin Young
    BY <1>15, <2>3
  <2> QED
    BY <2>1, <2>2, <2>3
<1> QED
  BY <1>18, <1>20, <1>21, <1>22, <1>28, <1>29, <1>30, <1>31, <1>32, <1>33 DEF k, h, R

-----------------------------------------------------------------------------
(* The steps of the program, in a memory.                                   *)

\* A variable is set to something else that the program can reach, or to nothing.
LEMMA SetRootFacts ==
  ASSUME HeapAssumption, NEW m, Sound(m), NEW busy, Remembered(m, busy),
         NEW r \in Root, NEW v \in Value, Used(m.heap, v), Resolve(m.heap, v) # Lost,
         Resolve(m.heap, v) \in Object => Resolve(m.heap, v) \in Reach(m.heap, m.root),
         NEW n, n = [heap |-> m.heap, root |-> [m.root EXCEPT ![r] = v],
                     remset |-> m.remset, queue |-> m.queue]
  PROVE  /\ Sound(n) /\ Remembered(n, busy)
         /\ n.heap = m.heap /\ n.remset = m.remset /\ n.queue = m.queue
         /\ Reach(n.heap, n.root) \subseteq Reach(m.heap, m.root)
<1> DEFINE h == m.heap
           ru == [m.root EXCEPT ![r] = v]
<1>1. m \in Memories /\ m.root \in [Root -> Value]
  BY MemoryFacts DEF Sound
<1>2. ru \in [Root -> Value] /\ \A q \in Root : ru[q] = IF q = r THEN v ELSE m.root[q]
  BY <1>1
<1> HIDE DEF ru
<1>3. n = [heap |-> h, root |-> ru, remset |-> m.remset, queue |-> m.queue]
  BY DEF ru
<1>4. n \in Memories /\ n.heap = h /\ n.root = ru /\ n.remset = m.remset /\ n.queue = m.queue
  BY <1>1, <1>2, <1>3, MemoryFacts DEF Memories
<1>5. \A q \in Root : Resolve(h, ru[q]) \in Object
                       => Resolve(h, ru[q]) \in Reach(h, m.root)
  BY <1>2, ReachFacts
<1>6. Reach(h, ru) \subseteq Reach(h, m.root)
  BY <1>5, ReachFacts, ReachLeast
<1>7. Sound(n)
  BY <1>2, <1>4, <1>6 DEF Sound
<1>8. Remembered(n, busy)
  BY <1>4, <1>6 DEF Remembered
<1> QED
  BY <1>4, <1>6, <1>7, <1>8

StoreLeaves(m, q, o, n) ==
  /\ Sound(n) /\ Remembered(n, {o})
  /\ m.root[q] \notin Object => Remembered(n, {})
  /\ n.root = m.root /\ n.remset = m.remset /\ n.queue = m.queue
  /\ Reach(n.heap, n.root) \subseteq Reach(m.heap, m.root)
  /\ \A w \in Value : Resolve(n.heap, w) = Resolve(m.heap, w)
  /\ \A p \in Object :
       /\ Slot(n.heap, p) = IF p = o THEN Resolve(m.heap, m.root[q]) ELSE Slot(m.heap, p)
       /\ n.heap[p].gen = m.heap[p].gen
       /\ n.heap[p].marked = m.heap[p].marked
       /\ n.heap[p].finalized = m.heap[p].finalized
  /\ \A g : In(n.heap, g) = In(m.heap, g)

\* A slot is written, before the barrier has run.
LEMMA SetSlotFacts ==
  ASSUME HeapAssumption, NEW m, Sound(m), Remembered(m, {}),
         NEW r \in Root, NEW q \in Root,
         NEW o \in Object, o = Resolve(m.heap, m.root[r]),
         NEW n, n = [heap |-> [m.heap EXCEPT ![o].slot = m.root[q]], root |-> m.root,
                     remset |-> m.remset, queue |-> m.queue]
  PROVE  StoreLeaves(m, q, o, n)
<1> DEFINE h == m.heap
           v == m.root[q]
           k == [h EXCEPT ![o].slot = v]
           R == Reach(h, m.root)
<1>1. /\ m \in Memories /\ h \in Heaps /\ Chains(h) /\ Shape(h) /\ v \in Value
      /\ m.root \in [Root -> Value]
  BY MemoryFacts DEF Sound
<1>2. n = [heap |-> k, root |-> m.root, remset |-> m.remset, queue |-> m.queue]
  OBVIOUS
<1>3. /\ k \in Heaps
      /\ \A p \in Object :
           /\ k[p].slot = IF p = o THEN v ELSE h[p].slot
           /\ k[p].gen = h[p].gen /\ k[p].forward = h[p].forward
           /\ k[p].marked = h[p].marked /\ k[p].finalized = h[p].finalized
           /\ k[p].dirty = h[p].dirty
           /\ p # o => k[p] = h[p]
  BY <1>1 DEF Heaps, Objects
<1> HIDE DEF k
<1>4. n \in Memories /\ n.heap = k /\ n.root = m.root /\ n.remset = m.remset /\ n.queue = m.queue
  BY <1>1, <1>2, <1>3, MemoryFacts DEF Memories
<1>5. Chains(k) /\ \A w \in Value : Resolve(k, w) = Resolve(h, w)
  BY <1>1, <1>3, SameForwards
<1>6. \A p \in Object : Slot(k, p) = IF p = o THEN Resolve(h, v) ELSE Slot(h, p)
  BY <1>1, <1>3, <1>5, HeapsAt DEF Slot
<1>7. \A g : In(k, g) = In(h, g)
  BY <1>3 DEF In
<1>8. \A w : Used(k, w) <=> Used(h, w)
  BY <1>3 DEF Used
<1>9. Used(h, v) /\ Used(h, o) /\ Resolve(h, v) # Lost
  <2>1. Used(h, m.root[r]) /\ m.root[r] \in Value
    BY <1>1 DEF Sound
  <2> QED
    BY <1>1, <2>1, ResolveShape DEF Sound
<1>10. Shape(k)
  <2>1. ASSUME NEW p \in Object, k[p].gen = "free" PROVE k[p] = Blank
    <3>1. p # o
      BY <1>3, <1>9, <2>1 DEF Used
    <3> QED
      BY <1>1, <1>3, <2>1, <3>1 DEF Shape
  <2>2. ASSUME NEW p \in Object PROVE Used(k, k[p].slot)
    BY <1>1, <1>3, <1>8, <1>9 DEF Shape
  <2>3. ASSUME NEW p \in Object, k[p].forward # Nil
        PROVE  /\ k[p].gen \in Young
               /\ k[p].forward \in In(k, Young)
               /\ Resolve(k, p) \in In(k, Young)
    BY <1>1, <1>3, <1>5, <1>7, <2>3 DEF Shape, Value
  <2> QED
    BY <2>1, <2>2, <2>3 DEF Shape
<1>11. Reach(k, m.root) \subseteq R
  <2>1. /\ \A p \in Root : Resolve(k, m.root[p]) \in Object => Resolve(k, m.root[p]) \in R
        /\ Resolve(h, v) \in Object => Resolve(h, v) \in R
    BY <1>1, <1>5, ReachFacts
  <2>2. \A p \in R : Slot(k, p) \in Object => Slot(k, p) \in R
    BY <1>6, <2>1, ReachFacts
  <2> HIDE DEF R, h, v
  <2> QED
    BY <2>1, <2>2, ReachLeast
<1>12. Sound(n)
  <2>1. \A p \in Reach(k, m.root) : Slot(k, p) # Lost
    BY <1>6, <1>9, <1>11, ReachFacts DEF Sound
  <2>2. \A p \in Root : Used(k, m.root[p]) /\ Resolve(k, m.root[p]) # Lost
    BY <1>1, <1>5, <1>8 DEF Sound
  <2>3. m.remset \subseteq Object /\ m.queue \subseteq Object
    BY <1>1, MemoryFacts
  <2>4. /\ \A p \in m.queue : k[p].finalized
        /\ \A p \in Object : k[p].dirty <=> p \in m.remset
    BY <1>3, <2>3 DEF Sound
  <2> QED
    BY <1>3, <1>4, <1>5, <1>7, <1>10, <2>1, <2>2, <2>4 DEF Sound
<1>13. Remembered(n, {o})
  BY <1>3, <1>4, <1>7, <1>11, ReachFacts DEF Remembered
<1>14. ASSUME v \notin Object PROVE Remembered(n, {})
  BY <1>3, <1>4, <1>7, <1>11, <1>14, ReachFacts DEF Remembered, In
<1> QED
  BY <1>3, <1>4, <1>5, <1>6, <1>7, <1>11, <1>12, <1>13, <1>14 DEF StoreLeaves

LEMMA ReachUsed ==
  ASSUME HeapAssumption, NEW m, Sound(m)
  PROVE  \A o \in Reach(m.heap, m.root) : o \in Object /\ m.heap[o].gen # "free"
<1> DEFINE h == m.heap
           C == {o \in Object : Used(h, o)}
<1>1. /\ h \in Heaps /\ Chains(h) /\ Shape(h)
      /\ \A r \in Root : m.root[r] \in Value
  BY MemoryFacts DEF Sound
<1>2. \A r \in Root : Used(h, Resolve(h, m.root[r]))
  BY <1>1, ResolveShape DEF Sound
<1>3. \A o \in Object : Used(h, Slot(h, o))
  BY <1>1, HeapsAt, ResolveShape DEF Shape, Slot
<1> HIDE DEF h
<1>4. Reach(h, m.root) \subseteq C
  <2>1. /\ \A r \in Root : Resolve(h, m.root[r]) \in Object => Resolve(h, m.root[r]) \in C
        /\ \A o \in C : Slot(h, o) \in Object => Slot(h, o) \in C
    BY <1>2, <1>3
  <2> HIDE DEF C
  <2> QED
    BY <2>1, ReachLeast
<1> QED
  BY <1>4 DEF h, Used

\* The header of an object when it is allocated.
New(gen, slot) ==
  [gen |-> gen, slot |-> slot, age |-> 0, marked |-> FALSE,
   dirty |-> FALSE, finalized |-> FALSE, forward |-> Nil]

LEMMA NewIs ==
  ASSUME NEW gen \in Young \cup Tenured
  PROVE  [Blank EXCEPT !.gen = gen] = New(gen, Nil)
<1>1. ASSUME NEW z \in Objects
      PROVE  [z EXCEPT !.gen = gen]
             = [gen |-> gen, slot |-> z.slot, age |-> z.age, marked |-> z.marked,
                dirty |-> z.dirty, finalized |-> z.finalized, forward |-> z.forward]
  BY DEF Objects
<1>2. Blank \in Objects
  BY DEF Blank, Objects, Value
<1>3. [Blank EXCEPT !.gen = gen]
      = [gen |-> gen, slot |-> Blank.slot, age |-> Blank.age, marked |-> Blank.marked,
         dirty |-> Blank.dirty, finalized |-> Blank.finalized, forward |-> Blank.forward]
  BY <1>1, <1>2, Zenon
<1>4. /\ Blank.slot = Nil /\ Blank.age = 0 /\ Blank.forward = Nil
      /\ Blank.marked = FALSE /\ Blank.dirty = FALSE /\ Blank.finalized = FALSE
  BY DEF Blank
<1> QED
  BY <1>3, <1>4, Zenon DEF New

LEMMA NewFacts ==
  ASSUME NEW gen \in Young \cup Tenured, NEW v \in Value
  PROVE  New(gen, v) \in Objects
BY DEF New, Objects, Value

\* A new object: no slot refers to it yet.
Allocated(m, r, o, gen) ==
  [heap |-> [m.heap EXCEPT ![o] = [Blank EXCEPT !.gen = gen]],
   root |-> [m.root EXCEPT ![r] = o], remset |-> m.remset, queue |-> m.queue]

AllocLeaves(m, gen, o, n) ==
  /\ Sound(n) /\ Remembered(n, {})
  /\ n.remset = m.remset /\ n.queue = m.queue
  /\ Reach(n.heap, n.root) \subseteq Reach(m.heap, m.root) \cup {o}
  /\ \A w \in Value : Resolve(n.heap, w) = Resolve(m.heap, w)
  /\ \A p \in Object :
       /\ Slot(n.heap, p) = IF p = o THEN Nil ELSE Slot(m.heap, p)
       /\ n.heap[p].gen = IF p = o THEN gen ELSE m.heap[p].gen
       /\ n.heap[p].marked = m.heap[p].marked
       /\ n.heap[p].finalized = m.heap[p].finalized
  /\ ~ n.heap[o].marked

LEMMA AllocFacts ==
  ASSUME HeapAssumption, NEW m, Sound(m), Remembered(m, {}),
         NEW r \in Root, NEW gen \in {"eden", "los"},
         NEW o \in Object, m.heap[o].gen = "free",
         NEW n, n = Allocated(m, r, o, gen)
  PROVE  AllocLeaves(m, gen, o, n)
<1> DEFINE h == m.heap
           k == [h EXCEPT ![o] = [Blank EXCEPT !.gen = gen]]
           ru == [m.root EXCEPT ![r] = o]
           R == Reach(h, m.root)
<1>1. /\ m \in Memories /\ h \in Heaps /\ Chains(h) /\ Shape(h)
      /\ m.root \in [Root -> Value]
  BY MemoryFacts DEF Sound
<1>2. n = [heap |-> k, root |-> ru, remset |-> m.remset, queue |-> m.queue]
  BY DEF Allocated
<1>3. ru \in [Root -> Value] /\ \A q \in Root : ru[q] = IF q = r THEN o ELSE m.root[q]
  BY <1>1 DEF Value
<1>4. h[o] = Blank
  BY <1>1 DEF Shape
<1>5. [Blank EXCEPT !.gen = gen] = New(gen, Nil)
  BY NewIs DEF Young, Tenured
<1>6. New(gen, Nil) \in Objects
  BY NewFacts DEF Young, Tenured, Value
<1>7. /\ k \in Heaps
      /\ k[o] = New(gen, Nil)
      /\ \A p \in Object : p # o => k[p] = h[p]
  BY <1>1, <1>5, <1>6 DEF Heaps
<1> HIDE DEF k, ru
<1>8. n \in Memories /\ n.heap = k /\ n.root = ru /\ n.remset = m.remset /\ n.queue = m.queue
  BY <1>1, <1>2, <1>3, <1>7, MemoryFacts DEF Memories
<1>9. \A p \in Object :
         /\ k[p].slot = h[p].slot /\ k[p].forward = h[p].forward
         /\ k[p].gen = IF p = o THEN gen ELSE h[p].gen
         /\ k[p].marked = h[p].marked /\ k[p].finalized = h[p].finalized
         /\ k[p].dirty = h[p].dirty
  <2> TAKE p \in Object
  <2>1. CASE p = o
    <3>1. /\ h[p].slot = Nil /\ h[p].forward = Nil
          /\ ~ h[p].marked /\ ~ h[p].finalized /\ ~ h[p].dirty
      BY <1>4, <2>1 DEF Blank
    <3>2. /\ k[p].slot = Nil /\ k[p].forward = Nil /\ k[p].gen = gen
          /\ k[p].marked = FALSE /\ k[p].finalized = FALSE /\ k[p].dirty = FALSE
      BY <1>7, <2>1 DEF New
    <3>3. h[p].marked = FALSE /\ h[p].finalized = FALSE /\ h[p].dirty = FALSE
      BY <1>4, <2>1 DEF Blank
    <3> QED
      BY <2>1, <3>1, <3>2, <3>3
  <2>2. CASE p # o
    BY <1>7, <2>2
  <2> QED
    BY <2>1, <2>2
<1>10. ~ k[o].marked /\ k[o].slot = Nil
  BY <1>7 DEF New
<1>11. Chains(k) /\ \A w \in Value : Resolve(k, w) = Resolve(h, w)
  BY <1>1, <1>9, SameForwards
<1>12. \A p \in Object : Slot(k, p) = Slot(h, p)
  BY <1>1, <1>9, <1>11, HeapsAt DEF Slot
<1>13. Slot(k, o) = Nil
  <2>1. ~ Forwards(h, Nil) /\ Nil \in Value
    BY DEF Forwards, HeapAssumption, Value
  <2> QED
    BY <1>1, <1>10, <1>11, <2>1, ResolveFacts DEF Slot
<1>14. \A g : In(h, g) \subseteq In(k, g) \cup {o}
  BY <1>9 DEF In
<1>15. \A w : Used(h, w) => w # o /\ Used(k, w)
  BY <1>9 DEF Used
<1>16. \A p \in Object : Used(h, h[p].slot) /\ Used(h, Slot(h, p))
  BY <1>1, HeapsAt, ResolveShape DEF Shape, Slot
<1>17. Shape(k)
  <2>1. ASSUME NEW p \in Object, k[p].gen = "free" PROVE k[p] = Blank
    BY <1>1, <1>7, <1>9, <2>1 DEF Shape
  <2>2. ASSUME NEW p \in Object PROVE Used(k, k[p].slot)
    BY <1>9, <1>15, <1>16
  <2>3. ASSUME NEW p \in Object, k[p].forward # Nil
        PROVE  /\ k[p].gen \in Young
               /\ k[p].forward \in In(k, Young)
               /\ Resolve(k, p) \in In(k, Young)
    <3>1. /\ h[p].gen \in Young
          /\ h[p].forward \in In(h, Young)
          /\ Resolve(h, p) \in In(h, Young)
      BY <1>1, <1>9, <2>3 DEF Shape
    <3>2. o \notin In(h, Young)
      BY DEF In, Young
    <3>3. p # o /\ Resolve(k, p) = Resolve(h, p)
      BY <1>11, <3>1 DEF Young, Value
    <3> QED
      BY <1>9, <1>14, <3>1, <3>2, <3>3
  <2> QED
    BY <2>1, <2>2, <2>3 DEF Shape
<1>18. ASSUME NEW q \in Root
       PROVE  /\ Used(k, ru[q]) /\ Resolve(k, ru[q]) # Lost
              /\ Resolve(k, ru[q]) \in Object => Resolve(k, ru[q]) \in R \cup {o}
  <2>1. CASE q = r
    <3>1. ru[q] = o /\ o \in Value /\ ~ Forwards(h, o)
      BY <1>3, <1>4, <2>1 DEF Forwards, Blank, Value
    <3>2. Resolve(k, o) = o
      BY <1>1, <1>11, <3>1, ResolveFacts
    <3>3. Used(k, o)
      BY <1>9 DEF Used
    <3> QED
      BY <3>1, <3>2, <3>3 DEF HeapAssumption
  <2>2. CASE q # r
    <3>1. ru[q] = m.root[q] /\ Used(h, m.root[q]) /\ Resolve(h, m.root[q]) # Lost
          /\ m.root[q] \in Value
      BY <1>1, <1>3, <2>2 DEF Sound
    <3> QED
      BY <1>11, <1>15, <3>1, ReachFacts
  <2> QED
    BY <2>1, <2>2
<1>19. Reach(k, ru) \subseteq R \cup {o}
  <2>1. \A p \in R \cup {o} : Slot(k, p) \in Object => Slot(k, p) \in R \cup {o}
    BY <1>12, <1>13, ReachFacts DEF HeapAssumption
  <2> HIDE DEF R
  <2> QED
    BY <1>18, <2>1, ReachLeast
<1>20. m.remset \subseteq Object /\ m.queue \subseteq Object
       /\ m.remset \subseteq In(h, Tenured) /\ m.queue \subseteq In(h, Tenured) \cap Finalizable
       /\ o \notin In(h, Tenured)
  BY <1>1, MemoryFacts DEF Sound, In, Tenured
<1>21. Sound(n)
  <2>1. \A p \in Reach(k, ru) : Slot(k, p) # Lost
    BY <1>12, <1>13, <1>19, ReachFacts DEF Sound, HeapAssumption
  <2>2. n.remset \subseteq In(k, Tenured) /\ n.queue \subseteq In(k, Tenured) \cap Finalizable
    BY <1>8, <1>14, <1>20
  <2>3. /\ \A p \in n.queue : k[p].finalized
        /\ \A p \in Object : k[p].dirty <=> p \in n.remset
    BY <1>8, <1>9, <1>20 DEF Sound
  <2> QED
    BY <1>8, <1>11, <1>17, <1>18, <2>1, <2>2, <2>3 DEF Sound
<1>22. Remembered(n, {})
  <2> SUFFICES ASSUME NEW p \in Reach(k, ru), k[p].gen = "old", k[p].slot \in In(k, Young)
               PROVE  p \in n.remset
    BY <1>8 DEF Remembered
  <2>1. p \in Object /\ p # o /\ p \in R
    BY <1>9, <1>19, ReachFacts
  <2>2. h[p].gen = "old"
    BY <1>9, <2>1
  <2>3. h[p].slot \in In(h, Young)
    <3>1. h[p].slot = k[p].slot /\ Used(h, h[p].slot)
      BY <1>9, <1>16, <2>1
    <3>2. h[p].slot # o
      BY <1>15, <3>1
    <3> QED
      BY <1>9, <3>1, <3>2 DEF In
  <2> QED
    BY <1>8, <2>1, <2>2, <2>3 DEF Remembered
<1> QED
  BY <1>8, <1>9, <1>10, <1>11, <1>12, <1>13, <1>19, <1>21, <1>22 DEF AllocLeaves

\* The heap after an array a has grown into b: b is new, and a is b's stub.
Grown(h, a, b) ==
  [h EXCEPT ![b] = [Blank EXCEPT !.gen = "eden", !.slot = h[a].slot],
            ![a].forward = b, ![a].marked = FALSE, ![a].age = 0]

LEMMA GrownIs ==
  ASSUME HeapAssumption, NEW h \in Heaps, NEW a \in Object, NEW b \in Object, a # b,
         NEW k, k = Grown(h, a, b)
  PROVE  /\ k \in Heaps
         /\ k[b] = New("eden", h[a].slot)
         /\ k[a] = [gen |-> h[a].gen, slot |-> h[a].slot, age |-> 0, marked |-> FALSE,
                    dirty |-> h[a].dirty, finalized |-> h[a].finalized, forward |-> b]
         /\ \A p \in Object \ {a, b} : k[p] = h[p]
<1> DEFINE v == h[a].slot
           c == [Blank EXCEPT !.gen = "eden"]
           d == [c EXCEPT !.slot = v]
           e == [h EXCEPT ![b] = d]
           x == [e EXCEPT ![a].forward = b]
           no == FALSE
           zero == 0
           y == [x EXCEPT ![a].marked = no]
<1>1. k = [y EXCEPT ![a].age = zero]
  BY Zenon DEF Grown
<1>2. c = New("eden", Nil)
  BY NewIs DEF Young, Tenured
<1>3. v \in Value /\ h[a] \in Objects
  BY HeapsAt
<1> HIDE DEF c, v
<1>4. d = New("eden", v)
  <2>1. c \in Objects
    BY <1>2, NewFacts DEF Young, Tenured, Value
  <2>2. d = [gen |-> c.gen, slot |-> v, age |-> c.age, marked |-> c.marked,
             dirty |-> c.dirty, finalized |-> c.finalized, forward |-> c.forward]
    BY <2>1 DEF Objects
  <2>3. /\ c.gen = "eden" /\ c.age = 0 /\ c.forward = Nil
        /\ c.marked = FALSE /\ c.dirty = FALSE /\ c.finalized = FALSE
    BY <1>2 DEF New
  <2> QED
    BY <2>2, <2>3, Zenon DEF New
<1>5. d \in Objects
  BY <1>3, <1>4, NewFacts DEF Young, Tenured
<1> HIDE DEF d
<1>6. /\ e \in Heaps /\ e[b] = d /\ \A p \in Object : p # b => e[p] = h[p]
  BY <1>5 DEF Heaps
<1> HIDE DEF e
<1>7. b \in Value /\ zero \in 0..1 /\ no \in BOOLEAN
  BY DEF Value
<1> HIDE DEF no, zero
<1>8. /\ x \in Heaps /\ \A p \in Object : p # a => x[p] = e[p]
      /\ x[a] = [e[a] EXCEPT !.forward = b]
  BY <1>6, <1>7 DEF Heaps, Objects
<1> HIDE DEF x
<1>9. /\ y \in Heaps /\ \A p \in Object : p # a => y[p] = x[p]
      /\ y[a] = [x[a] EXCEPT !.marked = no]
  <2> DEFINE z == [x[a] EXCEPT !.marked = no]
  <2>1. y = [x EXCEPT ![a] = z]
    OBVIOUS
  <2>2. z \in Objects
    BY <1>7, <1>8, HeapsAt, FlagFacts
  <2> HIDE DEF z, y
  <2>3. y \in Heaps /\ y[a] = z /\ \A p \in Object : p # a => y[p] = x[p]
    BY <1>8, <2>1, <2>2 DEF Heaps
  <2> QED
    BY <2>3 DEF z
<1> HIDE DEF y
<1>10. /\ k \in Heaps /\ \A p \in Object : p # a => k[p] = y[p]
       /\ k[a] = [y[a] EXCEPT !.age = zero]
  <2> DEFINE u == y[a]
             z == [u EXCEPT !.age = zero]
             w == [y EXCEPT ![a] = z]
  <2>1. k = w
    BY <1>1
  <2>2. u \in Objects
    BY <1>9, HeapsAt
  <2> HIDE DEF u
  <2>3. z \in Objects
    BY <1>7, <2>2 DEF Objects
  <2> HIDE DEF z
  <2>4. w \in Heaps /\ w[a] = z /\ \A p \in Object : p # a => w[p] = y[p]
    BY <1>9, <2>3 DEF Heaps
  <2> HIDE DEF w
  <2> QED
    BY <2>1, <2>4, Zenon DEF u, z
<1>11. k[b] = New("eden", v) /\ \A p \in Object \ {a, b} : k[p] = h[p]
  BY <1>4, <1>6, <1>8, <1>9, <1>10
<1>12. e[a] = h[a]
  BY <1>6
<1>13. x[a] = [gen |-> h[a].gen, slot |-> h[a].slot, age |-> h[a].age,
               marked |-> h[a].marked, dirty |-> h[a].dirty,
               finalized |-> h[a].finalized, forward |-> b]
  BY <1>3, <1>8, <1>12 DEF Objects
<1>14. y[a] = [gen |-> h[a].gen, slot |-> h[a].slot, age |-> h[a].age,
               marked |-> no, dirty |-> h[a].dirty,
               finalized |-> h[a].finalized, forward |-> b]
  BY <1>9, <1>13
<1>15. k[a] = [gen |-> h[a].gen, slot |-> h[a].slot, age |-> zero,
               marked |-> no, dirty |-> h[a].dirty,
               finalized |-> h[a].finalized, forward |-> b]
  BY <1>10, <1>14
<1> QED
  BY <1>10, <1>11, <1>15 DEF v, no, zero

\* What is in the heap after the array a, which root r holds, has grown into b.
GrowLeaves(m, r, a, b, n) ==
  /\ n \in Memories /\ n.remset = m.remset /\ n.queue = m.queue
  /\ \A q \in Root : n.root[q] = IF q = r THEN b ELSE m.root[q]
  /\ n.heap[b] = New("eden", m.heap[a].slot)
  /\ n.heap[a].slot = m.heap[a].slot /\ n.heap[a].gen = m.heap[a].gen
  /\ n.heap[a].forward = b /\ ~ n.heap[a].marked
  /\ n.heap[a].dirty = m.heap[a].dirty /\ n.heap[a].finalized = m.heap[a].finalized
  /\ \A p \in Object \ {a, b} : n.heap[p] = m.heap[p]

LEMMA GrowIs ==
  ASSUME HeapAssumption, NEW m \in Memories, NEW r \in Root,
         NEW a \in Object, NEW b \in Object, a # b,
         NEW n, n = [heap |-> Grown(m.heap, a, b), root |-> [m.root EXCEPT ![r] = b],
                     remset |-> m.remset, queue |-> m.queue]
  PROVE  GrowLeaves(m, r, a, b, n)
<1> DEFINE h == m.heap
           k == Grown(h, a, b)
           ru == [m.root EXCEPT ![r] = b]
           v == [heap |-> k, root |-> ru, remset |-> m.remset, queue |-> m.queue]
<1>1. h \in Heaps /\ m.root \in [Root -> Value]
  BY ONLY m \in Memories, MemoryFacts
<1>2. n = v
  BY Zenon
<1>3. /\ k \in Heaps
      /\ k[b] = New("eden", h[a].slot)
      /\ k[a] = [gen |-> h[a].gen, slot |-> h[a].slot, age |-> 0, marked |-> FALSE,
                 dirty |-> h[a].dirty, finalized |-> h[a].finalized, forward |-> b]
      /\ \A p \in Object \ {a, b} : k[p] = h[p]
  BY ONLY HeapAssumption, <1>1, a \in Object, b \in Object, a # b, GrownIs
<1>4. ru \in [Root -> Value] /\ \A q \in Root : ru[q] = IF q = r THEN b ELSE m.root[q]
  BY ONLY <1>1, b \in Object, r \in Root DEF Value, ru
<1> HIDE DEF k, ru
<1>5. /\ v \in Memories /\ v.heap = k /\ v.root = ru
      /\ v.remset = m.remset /\ v.queue = m.queue
  BY ONLY m \in Memories, <1>3, <1>4, MemoryFacts DEF Memories, v
<1>6. /\ k[a].slot = h[a].slot /\ k[a].gen = h[a].gen
      /\ k[a].forward = b /\ ~ k[a].marked
      /\ k[a].dirty = h[a].dirty /\ k[a].finalized = h[a].finalized
  BY ONLY <1>3
<1> HIDE DEF v
<1>7. GrowLeaves(m, r, a, b, v)
  BY ONLY <1>3, <1>4, <1>5, <1>6, Zenon DEF GrowLeaves, h
<1> QED
  BY ONLY <1>2, <1>7, Zenon

GrowView(m, a, b, n) ==
  /\ Sound(n) /\ Remembered(n, {})
  /\ b \notin Reach(m.heap, m.root)
  /\ Reach(n.heap, n.root) \subseteq (Reach(m.heap, m.root) \ {a}) \cup {b}
  /\ \A w \in Value :
       Resolve(n.heap, w) = IF Resolve(m.heap, w) = a THEN b ELSE Resolve(m.heap, w)
  /\ \A p \in Object :
       /\ p # b => Slot(n.heap, p) = IF Slot(m.heap, p) = a THEN b ELSE Slot(m.heap, p)
       /\ p = b => Slot(n.heap, p) = IF Slot(m.heap, a) = a THEN b ELSE Slot(m.heap, a)
       /\ n.heap[p].gen = IF p = b THEN "eden" ELSE m.heap[p].gen
       /\ n.heap[p].marked <=> m.heap[p].marked /\ p # a
       /\ n.heap[p].finalized = m.heap[p].finalized

\* An array grows: what referred to a refers to b, which takes over its slot.
LEMMA GrowFacts ==
  ASSUME HeapAssumption, NEW m, Sound(m), Remembered(m, {}),
         NEW r \in Root, NEW a \in In(m.heap, Young), a = Resolve(m.heap, m.root[r]),
         NEW b \in Object, m.heap[b].gen = "free",
         NEW n, GrowLeaves(m, r, a, b, n)
  PROVE  GrowView(m, a, b, n)
<1> DEFINE h == m.heap
           k == n.heap
           ru == n.root
           R == Reach(h, m.root)
           C == (R \ {a}) \cup {b}
           Ren(x) == IF x = a THEN b ELSE x
<1>1. /\ m \in Memories /\ h \in Heaps /\ Chains(h) /\ Shape(h)
      /\ m.root \in [Root -> Value] /\ n \in Memories /\ k \in Heaps
      /\ n.remset = m.remset /\ n.queue = m.queue
  BY MemoryFacts DEF Sound, GrowLeaves
<1>2. a \in Object /\ a # b /\ h[a].gen \in Young /\ a \in Value /\ b \in Value
  BY DEF In, Young, Value
<1>3. h[b] = Blank
  BY <1>1 DEF Shape
<1>4. ASSUME NEW p \in Object
      PROVE  /\ k[p].gen = IF p = b THEN "eden" ELSE h[p].gen
             /\ k[p].slot = IF p = b THEN h[a].slot ELSE h[p].slot
             /\ k[p].forward = IF p = a THEN b ELSE h[p].forward
             /\ k[p].marked <=> h[p].marked /\ p # a
             /\ k[p].finalized <=> h[p].finalized
             /\ k[p].dirty <=> h[p].dirty
  <2>1. CASE p = b
    BY <1>2, <1>3, <2>1 DEF GrowLeaves, New, Blank
  <2>2. CASE p = a
    BY <1>2, <2>2 DEF GrowLeaves
  <2>3. CASE p \notin {a, b}
    BY <1>2, <2>3 DEF GrowLeaves
  <2> QED
    BY <2>1, <2>2, <2>3
<1>5. \A q \in Root : ru[q] = IF q = r THEN b ELSE m.root[q]
  BY DEF GrowLeaves
<1>6. \A p \in Object : k[p].finalized = h[p].finalized
  BY <1>1, <1>4, HeapsAt DEF Objects
<1>7. \A p \in Object : p \notin {a, b} => k[p] = h[p]
  BY DEF GrowLeaves
<1>8. /\ Chains(k) /\ \A w \in Value : Resolve(k, w) = Ren(Resolve(h, w))
  <2>1. ~ Forwards(h, a)
    BY <1>1, ResolveFacts
  <2>2. ~ Forwards(h, b)
    BY <1>3 DEF Forwards, Blank
  <2>3. \A o \in Object : h[o].forward # b
    BY <1>1 DEF Shape, In, Young, HeapAssumption
  <2> HIDE DEF h, k
  <2> QED
    BY <1>1, <1>2, <1>4, <2>1, <2>2, <2>3, GrowForwards
<1>9. \A p \in Object : Slot(k, p) = Ren(Slot(h, IF p = b THEN a ELSE p))
  BY <1>1, <1>2, <1>4, <1>8, HeapsAt DEF Slot
<1>10. b \notin R /\ a \in R
  BY <1>2, ReachFacts, ReachUsed
<1>11. \A w : Used(h, w) => w # b /\ Used(k, w) /\ Used(k, Ren(w))
  BY <1>2, <1>4 DEF Used
<1>12. \A p \in Object : Used(h, h[p].slot) /\ Used(h, Slot(h, p))
  BY <1>1, HeapsAt, ResolveShape DEF Shape, Slot
<1>13. /\ In(k, Young) = In(h, Young) \cup {b} /\ In(k, Tenured) = In(h, Tenured)
       /\ b \notin In(h, Young)
  BY <1>2, <1>3, <1>4 DEF In, Young, Tenured
<1>14. Shape(k)
  <2>1. ASSUME NEW p \in Object, k[p].gen = "free" PROVE k[p] = Blank
    <3>1. p \notin {a, b} /\ h[p].gen = "free"
      BY <1>2, <1>4, <2>1 DEF Young
    <3> QED
      BY <1>1, <1>7, <3>1 DEF Shape
  <2>2. ASSUME NEW p \in Object PROVE Used(k, k[p].slot)
    BY <1>2, <1>4, <1>11, <1>12
  <2>3. ASSUME NEW p \in Object, k[p].forward # Nil
        PROVE  /\ k[p].gen \in Young
               /\ k[p].forward \in In(k, Young)
               /\ Resolve(k, p) \in In(k, Young)
    <3>1. CASE p = a
      <4>1. Resolve(h, a) = a
        BY <1>1, <1>2, ResolveFacts
      <4> QED
        BY <1>2, <1>4, <1>8, <1>13, <3>1, <4>1
    <3>2. CASE p # a
      <4>1. /\ h[p].gen \in Young
            /\ h[p].forward \in In(h, Young)
            /\ Resolve(h, p) \in In(h, Young)
        BY <1>1, <1>4, <2>3, <3>2 DEF Shape
      <4>2. p # b /\ p \in Value
        BY <1>3, <4>1 DEF Young, Value, Blank
      <4> QED
        BY <1>4, <1>8, <1>13, <3>2, <4>1, <4>2
    <3> QED
      BY <3>1, <3>2
  <2> QED
    BY <2>1, <2>2, <2>3 DEF Shape
<1>15. ASSUME NEW q \in Root
       PROVE  /\ Used(k, ru[q]) /\ Resolve(k, ru[q]) # Lost
              /\ Resolve(k, ru[q]) \in Object => Resolve(k, ru[q]) \in C
  <2>1. CASE q = r
    <3>1. Resolve(h, b) = b
      BY <1>1, <1>2, <1>3, ResolveFacts DEF Forwards, Blank
    <3>2. ru[q] = b /\ Resolve(k, b) = b
      BY <1>2, <1>5, <1>8, <2>1, <3>1
    <3>3. Used(k, b)
      BY <1>4 DEF Used
    <3> QED
      BY <3>2, <3>3 DEF HeapAssumption
  <2>2. CASE q # r
    <3>1. ru[q] = m.root[q] /\ Used(h, m.root[q]) /\ Resolve(h, m.root[q]) # Lost
          /\ m.root[q] \in Value
      BY <1>1, <1>5, <2>2 DEF Sound
    <3>2. Resolve(h, m.root[q]) \in Object => Resolve(h, m.root[q]) \in R
      BY ReachFacts
    <3>3. b # Lost /\ b \in Object
      BY DEF HeapAssumption
    <3> QED
      BY <1>8, <1>11, <3>1, <3>2, <3>3
  <2> QED
    BY <2>1, <2>2
<1>16. \A p \in C : /\ p \in Object
                    /\ Slot(k, p) \in Object => Slot(k, p) \in C
                    /\ Slot(k, p) # Lost
  <2> SUFFICES ASSUME NEW p \in C
               PROVE  /\ p \in Object
                      /\ Slot(k, p) \in Object => Slot(k, p) \in C
                      /\ Slot(k, p) # Lost
    OBVIOUS
  <2> DEFINE q == IF p = b THEN a ELSE p
  <2>1. q \in R /\ p \in Object
    BY <1>10, ReachFacts
  <2>2. /\ Slot(h, q) \in Object => Slot(h, q) \in R
        /\ Slot(h, q) # Lost
    BY <2>1, ReachFacts DEF Sound
  <2>3. Slot(k, p) = Ren(Slot(h, q))
    BY <1>9, <2>1
  <2>4. b # Lost
    BY DEF HeapAssumption
  <2> QED
    BY <2>1, <2>2, <2>3, <2>4
<1>17. Reach(k, ru) \subseteq C
  <2> HIDE DEF C, k, ru
  <2> QED
    BY <1>15, <1>16, ReachLeast
<1>18. Sound(n)
  <2>1. \A p \in Reach(k, ru) : Slot(k, p) # Lost
    BY <1>16, <1>17
  <2>2. n.remset \subseteq In(k, Tenured) /\ n.queue \subseteq In(k, Tenured) \cap Finalizable
    BY <1>1, <1>13 DEF Sound
  <2>3. \A p \in n.queue : k[p].finalized
    BY <1>1, <1>4, MemoryFacts DEF Sound
  <2>4. \A p \in Object : k[p].dirty <=> p \in n.remset
    BY <1>1, <1>4 DEF Sound
  <2> QED
    BY <1>1, <1>8, <1>14, <1>15, <2>1, <2>2, <2>3, <2>4 DEF Sound
<1>19. Remembered(n, {})
  <2> SUFFICES ASSUME NEW p \in Reach(k, ru), k[p].gen = "old", k[p].slot \in In(k, Young)
               PROVE  p \in n.remset
    BY DEF Remembered
  <2>1. p \in Object /\ p # b /\ p \in R
    BY <1>4, <1>16, <1>17
  <2>2. h[p].gen = "old"
    BY <1>4, <2>1
  <2>3. h[p].slot \in In(h, Young)
    BY <1>4, <1>11, <1>12, <1>13, <2>1
  <2> QED
    BY <1>1, <2>1, <2>2, <2>3 DEF Remembered
<1> QED
  BY <1>2, <1>4, <1>6, <1>8, <1>9, <1>10, <1>17, <1>18, <1>19 DEF GrowView

---------------------------------------------------------------------------
(* The inductive invariant. *)

\* The object whose barrier has yet to run.
Busy == IF store = Nil THEN {} ELSE {store.object}

MemoryInv == Sound(Memory) /\ Remembered(Memory, Busy)

\* Between a store and its barrier the roots still hold what it was given.
StoreInv ==
  store # Nil =>
    /\ store \in [object : Object, value : Object]
    /\ \E r \in Root : Resolve(heap, root[r]) = store.object
    /\ \E q \in Root : root[q] = store.value
    /\ Slot(heap, store.object) = Resolve(heap, store.value)

PhaseInv ==
  /\ pc \in {"idle", "trace", "sweep"}
  /\ phase = IF pc = "trace" THEN "mark" ELSE "idle"
  /\ gray \subseteq {o \in Object : heap[o].gen # "free"}
  /\ pc # "trace" => gray = {}

\* What the trace has yet to visit.
Pending(h, g, s) ==
  {Resolve(h, v) : v \in g} \cup IF s = Nil THEN {} ELSE {Resolve(h, s.value)}

\* D are the arrays and objects the trace has visited, P those it will: whatever
\* it has visited refers to visited or pending ones only.  An array that grows
\* unmarked behind the trace is visited by way of its stub, whose slot still
\* holds what the storage did, unless a store has since queued another value.
Traced(h, q, P, D) ==
  /\ \A o \in D : o \in Object /\ h[o].gen # "free"
  /\ \A o \in D : h[o].gen \in Tenured => h[o].marked
  /\ \A o \in Object : h[o].marked => Resolve(h, o) \in D
  /\ \A o \in D : Slot(h, o) \in Object => Slot(h, o) \in D \cup P
  /\ \A o \in Object :
       Slot(h, Resolve(h, o)) \in Object =>
         Slot(h, Resolve(h, o)) \in D \cup P \cup {Slot(h, o)}
  /\ q \subseteq D \cup P

TraceInv == pc = "trace" => \E D : Traced(heap, queue, Pending(heap, gray, store), D)

SweepInv == pc = "sweep" => ReadyToSweep(Memory)

CountInv ==
  /\ majors \in 0 .. MaxMajors /\ running \in Value
  /\ majors = 0 => pc = "idle" /\ \A o \in Object : ~ heap[o].marked

IInv ==
  MemoryInv /\ StoreInv /\ PhaseInv /\ TraceInv /\ SweepInv /\ CountInv

LEMMA MemoryIs ==
  /\ Memory.heap = heap /\ Memory.root = root
  /\ Memory.remset = remset /\ Memory.queue = queue
  /\ Memory' = [heap |-> heap', root |-> root', remset |-> remset', queue |-> queue']
BY DEF Memory

\* Everything in use that a trace or a sweep asks about is as it was.
LEMMA ReadyStays ==
  ASSUME NEW m, ReadyToSweep(m), NEW n,
         Reach(n.heap, n.root) \cap In(n.heap, Tenured)
           \subseteq Reach(m.heap, m.root) \cap In(m.heap, Tenured),
         n.remset \cup n.queue \subseteq m.remset \cup m.queue
                                  \cup (Reach(m.heap, m.root) \cap In(m.heap, Tenured)),
         \A o \in Object : m.heap[o].marked /\ o \notin In(m.heap, Young) => n.heap[o].marked,
         m.remset \cup m.queue \subseteq In(m.heap, Tenured),
         In(n.heap, Tenured) = In(m.heap, Tenured),
         \A o \in Object : n.heap[o].finalized = m.heap[o].finalized
  PROVE  ReadyToSweep(n)
<1>1. \A o \in In(m.heap, Tenured) : o \in Object /\ o \notin In(m.heap, Young)
  BY DEF In, Young, Tenured
<1>2. \A o \in In(m.heap, Tenured) : m.heap[o].marked => n.heap[o].marked
  BY <1>1
<1>3. \A o \in Reach(n.heap, n.root) \cap In(n.heap, Tenured) : n.heap[o].marked
  BY <1>2 DEF ReadyToSweep
<1>4. \A o \in n.remset \cup n.queue : n.heap[o].marked
  BY <1>2 DEF ReadyToSweep
<1>5. \A o \in In(n.heap, Tenured) \cap Finalizable : ~ n.heap[o].marked => n.heap[o].finalized
  BY <1>1, <1>2 DEF ReadyToSweep
<1> QED
  BY <1>3, <1>4, <1>5 DEF ReadyToSweep

LEMMA TracedStays ==
  ASSUME NEW h, NEW k, NEW q, NEW u, u \subseteq q, NEW P, NEW Q, NEW D,
         Traced(h, q, P, D), P \subseteq D \cup Q,
         \A o \in Object :
           /\ Resolve(h, o) \in Object /\ Resolve(k, o) = Resolve(h, o)
           /\ Slot(k, o) = Slot(h, o)
           /\ k[o].gen = h[o].gen
           /\ k[o].marked <=> h[o].marked
  PROVE  Traced(k, u, Q, D)
<1>1. /\ \A o \in D : o \in Object /\ k[o].gen # "free"
      /\ \A o \in D : k[o].gen \in Tenured => k[o].marked
      /\ \A o \in D : Slot(k, o) \in Object => Slot(k, o) \in D \cup Q
      /\ \A o \in Object : k[o].marked => Resolve(k, o) \in D
      /\ u \subseteq D \cup Q
  BY DEF Traced
<1>2. ASSUME NEW o \in Object, Slot(k, Resolve(k, o)) \in Object
      PROVE  Slot(k, Resolve(k, o)) \in D \cup Q \cup {Slot(k, o)}
  BY <1>2 DEF Traced
<1> QED
  BY <1>1, <1>2 DEF Traced

\* A new object is not visited, and refers to nothing.
LEMMA TracedAlloc ==
  ASSUME HeapAssumption, NEW h, NEW k, NEW q, NEW P, NEW D, Traced(h, q, P, D),
         NEW o \in Object, h[o].gen = "free", NEW gen \in {"eden", "los"},
         Resolve(h, o) = o,
         \A p \in Object :
           /\ Resolve(h, p) \in Object /\ Resolve(k, p) = Resolve(h, p)
           /\ Slot(k, p) = IF p = o THEN Nil ELSE Slot(h, p)
           /\ k[p].gen = IF p = o THEN gen ELSE h[p].gen
           /\ k[p].marked <=> h[p].marked
  PROVE  Traced(k, q, P, D)
<1>1. o \notin D /\ Nil \notin Object
  BY DEF Traced, HeapAssumption
<1>2. /\ \A p \in D : p \in Object /\ k[p].gen # "free"
      /\ \A p \in D : k[p].gen \in Tenured => k[p].marked
      /\ \A p \in D : Slot(k, p) \in Object => Slot(k, p) \in D \cup P
      /\ \A p \in Object : k[p].marked => Resolve(k, p) \in D
      /\ q \subseteq D \cup P
  BY <1>1 DEF Traced
<1>3. ASSUME NEW p \in Object, Slot(k, Resolve(k, p)) \in Object
      PROVE  Slot(k, Resolve(k, p)) \in D \cup P \cup {Slot(k, p)}
  <2>1. Resolve(h, p) # o /\ p # o
    BY <1>1, <1>3
  <2> QED
    BY <1>3, <2>1 DEF Traced
<1> QED
  BY <1>2, <1>3 DEF Traced

\* A store puts what the slot now refers to among the pending.
LEMMA TracedStore ==
  ASSUME NEW h, NEW k, NEW q, NEW P, NEW Q, NEW D, Traced(h, q, P, D), P \subseteq Q,
         NEW o \in Object, NEW x, x \in Object => x \in Q,
         Resolve(h, o) = o,
         \A p \in Object :
           /\ Resolve(h, p) \in Object /\ Resolve(k, p) = Resolve(h, p)
           /\ Slot(k, p) = IF p = o THEN x ELSE Slot(h, p)
           /\ k[p].gen = h[p].gen
           /\ k[p].marked <=> h[p].marked
  PROVE  Traced(k, q, Q, D)
<1>1. /\ \A p \in D : p \in Object /\ k[p].gen # "free"
      /\ \A p \in D : k[p].gen \in Tenured => k[p].marked
      /\ \A p \in D : Slot(k, p) \in Object => Slot(k, p) \in D \cup Q
      /\ \A p \in Object : k[p].marked => Resolve(k, p) \in D
      /\ q \subseteq D \cup Q
  BY DEF Traced
<1>2. ASSUME NEW p \in Object, Slot(k, Resolve(k, p)) \in Object
      PROVE  Slot(k, Resolve(k, p)) \in D \cup Q \cup {Slot(k, p)}
  <2>1. CASE Resolve(h, p) = o
    BY <1>2, <2>1
  <2>2. CASE Resolve(h, p) # o
    <3>1. p # o
      BY <2>2
    <3> QED
      BY <1>2, <2>2, <3>1 DEF Traced
  <2> QED
    BY <2>1, <2>2
<1> QED
  BY <1>1, <1>2 DEF Traced

\* What a trace sees of an array a that grows into b.
GrowsInto(h, k, a, b) ==
  \A p \in Object :
    /\ Resolve(h, p) \in Object
    /\ Resolve(h, p) = b => p = b
    /\ Resolve(k, p) = IF Resolve(h, p) = a THEN b ELSE Resolve(h, p)
    /\ p # b => Slot(k, p) = IF Slot(h, p) = a THEN b ELSE Slot(h, p)
    /\ p = b => Slot(k, p) = IF Slot(h, a) = a THEN b ELSE Slot(h, a)
    /\ k[p].gen = IF p = b THEN "eden" ELSE h[p].gen
    /\ k[p].marked <=> h[p].marked /\ p # a

\* An array that grows is visited when its stub was: b takes the place of a.
LEMMA TracedGrow ==
  ASSUME HeapAssumption, NEW h, NEW k, NEW q, NEW P, NEW Q, NEW D, Traced(h, q, P, D),
         NEW a \in Object, NEW b \in Object, a # b,
         h[a].gen \in Young, h[b].gen = "free", Resolve(h, b) = b, ~ h[b].marked,
         \A o \in q : h[o].gen \in Tenured,
         \A x \in P : (x = a => b \in Q) /\ (x # a => x \in Q),
         GrowsInto(h, k, a, b)
  PROVE  \E E : Traced(k, q, Q, E)
<1> USE DEF GrowsInto
<1> DEFINE E == {p \in Object : \/ p = b /\ a \in D
                                \/ p # a /\ p \in D}
           Ren(x) == IF x = a THEN b ELSE x
<1>1. b \notin D /\ D \subseteq Object /\ Nil \notin Object
  BY DEF Traced, HeapAssumption
<1>2. \A x \in D \cup P : Ren(x) \in E \cup Q
  BY <1>1
<1>3. \A o \in E : o \in Object /\ k[o].gen # "free"
  BY <1>1 DEF Traced
<1>4. \A o \in E : k[o].gen \in Tenured => k[o].marked
  BY <1>1 DEF Traced, Tenured
<1>5. \A o \in Object : k[o].marked => Resolve(k, o) \in E
  <2> SUFFICES ASSUME NEW o \in Object, k[o].marked PROVE Resolve(k, o) \in E
    OBVIOUS
  <2>1. Resolve(h, o) \in D
    BY DEF Traced
  <2> QED
    BY <1>1, <2>1
<1>6. ASSUME NEW o \in E, Slot(k, o) \in Object PROVE Slot(k, o) \in E \cup Q
  <2> DEFINE p == IF o = b THEN a ELSE o
  <2>1. p \in D /\ p \in Object /\ o \in Object
    BY <1>1
  <2>2. Slot(k, o) = Ren(Slot(h, p))
    BY <2>1
  <2>3. Slot(h, p) \in Object
    BY <1>6, <2>2
  <2>4. Slot(h, p) \in D \cup P
    BY <2>1, <2>3 DEF Traced
  <2> QED
    BY <1>2, <2>2, <2>4
<1>7. ASSUME NEW o \in Object, Slot(k, Resolve(k, o)) \in Object
      PROVE  Slot(k, Resolve(k, o)) \in E \cup Q \cup {Slot(k, o)}
  <2>1. CASE o = b
    BY <1>7, <2>1
  <2>2. CASE o # b
    <3> DEFINE x == Resolve(h, o)
    <3>1. x \in Object /\ x # b
      BY <2>2
    <3>2. Slot(k, Resolve(k, o)) = Ren(Slot(h, x)) /\ Slot(k, o) = Ren(Slot(h, o))
      BY <2>2, <3>1
    <3>3. Slot(h, x) \in Object
      BY <1>7, <3>2
    <3>4. Slot(h, x) \in D \cup P \cup {Slot(h, o)}
      BY <3>3 DEF Traced
    <3> QED
      BY <1>2, <3>2, <3>4
  <2> QED
    BY <2>1, <2>2
<1>8. q \subseteq E \cup Q
  <2> SUFFICES ASSUME NEW o \in q PROVE o \in E \cup Q
    OBVIOUS
  <2>1. o \in D \cup P /\ o # a
    BY DEF Traced, Young, Tenured
  <2> QED
    BY <1>2, <2>1
<1> HIDE DEF E
<1>9. Traced(k, q, Q, E)
  BY <1>3, <1>4, <1>5, <1>6, <1>7, <1>8 DEF Traced
<1> QED
  BY <1>9

\* k is the heap h with v marked.
Marks(h, k, v) ==
  \A o \in Object :
     /\ Resolve(h, o) \in Object /\ Resolve(k, o) = Resolve(h, o)
     /\ Resolve(h, Resolve(h, o)) = Resolve(h, o)
     /\ Slot(k, o) = Slot(h, o)
     /\ k[o].gen = h[o].gen
     /\ k[o].marked <=> h[o].marked \/ o = v

\* The trace visits v: what its slot refers to is pending.
LEMMA TracedMark ==
  ASSUME NEW h, NEW k, NEW q, NEW P, NEW Q, NEW D, Traced(h, q, P, D),
         NEW v \in Object, Resolve(h, v) = v \/ h[Resolve(h, v)].gen \notin Tenured,
         h[Resolve(h, v)].gen # "free",
         P \subseteq Q \cup {Resolve(h, v)},
         Slot(h, v) \in Object => Slot(h, v) \in Q,
         Marks(h, k, v)
  PROVE  Traced(k, q, Q, D \cup {Resolve(h, v)})
<1> DEFINE y == Resolve(h, v)
           E == D \cup {y}
<1>1. y \in Object /\ D \cup P \subseteq E \cup Q
  BY DEF Marks
<1>2. \A o \in E : o \in Object /\ k[o].gen # "free"
  BY <1>1 DEF Traced, Marks
<1>3. \A o \in E : k[o].gen \in Tenured => k[o].marked
  BY <1>1 DEF Traced, Marks
<1>4. \A o \in Object : k[o].marked => Resolve(k, o) \in E
  BY DEF Traced, Marks
<1>5. ASSUME NEW o \in E, Slot(k, o) \in Object PROVE Slot(k, o) \in E \cup Q
  <2>1. CASE o \in D
    BY <1>1, <1>5, <2>1 DEF Traced, Marks
  <2>2. CASE o = y
    <3>1. Slot(h, y) \in Object => Slot(h, y) \in D \cup P \cup {Slot(h, v)}
      BY DEF Traced, Marks
    <3> QED
      BY <1>1, <1>5, <2>2, <3>1 DEF Marks
  <2> QED
    BY <2>1, <2>2
<1>6. ASSUME NEW o \in Object, Slot(k, Resolve(k, o)) \in Object
      PROVE  Slot(k, Resolve(k, o)) \in E \cup Q \cup {Slot(k, o)}
  BY <1>1, <1>6 DEF Traced, Marks
<1>7. q \subseteq E \cup Q
  BY <1>1 DEF Traced, Marks
<1> HIDE DEF E
<1>8. Traced(k, q, Q, E)
  BY <1>2, <1>3, <1>4, <1>5, <1>6, <1>7 DEF Traced
<1> QED
  BY <1>8 DEF E

LEMMA StateFacts ==
  ASSUME HeapAssumption, IInv
  PROVE  /\ Sound(Memory) /\ Memory \in Memories
         /\ Memory.heap = heap /\ Memory.root = root
         /\ Memory.remset = remset /\ Memory.queue = queue
         /\ store = Nil => Remembered(Memory, {})
         /\ heap \in Heaps /\ Chains(heap) /\ Shape(heap)
         /\ root \in [Root -> Value] /\ \A r \in Root : Used(heap, root[r])
         /\ remset \subseteq In(heap, Tenured) /\ queue \subseteq In(heap, Tenured)
         /\ gray \subseteq Object
         /\ \A o \in Object :
              /\ Resolve(heap, o) \in Object
              /\ Resolve(heap, Resolve(heap, o)) = Resolve(heap, o)
              /\ Resolve(heap, o) = o \/ heap[Resolve(heap, o)].gen \in Young
              /\ heap[o].gen # "free" => heap[Resolve(heap, o)].gen # "free"
<1>1. /\ Sound(Memory) /\ Memory \in Memories
      /\ Memory.heap = heap /\ Memory.root = root
      /\ Memory.remset = remset /\ Memory.queue = queue
  BY MemoryIs DEF IInv, MemoryInv, Sound
<1>2. store = Nil => Remembered(Memory, {})
  BY DEF IInv, MemoryInv, Busy
<1>3. /\ heap \in Heaps /\ Chains(heap) /\ Shape(heap)
      /\ root \in [Root -> Value] /\ \A r \in Root : Used(heap, root[r])
      /\ remset \subseteq In(heap, Tenured) /\ queue \subseteq In(heap, Tenured)
  BY <1>1, MemoryFacts DEF Sound
<1>4. gray \subseteq Object
  BY DEF IInv, PhaseInv
<1>5. ASSUME NEW o \in Object
      PROVE  /\ Resolve(heap, o) \in Object
             /\ Resolve(heap, Resolve(heap, o)) = Resolve(heap, o)
             /\ Resolve(heap, o) = o \/ heap[Resolve(heap, o)].gen \in Young
             /\ heap[o].gen # "free" => heap[Resolve(heap, o)].gen # "free"
  <2>1. o \in Value
    BY DEF Value
  <2>2. Resolve(heap, Resolve(heap, o)) = Resolve(heap, o)
    BY <1>3, <2>1, ResolveFacts
  <2>3. /\ Resolve(heap, o) = o \/ Resolve(heap, o) \in In(heap, Young)
        /\ Resolve(heap, o) \in Object
        /\ Used(heap, o) => Used(heap, Resolve(heap, o))
    BY <1>3, <2>1, ResolveShape
  <2> QED
    BY <2>2, <2>3 DEF Used, In
<1> QED
  BY <1>1, <1>2, <1>3, <1>4, <1>5

\* The steps of FinalizesGarbage.
FinalStep ==
  /\ \A o \in queue' \ queue : o \notin Live /\ ~heap[o].finalized /\ heap'[o].finalized
  /\ \A o \in In(heap, Tenured) \cap Finalizable :
       heap'[o].gen = "free" => heap[o].finalized /\ o \notin queue

\* What a step of the program has to show.
LEMMA ProgramStep ==
  ASSUME HeapAssumption, IInv, UNCHANGED <<queue, phase, pc, running, majors>>,
         Sound(Memory'), Remembered(Memory', Busy'), StoreInv',
         gray' \subseteq {o \in Object : heap'[o].gen # "free"},
         pc # "trace" => gray' = {},
         \A o \in Object : /\ heap'[o].marked => heap[o].marked
                           /\ heap[o].gen \in Tenured => heap'[o].gen \in Tenured,
         pc = "trace" => TraceInv',
         pc = "sweep" => SweepInv'
  PROVE  IInv' /\ FinalStep
<1>1. MemoryInv' /\ PhaseInv'
  BY DEF IInv, MemoryInv, PhaseInv
<1>2. TraceInv' /\ SweepInv'
  BY DEF TraceInv, SweepInv
<1>3. CountInv'
  BY DEF IInv, CountInv
<1>4. FinalStep
  BY DEF FinalStep, In, Tenured
<1> QED
  BY <1>1, <1>2, <1>3, <1>4 DEF IInv

LEMMA PendingSame ==
  ASSUME NEW h, NEW k, NEW g, g \subseteq Object,
         \A o \in Object : Resolve(k, o) = Resolve(h, o)
  PROVE  Pending(k, g, Nil) = Pending(h, g, Nil)
<1>1. \A v \in g : Resolve(k, v) = Resolve(h, v)
  OBVIOUS
<1> QED
  BY <1>1 DEF Pending

LEMMA AllocateStep ==
  ASSUME HeapAssumption, IInv, store = Nil,
         NEW r \in Root, NEW gen \in {"eden", "los"}, gen = "eden" \/ pc = "idle",
         Allocate(r, gen)
  PROVE  IInv' /\ FinalStep
<1> DEFINE m == Memory
           n == Memory'
<1>1. PICK o \in Free :
         /\ heap' = [heap EXCEPT ![o] = [Blank EXCEPT !.gen = gen]]
         /\ root' = [root EXCEPT ![r] = o]
         /\ UNCHANGED <<remset, queue, phase, gray, pc, store, running, majors>>
  BY Zenon DEF Allocate
<1>2. o \in Object /\ heap[o].gen = "free"
  BY DEF Free
<1>3. n = Allocated(m, r, o, gen)
  BY <1>1, MemoryIs, Zenon DEF Allocated
<1>4. n.heap = heap' /\ n.root = root'
  BY MemoryIs
<1> HIDE DEF m, n
<1>5. AllocLeaves(m, gen, o, n)
  <2>1. Sound(m) /\ Remembered(m, {}) /\ m.heap[o].gen = "free"
    BY <1>2, StateFacts DEF m
  <2> QED
    BY <1>2, <1>3, <2>1, AllocFacts
<1>6. m.heap = heap /\ Sound(m)
  BY StateFacts DEF m
<1>7. \A p \in Object :
         /\ heap'[p].gen = IF p = o THEN gen ELSE heap[p].gen
         /\ heap'[p].marked = heap[p].marked
  BY <1>4, <1>5, <1>6 DEF AllocLeaves
<1>8. gray' \subseteq {p \in Object : heap'[p].gen # "free"}
  BY <1>1, <1>7 DEF IInv, PhaseInv
<1>9. ASSUME pc = "trace" PROVE TraceInv'
  <2>1. PICK D : Traced(heap, queue, Pending(heap, gray, store), D)
    BY <1>9 DEF IInv, TraceInv
  <2>2. \A p \in Object : Resolve(heap', p) = Resolve(heap, p)
    BY <1>4, <1>5, <1>6 DEF AllocLeaves, Value
  <2>3. Pending(heap', gray', store') = Pending(heap, gray, store)
    <3>1. Pending(heap', gray, Nil) = Pending(heap, gray, Nil)
      BY <2>2, StateFacts, PendingSame
    <3> QED
      BY <1>1, <3>1
  <2>4. Resolve(heap, o) = o
    BY <1>2, StateFacts, ResolveFacts DEF Shape, Blank, Forwards, Value
  <2>5. Traced(heap', queue, Pending(heap, gray, store), D)
    BY <1>2, <1>4, <1>5, <1>6, <2>1, <2>2, <2>4, StateFacts, TracedAlloc DEF AllocLeaves
  <2> QED
    BY <1>1, <2>3, <2>5 DEF TraceInv
<1>10. ASSUME pc = "sweep" PROVE SweepInv'
  <2>1. ReadyToSweep(m) /\ gen = "eden"
    BY <1>10 DEF IInv, SweepInv, m
  <2>2. In(n.heap, Tenured) = In(m.heap, Tenured)
    BY <1>2, <1>5, <1>6, <2>1 DEF AllocLeaves, In, Tenured
  <2>3. m.remset \cup m.queue \subseteq In(m.heap, Tenured)
    BY <1>6 DEF Sound
  <2>4. o \notin In(n.heap, Tenured)
    BY <1>5, <2>1 DEF AllocLeaves, In, Tenured
  <2>5. ReadyToSweep(n)
    BY <1>5, <2>1, <2>2, <2>3, <2>4, ReadyStays DEF AllocLeaves
  <2> QED
    BY <2>5 DEF SweepInv, n
<1>11. Sound(Memory') /\ Remembered(Memory', Busy') /\ StoreInv'
  BY <1>1, <1>5 DEF AllocLeaves, n, Busy, StoreInv
<1> QED
  BY <1>1, <1>2, <1>7, <1>8, <1>9, <1>10, <1>11, ProgramStep DEF IInv, PhaseInv, Tenured

\* A root takes a value the program can reach, or none.
LEMMA RootStep ==
  ASSUME HeapAssumption, IInv, store = Nil,
         NEW r \in Root, NEW v \in Value, Used(heap, v), Resolve(heap, v) # Lost,
         Resolve(heap, v) \in Object => Resolve(heap, v) \in Reach(heap, root),
         root' = [root EXCEPT ![r] = v],
         UNCHANGED <<heap, remset, queue, phase, gray, pc, store, running, majors>>
  PROVE  IInv' /\ FinalStep
<1> DEFINE m == Memory
           n == Memory'
<1>1. n = [heap |-> m.heap, root |-> [m.root EXCEPT ![r] = v],
           remset |-> m.remset, queue |-> m.queue]
  BY MemoryIs, Zenon
<1>2. /\ Sound(m) /\ Remembered(m, {}) /\ m.heap = heap /\ m.root = root
      /\ m.remset \cup m.queue \subseteq In(m.heap, Tenured)
  BY StateFacts
<1> HIDE DEF m, n
<1>3. /\ Sound(n) /\ Remembered(n, {})
      /\ n.heap = m.heap /\ n.remset = m.remset /\ n.queue = m.queue
      /\ Reach(n.heap, n.root) \subseteq Reach(m.heap, m.root)
  BY <1>1, <1>2, SetRootFacts
<1>4. Sound(Memory') /\ Remembered(Memory', Busy') /\ StoreInv'
  BY <1>3 DEF n, Busy, StoreInv
<1>5. ASSUME pc = "trace" PROVE TraceInv'
  BY <1>5 DEF IInv, TraceInv
<1>6. ASSUME pc = "sweep" PROVE SweepInv'
  <2>1. ReadyToSweep(m)
    BY <1>6 DEF IInv, SweepInv, m
  <2>2. ReadyToSweep(n)
    BY <1>2, <1>3, <2>1, ReadyStays
  <2> QED
    BY <2>2 DEF SweepInv, n
<1> QED
  BY <1>4, <1>5, <1>6, ProgramStep DEF IInv, PhaseInv

LEMMA DropStep ==
  ASSUME HeapAssumption, IInv, NEW r \in Root, Drop(r)
  PROVE  IInv' /\ FinalStep
<1>1. /\ store = Nil /\ root' = [root EXCEPT ![r] = Nil]
      /\ UNCHANGED <<heap, remset, queue, phase, gray, pc, store, running, majors>>
  BY DEF Drop
<1>2. /\ Nil \in Value /\ Nil \notin Object /\ Nil # Lost
  BY DEF Value, HeapAssumption
<1>3. Resolve(heap, Nil) = Nil /\ Used(heap, Nil)
  BY <1>2, StateFacts, ResolveFacts DEF Forwards, Used
<1> QED
  BY <1>1, <1>2, <1>3, RootStep

LEMMA LoadStep ==
  ASSUME HeapAssumption, IInv, NEW r \in Root, NEW q \in Root, Load(r, q)
  PROVE  IInv' /\ FinalStep
<1> DEFINE o == Resolve(heap, root[q])
           v == heap[o].slot
<1>1. /\ store = Nil /\ o \in Object
      /\ root' = [root EXCEPT ![r] = v]
      /\ UNCHANGED <<heap, remset, queue, phase, gray, pc, store, running, majors>>
  BY DEF Load, Target
<1>2. o \in Reach(heap, root)
  BY <1>1, ReachFacts
<1>3. v \in Value /\ Used(heap, v)
  BY <1>1, StateFacts, HeapsAt DEF Shape
<1>4. Resolve(heap, v) # Lost
  <2>1. Slot(heap, o) # Lost
    BY <1>2, StateFacts DEF Sound
  <2> QED
    BY <2>1 DEF Slot
<1>5. Resolve(heap, v) \in Object => Resolve(heap, v) \in Reach(heap, root)
  BY <1>2, ReachFacts DEF Slot
<1> HIDE DEF v, o
<1> QED
  BY <1>1, <1>3, <1>4, <1>5, RootStep

LEMMA StoreStep ==
  ASSUME HeapAssumption, IInv, NEW r \in Root, NEW q \in Root, Store(r, q)
  PROVE  IInv' /\ FinalStep
<1> DEFINE m == Memory
           n == Memory'
           o == Resolve(heap, root[r])
           v == root[q]
           x == Resolve(heap, v)
<1>1. /\ store = Nil /\ o \in Object
      /\ heap' = [heap EXCEPT ![o].slot = v]
      /\ store' = IF v \in Object THEN [object |-> o, value |-> v] ELSE Nil
      /\ UNCHANGED <<root, remset, queue, phase, gray, pc, running, majors>>
  BY Zenon DEF Store, Target
<1>2. /\ Sound(m) /\ Remembered(m, {}) /\ m.heap = heap /\ m.root = root
      /\ m.remset \cup m.queue \subseteq In(m.heap, Tenured)
      /\ n.heap = heap' /\ n.root = root'
      /\ o \in Value /\ v \in Value
  BY <1>1, StateFacts, MemoryIs DEF Value
<1>3. n = [heap |-> [m.heap EXCEPT ![o].slot = m.root[q]], root |-> m.root,
           remset |-> m.remset, queue |-> m.queue]
  BY <1>1, MemoryIs, Zenon
<1>4. o = Resolve(m.heap, m.root[r])
  BY <1>2
<1> HIDE DEF m, n, o
<1>5. StoreLeaves(m, q, o, n)
  BY <1>1, <1>2, <1>3, <1>4, SetSlotFacts
<1>6. /\ \A w \in Value : Resolve(heap', w) = Resolve(heap, w)
      /\ \A p \in Object : /\ Slot(heap', p) = IF p = o THEN x ELSE Slot(heap, p)
                           /\ heap'[p].gen = heap[p].gen
                           /\ heap'[p].marked = heap[p].marked
  BY <1>2, <1>5 DEF StoreLeaves
<1>7. StoreInv' /\ Remembered(n, Busy')
  <2>1. CASE v \in Object
    <3>1. /\ store' # Nil /\ store' \in [object : Object, value : Object]
          /\ store'.object = o /\ store'.value = v
      <4>1. store' = [object |-> o, value |-> v] /\ o \in Object
        BY <1>1, <2>1, Zenon
      <4> QED
        BY ONLY <2>1, <4>1, HeapAssumption DEF HeapAssumption
    <3>2. root' = root /\ o \in Object /\ root[r] \in Value
      BY <1>1, StateFacts
    <3>3. Resolve(heap', root'[r]) = store'.object
      BY ONLY <1>6, <3>1, <3>2 DEF o
    <3>4. root'[q] = store'.value
      BY ONLY <3>1, <3>2
    <3>5. Slot(heap', store'.object) = Resolve(heap', store'.value)
      BY ONLY <1>2, <1>6, <3>1, <3>2
    <3> QED
      BY <1>5, <3>1, <3>3, <3>4, <3>5 DEF StoreLeaves, StoreInv, Busy
  <2>2. CASE v \notin Object
    <3>1. store' = Nil
      BY <1>1, <2>2
    <3> QED
      BY <1>2, <1>5, <2>2, <3>1 DEF StoreLeaves, Busy, StoreInv
  <2> QED
    BY <2>1, <2>2
<1>8. /\ Pending(heap, gray, store) \subseteq Pending(heap', gray', store')
      /\ x \in Object => x \in Pending(heap', gray', store')
  <2>1. \A g \in gray : Resolve(heap', g) = Resolve(heap, g)
    BY <1>6, StateFacts DEF Value
  <2>2. Pending(heap, gray, store) = {Resolve(heap, g) : g \in gray}
    BY <1>1 DEF Pending
  <2>3. \A g \in gray : Resolve(heap', g) \in Pending(heap', gray', store')
    BY <1>1 DEF Pending
  <2>4. Pending(heap, gray, store) \subseteq Pending(heap', gray', store')
    BY <2>1, <2>2, <2>3
  <2>5. ASSUME x \in Object PROVE x \in Pending(heap', gray', store')
    <3>1. v \in Object
      BY <1>2, <2>5, StateFacts, ResolveShape
    <3>2. store' # Nil /\ store'.value = v
      BY <1>1, <3>1 DEF HeapAssumption
    <3>3. x = Resolve(heap', store'.value)
      BY <1>2, <1>6, <3>2
    <3> QED
      BY <3>2, <3>3 DEF Pending
  <2> QED
    BY <2>4, <2>5
<1>9. ASSUME pc = "trace" PROVE TraceInv'
  <2>1. PICK D : Traced(heap, queue, Pending(heap, gray, store), D)
    BY <1>9 DEF IInv, TraceInv
  <2>2. \A p \in Object : Resolve(heap', p) = Resolve(heap, p)
    BY <1>6 DEF Value
  <2>3. Resolve(heap, o) = o
    BY <1>2, StateFacts, ResolveFacts DEF o
  <2> HIDE DEF x
  <2>4. \A p \in Object :
          /\ Resolve(heap, p) \in Object /\ Resolve(heap', p) = Resolve(heap, p)
          /\ Slot(heap', p) = IF p = o THEN x ELSE Slot(heap, p)
          /\ heap'[p].gen = heap[p].gen
          /\ heap'[p].marked <=> heap[p].marked
    BY <1>6, <2>2, StateFacts
  <2>5. o \in Object /\ queue' = queue
    BY <1>1
  <2>6. Traced(heap', queue, Pending(heap', gray', store'), D)
    BY ONLY <1>8, <2>1, <2>3, <2>4, <2>5, TracedStore
  <2> QED
    BY <2>5, <2>6 DEF TraceInv
<1>10. ASSUME pc = "sweep" PROVE SweepInv'
  <2>1. ReadyToSweep(m)
    BY <1>10 DEF IInv, SweepInv, m
  <2>2. ReadyToSweep(n)
    BY <1>2, <1>5, <2>1, ReadyStays DEF StoreLeaves
  <2> QED
    BY <2>2 DEF SweepInv, n
<1>11. gray' \subseteq {p \in Object : heap'[p].gen # "free"}
  BY <1>1, <1>6 DEF IInv, PhaseInv
<1>12. Sound(Memory') /\ Remembered(Memory', Busy')
  BY <1>5, <1>7 DEF StoreLeaves, n
<1> QED
  BY <1>1, <1>6, <1>7, <1>9, <1>10, <1>11, <1>12, ProgramStep DEF IInv, PhaseInv

\* What the barrier of v stored into o leaves, d when it remembers o.
BarrierLeaves(o, v, d) ==
  /\ o \in Object /\ v \in Object
  /\ heap' \in Heaps
  /\ \A p \in Object : p # o => heap'[p] = heap[p]
  /\ heap'[o].gen = heap[o].gen /\ heap'[o].slot = heap[o].slot
  /\ heap'[o].forward = heap[o].forward
  /\ heap'[o].marked = heap[o].marked /\ heap'[o].finalized = heap[o].finalized
  /\ heap'[o].dirty <=> heap[o].dirty \/ d
  /\ remset' = remset \cup (IF d THEN {o} ELSE {})
  /\ gray' = IF phase = "mark" THEN gray \cup {v} ELSE gray
  /\ store # Nil /\ store' = Nil
  /\ UNCHANGED <<root, queue, phase, pc, running, majors>>

\* What a write barrier leaves.
LEMMA BarrierIs ==
  ASSUME HeapAssumption, IInv, Barrier,
         NEW o, o = store.object, NEW v, v = store.value,
         NEW d, d <=> heap[o].gen \in Tenured /\ heap[v].gen \in Young /\ ~ heap[o].dirty
  PROVE  BarrierLeaves(o, v, d)
<1> DEFINE x == heap[o]
           remember == x.gen \in Tenured /\ heap[v].gen \in Young /\ ~ x.dirty
           b == x.dirty \/ remember
           y == [x EXCEPT !.dirty = b]
<1>1. /\ store # Nil /\ store' = Nil
      /\ gray' = IF phase = "mark" THEN gray \cup {v} ELSE gray
      /\ remset' = IF remember THEN remset \cup {o} ELSE remset
      /\ UNCHANGED <<root, queue, phase, pc, running, majors>>
  BY Zenon DEF Barrier
<1>2. heap' = [heap EXCEPT ![o] = y]
  BY Zenon DEF Barrier
<1>3. o \in Object /\ v \in Object
  BY <1>1 DEF IInv, StoreInv
<1>4. heap \in Heaps /\ x \in Objects
  BY <1>3, StateFacts, HeapsAt
<1>5. x.dirty \in BOOLEAN /\ b \in BOOLEAN
  BY <1>4 DEF Objects
<1> HIDE DEF x, b
<1>6. /\ y \in Objects
      /\ y.gen = x.gen /\ y.slot = x.slot /\ y.forward = x.forward
      /\ y.marked = x.marked /\ y.finalized = x.finalized /\ y.dirty = b
  BY <1>4, <1>5, FlagFacts, FlagIs
<1> HIDE DEF y
<1>7. /\ heap' \in Heaps /\ heap'[o] = y
      /\ \A p \in Object : p # o => heap'[p] = heap[p]
  BY <1>2, <1>3, <1>4, <1>6 DEF Heaps
<1>8. d <=> remember
  BY DEF x
<1>9. remset' = remset \cup (IF d THEN {o} ELSE {})
  BY <1>1, <1>8
<1>10. y.dirty <=> x.dirty \/ d
  BY <1>5, <1>6, <1>8 DEF b
<1> HIDE DEF remember
<1> QED
  BY <1>1, <1>3, <1>6, <1>7, <1>9, <1>10 DEF x, BarrierLeaves

LEMMA BarrierStep ==
  ASSUME HeapAssumption, IInv, Barrier
  PROVE  IInv' /\ FinalStep
<1> DEFINE m == Memory
           n == Memory'
           o == store.object
           v == store.value
           d == heap[o].gen \in Tenured /\ heap[v].gen \in Young /\ ~ heap[o].dirty
<1>1. /\ o \in Object /\ v \in Object
      /\ heap' \in Heaps
      /\ \A p \in Object : p # o => heap'[p] = heap[p]
      /\ heap'[o].gen = heap[o].gen /\ heap'[o].slot = heap[o].slot
      /\ heap'[o].forward = heap[o].forward
      /\ heap'[o].marked = heap[o].marked /\ heap'[o].finalized = heap[o].finalized
      /\ heap'[o].dirty <=> heap[o].dirty \/ d
      /\ remset' = remset \cup (IF d THEN {o} ELSE {})
      /\ gray' = IF phase = "mark" THEN gray \cup {v} ELSE gray
      /\ store # Nil /\ store' = Nil
      /\ UNCHANGED <<root, queue, phase, pc, running, majors>>
  <2> HIDE DEF d
  <2>1. BarrierLeaves(o, v, d)
    BY BarrierIs, Zenon DEF d
  <2> QED
    BY ONLY <2>1 DEF BarrierLeaves
<1>2. /\ Sound(m) /\ m \in Memories /\ Remembered(m, {o})
      /\ m.heap = heap /\ m.root = root /\ m.remset = remset /\ m.queue = queue
      /\ n.heap = heap' /\ n.root = root' /\ n.remset = remset' /\ n.queue = queue'
      /\ Slot(heap, o) = Resolve(heap, v)
      /\ o \in Reach(heap, root)
  <2>1. Remembered(m, {o}) /\ Slot(heap, o) = Resolve(heap, v)
    BY <1>1 DEF IInv, MemoryInv, StoreInv, Busy
  <2>2. PICK r \in Root : Resolve(heap, root[r]) = o
    BY <1>1 DEF IInv, StoreInv
  <2>3. o \in Reach(heap, root)
    BY <1>1, <2>2, ReachFacts
  <2> QED
    BY <2>1, <2>3, StateFacts, MemoryIs
<1>3. heap \in Heaps /\ Chains(heap) /\ Shape(heap) /\ heap[o].gen # "free"
  BY <1>2, StateFacts, ReachUsed
<1> HIDE DEF m, n, o, v, d
<1>4. /\ \A p \in Object :
           /\ heap'[p].gen = heap[p].gen /\ heap'[p].forward = heap[p].forward
           /\ heap'[p].slot = heap[p].slot
           /\ heap'[p].marked = heap[p].marked /\ heap'[p].finalized = heap[p].finalized
           /\ heap'[p].dirty <=> heap[p].dirty \/ (p = o /\ d)
      /\ Touched(heap, heap')
  <2>1. \A p \in Object :
           /\ heap'[p].gen = heap[p].gen /\ heap'[p].forward = heap[p].forward
           /\ heap'[p].slot = heap[p].slot
           /\ heap'[p].marked = heap[p].marked /\ heap'[p].finalized = heap[p].finalized
           /\ heap'[p].dirty <=> heap[p].dirty \/ (p = o /\ d)
    BY <1>1
  <2>2. \A p \in Object : heap[p].gen = "free" => heap'[p] = Blank
    BY <1>1, <1>3 DEF Shape
  <2> QED
    BY <1>1, <2>1, <2>2 DEF Touched
<1>5. o \in In(heap, Tenured) \/ ~ d
  BY <1>1 DEF d, In
<1>6. n \in Memories
  <2>1. n = [heap |-> heap', root |-> m.root, remset |-> remset', queue |-> m.queue]
    BY <1>1, <1>2, MemoryIs DEF n
  <2>2. remset' \subseteq Object
    BY <1>1, <1>2, MemoryFacts
  <2> QED
    BY <1>1, <1>2, <2>1, <2>2, MemoryFacts DEF Memories
<1>7. /\ Sound(n) /\ SameView(m, n)
      /\ \A g : In(n.heap, g) = In(m.heap, g)
      /\ \A w \in Value : Resolve(n.heap, w) = Resolve(m.heap, w)
  <2>1. Touched(m.heap, n.heap)
    BY <1>2, <1>4
  <2>2. \A r \in Root : n.root[r] \in {m.root[r], Resolve(m.heap, m.root[r])}
    BY <1>1, <1>2
  <2>3. n.remset \subseteq In(m.heap, Tenured)
    BY <1>1, <1>2, <1>5 DEF Sound
  <2>4. n.queue \subseteq In(m.heap, Tenured) \cap Finalizable
    BY <1>1, <1>2 DEF Sound
  <2>5. \A p \in n.queue : n.heap[p].finalized
    <3>1. \A p \in queue : p \in Object /\ heap[p].finalized
      BY <1>2, MemoryFacts DEF Sound
    <3> QED
      BY <1>1, <1>2, <1>4, <3>1
  <2>6. \A p \in Object : n.heap[p].dirty <=> p \in n.remset
    BY <1>1, <1>2, <1>4 DEF Sound
  <2> QED
    BY <1>2, <1>6, <2>1, <2>2, <2>3, <2>4, <2>5, <2>6, MarkingKeeps
<1>8. Remembered(n, {})
  <2> SUFFICES ASSUME NEW p \in Reach(n.heap, n.root),
                      n.heap[p].gen = "old", n.heap[p].slot \in In(n.heap, Young)
               PROVE  p \in n.remset
    BY DEF Remembered
  <2>1. p \in Object /\ p \in Reach(m.heap, m.root)
    BY <1>7, ReachFacts DEF SameView
  <2>2. heap[p].gen = "old" /\ heap[p].slot \in In(heap, Young)
    BY <1>2, <1>4, <1>7, <2>1
  <2>3. CASE p # o
    <3>1. p \in remset
      BY <1>2, <2>1, <2>2, <2>3 DEF Remembered
    <3> QED
      BY <1>1, <1>2, <3>1
  <2>4. CASE p = o
    <3>1. Resolve(heap, v) \in In(heap, Young)
      BY <1>2, <2>1, <2>2, <2>4, SlotYoung
    <3>2. v \in In(heap, Young)
      BY <1>1, <1>3, <3>1, ResolveShape DEF Value
    <3>3. heap[o].dirty \/ d
      BY <2>2, <2>4, <3>2 DEF d, In, Tenured
    <3>4. n.heap[o].dirty
      BY <1>1, <1>2, <3>3
    <3> QED
      BY <1>1, <1>7, <2>4, <3>4 DEF Sound
  <2> QED
    BY <2>3, <2>4
<1>9. \A p \in Object : /\ Resolve(heap', p) = Resolve(heap, p)
                        /\ Slot(heap', p) = Slot(heap, p)
  BY <1>2, <1>7 DEF SameView, Value
<1>10. ASSUME pc = "trace" PROVE TraceInv'
  <2>1. PICK D : Traced(heap, queue, Pending(heap, gray, store), D)
    BY <1>10 DEF IInv, TraceInv
  <2>2. gray' = gray \cup {v}
    BY <1>1, <1>10 DEF IInv, PhaseInv
  <2>3. Pending(heap, gray, store) \subseteq Pending(heap', gray', store')
    <3>1. Pending(heap, gray, store) = {Resolve(heap, g) : g \in gray \cup {v}}
      BY <1>1 DEF Pending, v
    <3>2. Pending(heap', gray', store') = {Resolve(heap', g) : g \in gray \cup {v}}
      BY <1>1, <2>2 DEF Pending
    <3>3. \A g \in gray \cup {v} : Resolve(heap', g) = Resolve(heap, g)
      BY <1>1, <1>9, StateFacts
    <3> QED
      BY <3>1, <3>2, <3>3
  <2>4. \A p \in Object :
          /\ Resolve(heap, p) \in Object /\ Resolve(heap', p) = Resolve(heap, p)
          /\ Slot(heap', p) = Slot(heap, p)
          /\ heap'[p].gen = heap[p].gen
          /\ heap'[p].marked <=> heap[p].marked
    BY <1>4, <1>9, StateFacts
  <2>5. Pending(heap, gray, store) \subseteq D \cup Pending(heap', gray', store')
    BY <2>3
  <2>6. Traced(heap', queue, Pending(heap', gray', store'), D)
    BY ONLY <2>1, <2>4, <2>5, TracedStays
  <2> QED
    BY <1>1, <2>6 DEF TraceInv
<1>11. ASSUME pc = "sweep" PROVE SweepInv'
  <2>1. ReadyToSweep(m)
    BY <1>11 DEF IInv, SweepInv, m
  <2>2. Reach(n.heap, n.root) = Reach(m.heap, m.root)
    BY <1>7 DEF SameView
  <2>3. n.remset \cup n.queue \subseteq m.remset \cup m.queue
                                  \cup (Reach(m.heap, m.root) \cap In(m.heap, Tenured))
    BY <1>1, <1>2, <1>5
  <2>4. m.remset \cup m.queue \subseteq In(m.heap, Tenured)
    BY <1>2 DEF Sound
  <2>5. ReadyToSweep(n)
    BY <1>2, <1>4, <1>7, <2>1, <2>2, <2>3, <2>4, ReadyStays
  <2> QED
    BY <2>5 DEF SweepInv, n
<1>12. /\ gray' \subseteq {p \in Object : heap'[p].gen # "free"}
       /\ pc # "trace" => gray' = {}
  <2>1. heap[v].gen # "free"
    <3>1. PICK q \in Root : root[q] = v
      BY <1>1 DEF IInv, StoreInv, v
    <3> QED
      BY <1>1, <3>1, StateFacts DEF Used
  <2> QED
    BY <1>1, <1>4, <2>1 DEF IInv, PhaseInv
<1>13. Sound(Memory') /\ Remembered(Memory', Busy') /\ StoreInv'
  BY <1>1, <1>7, <1>8 DEF n, Busy, StoreInv
<1> QED
  BY <1>1, <1>4, <1>10, <1>11, <1>12, <1>13, ProgramStep

LEMMA GrowStep ==
  ASSUME HeapAssumption, GrowFrom \subseteq Young, IInv, NEW r \in Root, Grow(r)
  PROVE  IInv' /\ FinalStep
<1> DEFINE m == Memory
           n == Memory'
           a == Resolve(heap, root[r])
<1>1. PICK b \in Free :
         /\ heap' = Grown(heap, a, b)
         /\ root' = [root EXCEPT ![r] = b]
  BY Zenon DEF Grow, Target, Grown
<1>2. /\ store = Nil /\ a \in In(heap, GrowFrom)
      /\ UNCHANGED <<remset, queue, phase, gray, pc, store, running, majors>>
  BY Zenon DEF Grow, Target
<1>3. /\ b \in Object /\ heap[b].gen = "free"
      /\ a \in Object /\ a \in In(heap, Young) /\ a # b /\ heap[a].gen \in Young
  BY <1>2 DEF Free, In, Young
<1>4. /\ m \in Memories /\ Sound(m) /\ Remembered(m, {})
      /\ m.heap = heap /\ m.root = root /\ m.remset = remset /\ m.queue = queue
      /\ n.heap = heap' /\ n.root = root' /\ n.remset = remset' /\ n.queue = queue'
  BY <1>2, StateFacts, MemoryIs
<1>5. n = [heap |-> Grown(m.heap, a, b), root |-> [m.root EXCEPT ![r] = b],
           remset |-> m.remset, queue |-> m.queue]
  BY <1>1, <1>2, MemoryIs, Zenon
<1>6. a = Resolve(m.heap, m.root[r]) /\ a \in In(m.heap, Young) /\ m.heap[b].gen = "free"
  BY <1>3, <1>4
<1> HIDE DEF m, n, a
<1>7. GrowLeaves(m, r, a, b, n)
  BY <1>3, <1>4, <1>5, GrowIs
<1>8. GrowView(m, a, b, n) /\ n.remset = m.remset /\ n.queue = m.queue
  BY <1>3, <1>4, <1>6, <1>7, GrowFacts DEF GrowLeaves
<1>9. /\ Sound(n) /\ Remembered(n, {})
      /\ b \notin Reach(heap, root)
      /\ Reach(heap', root') \subseteq (Reach(heap, root) \ {a}) \cup {b}
      /\ \A w \in Value :
           Resolve(heap', w) = IF Resolve(heap, w) = a THEN b ELSE Resolve(heap, w)
      /\ \A p \in Object :
           /\ p # b => Slot(heap', p) = IF Slot(heap, p) = a THEN b ELSE Slot(heap, p)
           /\ p = b => Slot(heap', p) = IF Slot(heap, a) = a THEN b ELSE Slot(heap, a)
           /\ heap'[p].gen = IF p = b THEN "eden" ELSE heap[p].gen
           /\ heap'[p].marked <=> heap[p].marked /\ p # a
           /\ heap'[p].finalized = heap[p].finalized
  BY <1>4, <1>8 DEF GrowView
<1>10. /\ \A o \in Object : /\ heap'[o].marked => heap[o].marked
                            /\ heap[o].gen \in Tenured => heap'[o].gen \in Tenured
       /\ gray' \subseteq {o \in Object : heap'[o].gen # "free"}
  <2>1. \A o \in Object : /\ heap'[o].marked => heap[o].marked
                          /\ heap[o].gen # "free" => heap'[o].gen = heap[o].gen
    BY <1>3, <1>9
  <2>2. gray \subseteq {o \in Object : heap[o].gen # "free"}
    BY DEF IInv, PhaseInv
  <2> QED
    BY <1>2, <2>1, <2>2 DEF Tenured
<1>11. ASSUME pc = "trace" PROVE TraceInv'
  <2> DEFINE P == Pending(heap, gray, Nil)
             Q == Pending(heap', gray, Nil)
  <2>1. PICK D : Traced(heap, queue, P, D)
    BY <1>2, <1>11 DEF IInv, TraceInv
  <2>2. heap[b] = Blank /\ b \in Value
    BY <1>3, StateFacts DEF Shape, Value
  <2>3. Resolve(heap, b) = b /\ ~ heap[b].marked
    BY <2>2, StateFacts, ResolveFacts DEF Forwards, Blank
  <2>4. \A o \in queue : heap[o].gen \in Tenured
    BY StateFacts DEF In
  <2>5. \A x \in P : (x = a => b \in Q) /\ (x # a => x \in Q)
    <3> SUFFICES ASSUME NEW x \in P PROVE (x = a => b \in Q) /\ (x # a => x \in Q)
      OBVIOUS
    <3>1. PICK g \in gray : x = Resolve(heap, g)
      BY DEF Pending
    <3>2. g \in Value
      BY StateFacts DEF Value
    <3>3. Resolve(heap', g) \in Q
      BY DEF Pending
    <3> QED
      BY <1>9, <3>1, <3>2, <3>3
  <2>6. \A p \in Object : Resolve(heap, p) = b => p = b
    BY <1>3, StateFacts DEF Young
  <2>7. GrowsInto(heap, heap', a, b)
    BY <1>9, <2>6, StateFacts DEF GrowsInto, Value
  <2> HIDE DEF P, Q
  <2>8. \E E : Traced(heap', queue, Q, E)
    BY ONLY HeapAssumption, <1>3, <2>1, <2>3, <2>4, <2>5, <2>7, TracedGrow
  <2> QED
    BY <1>2, <2>8 DEF TraceInv, Q
<1>12. ASSUME pc = "sweep" PROVE SweepInv'
  <2>1. ReadyToSweep(m)
    BY <1>12 DEF IInv, SweepInv, m
  <2>2. In(heap', Tenured) = In(heap, Tenured) /\ b \notin In(heap', Tenured)
    BY <1>3, <1>9 DEF In, Tenured
  <2>3. m.remset \cup m.queue \subseteq In(m.heap, Tenured)
    BY <1>4 DEF Sound
  <2>4. \A o \in Object : m.heap[o].marked /\ o \notin In(m.heap, Young) => n.heap[o].marked
    BY <1>3, <1>4, <1>9
  <2>5. Reach(n.heap, n.root) \cap In(n.heap, Tenured)
           \subseteq Reach(m.heap, m.root) \cap In(m.heap, Tenured)
    BY <1>4, <1>9, <2>2
  <2>6. ReadyToSweep(n)
    BY <1>4, <1>8, <1>9, <2>1, <2>2, <2>3, <2>4, <2>5, ReadyStays
  <2> QED
    BY <2>6 DEF SweepInv, n
<1>13. Sound(Memory') /\ Remembered(Memory', Busy') /\ StoreInv'
  BY <1>2, <1>9 DEF n, Busy, StoreInv
<1> QED
  BY <1>2, <1>10, <1>11, <1>12, <1>13, ProgramStep DEF IInv, PhaseInv

\* The heap after the trace has visited v.
Visited(h, v) == [h EXCEPT ![v].marked = TRUE, ![v].slot = Slot(h, v)]

LEMMA VisitIs ==
  ASSUME NEW h \in Heaps, NEW v \in Object, Slot(h, v) \in Value, NEW k, k = Visited(h, v)
  PROVE  /\ k \in Heaps
         /\ \A p \in Object \ {v} : k[p] = h[p]
         /\ k[v].gen = h[v].gen /\ k[v].forward = h[v].forward /\ k[v].slot = Slot(h, v)
         /\ k[v].dirty = h[v].dirty /\ k[v].finalized = h[v].finalized /\ k[v].marked
<1> DEFINE yes == TRUE
           s == Slot(h, v)
           x == h[v]
           y == [x EXCEPT !.marked = yes]
           e == [h EXCEPT ![v] = y]
           w == e[v]
           z == [w EXCEPT !.slot = s]
           f == [e EXCEPT ![v] = z]
<1>1. k = f
  BY Zenon DEF Visited
<1>2. x \in Objects /\ yes \in BOOLEAN
  BY HeapsAt
<1> HIDE DEF x, yes, s
<1>3. /\ y \in Objects
      /\ y.gen = x.gen /\ y.slot = x.slot /\ y.forward = x.forward
      /\ y.marked = yes /\ y.finalized = x.finalized /\ y.dirty = x.dirty
  BY <1>2, FlagFacts, FlagIs
<1> HIDE DEF y
<1>4. e \in Heaps /\ w = y /\ \A p \in Object \ {v} : e[p] = h[p]
  BY <1>3 DEF Heaps
<1> HIDE DEF e, w
<1>5. /\ z \in Objects /\ z.gen = w.gen /\ z.slot = s /\ z.forward = w.forward
      /\ z.marked = w.marked /\ z.finalized = w.finalized /\ z.dirty = w.dirty
  BY <1>3, <1>4 DEF Objects, s
<1> HIDE DEF z
<1>6. f \in Heaps /\ f[v] = z /\ \A p \in Object \ {v} : f[p] = e[p]
  BY <1>4, <1>5 DEF Heaps
<1> HIDE DEF f
<1>7. /\ f[v].gen = x.gen /\ f[v].forward = x.forward /\ f[v].slot = s
      /\ f[v].dirty = x.dirty /\ f[v].finalized = x.finalized /\ f[v].marked = yes
  BY <1>3, <1>4, <1>5, <1>6
<1> QED
  BY <1>1, <1>4, <1>6, <1>7 DEF x, yes, s

LEMMA VisitStep ==
  ASSUME HeapAssumption, IInv, pc = "trace", NEW v \in gray, ~ heap[v].marked,
         heap' = Visited(heap, v),
         gray' = (gray \ {v}) \cup ({Slot(heap, v)} \cap Object),
         UNCHANGED <<root, remset, queue, phase, pc, store, running, majors>>
  PROVE  IInv'
<1> DEFINE m == Memory
           n == Memory'
           h == heap
           k == heap'
           s == Slot(h, v)
<1>1. /\ m \in Memories /\ Sound(m) /\ Remembered(m, Busy)
      /\ m.heap = h /\ m.root = root /\ m.remset = remset /\ m.queue = queue
      /\ n.heap = k /\ n.root = root' /\ n.remset = remset' /\ n.queue = queue'
      /\ h \in Heaps /\ Chains(h) /\ Shape(h) /\ v \in Object /\ h[v].gen # "free"
  BY StateFacts, MemoryIs DEF IInv, MemoryInv, PhaseInv
<1>2. s \in Value /\ Resolve(h, s) = s /\ Used(h, s)
  BY <1>1, SlotFacts, HeapsAt, ResolveShape DEF Slot, Shape
<1>3. /\ k \in Heaps
      /\ \A p \in Object \ {v} : k[p] = h[p]
      /\ k[v].gen = h[v].gen /\ k[v].forward = h[v].forward /\ k[v].slot = s
      /\ k[v].dirty = h[v].dirty /\ k[v].finalized = h[v].finalized /\ k[v].marked
  BY <1>1, <1>2, VisitIs
<1> HIDE DEF m, n, h, k, s
<1>4. \A p \in Object :
        /\ k[p].gen = h[p].gen /\ k[p].forward = h[p].forward
        /\ k[p].slot \in {h[p].slot, Slot(h, p)}
        /\ k[p].dirty = h[p].dirty /\ k[p].finalized = h[p].finalized
        /\ k[p].marked <=> h[p].marked \/ p = v
  BY <1>3 DEF s
<1>5. Touched(h, k)
  <2>1. \A p \in Object : h[p].gen = "free" => k[p] = Blank
    BY <1>1, <1>3 DEF Shape
  <2> QED
    BY <1>3, <1>4, <2>1 DEF Touched
<1>6. n \in Memories
  <2>1. n = [heap |-> k, root |-> m.root, remset |-> m.remset, queue |-> m.queue]
    BY <1>1, MemoryIs DEF n, k
  <2> QED
    BY <1>1, <1>3, <2>1, MemoryFacts DEF Memories
<1>7. /\ Sound(n) /\ SameView(m, n)
      /\ \A g : In(k, g) = In(h, g)
      /\ \A w \in Value : Resolve(k, w) = Resolve(h, w)
  <2>1. /\ Touched(m.heap, n.heap)
        /\ \A r \in Root : n.root[r] \in {m.root[r], Resolve(m.heap, m.root[r])}
    BY <1>1, <1>5
  <2>2. /\ n.remset \subseteq In(m.heap, Tenured)
        /\ n.queue \subseteq In(m.heap, Tenured) \cap Finalizable
    BY <1>1 DEF Sound
  <2>3. \A p \in n.queue : n.heap[p].finalized
    <3>1. \A p \in queue : p \in Object /\ h[p].finalized
      BY <1>1, MemoryFacts DEF Sound
    <3> QED
      BY <1>1, <1>4, <3>1
  <2>4. \A p \in Object : n.heap[p].dirty <=> p \in n.remset
    BY <1>1, <1>4 DEF Sound
  <2>5. /\ Sound(n) /\ SameView(m, n)
        /\ \A g : In(n.heap, g) = In(m.heap, g)
        /\ \A w \in Value : Resolve(n.heap, w) = Resolve(m.heap, w)
    BY <1>1, <1>6, <2>1, <2>2, <2>3, <2>4, MarkingKeeps
  <2> QED
    BY <1>1, <2>5
<1>8. Remembered(n, Busy)
  <2> SUFFICES ASSUME NEW p \in Reach(k, root) \ Busy,
                      k[p].gen = "old", k[p].slot \in In(k, Young)
               PROVE  p \in remset
    BY <1>1 DEF Remembered
  <2>1. p \in Object /\ p \in Reach(h, root)
    BY <1>1, <1>7, ReachFacts DEF SameView
  <2>2. h[p].gen = "old" /\ h[p].slot \in In(h, Young)
    BY <1>1, <1>4, <1>7, <2>1, SlotYoung
  <2> QED
    BY <1>1, <2>1, <2>2 DEF Remembered
<1>9. \A p \in Object : /\ Resolve(k, p) = Resolve(h, p)
                        /\ Slot(k, p) = Slot(h, p)
  BY <1>1, <1>7 DEF SameView, Value
<1>10. MemoryInv'
  BY <1>7, <1>8 DEF n, MemoryInv, Busy
<1>11. StoreInv'
  <2> SUFFICES ASSUME store # Nil PROVE StoreInv'
    BY DEF StoreInv
  <2>1. /\ store \in [object : Object, value : Object]
        /\ \E r \in Root : Resolve(h, root[r]) = store.object
        /\ \E q \in Root : root[q] = store.value
        /\ Slot(h, store.object) = Resolve(h, store.value)
    BY DEF IInv, StoreInv, h
  <2>2. store.object \in Object /\ store.value \in Object
    BY <2>1
  <2>3. Slot(k, store.object) = Resolve(k, store.value)
    BY <1>9, <2>1, <2>2
  <2>4. \E r \in Root : Resolve(k, root[r]) = store.object
    BY <1>7, <2>1, StateFacts
  <2> QED
    BY <2>1, <2>3, <2>4 DEF StoreInv, k
<1>12. PhaseInv'
  <2>1. gray' \subseteq {p \in Object : k[p].gen # "free"}
    BY <1>1, <1>2, <1>4 DEF IInv, PhaseInv, Used, h, s
  <2> QED
    BY <2>1 DEF IInv, PhaseInv, k
<1>13. TraceInv'
  <2> DEFINE P == Pending(heap, gray, store)
             Q == Pending(heap', gray', store')
             y == Resolve(h, v)
  <2>1. PICK D : Traced(h, queue, P, D)
    BY DEF IInv, TraceInv, h
  <2>2. /\ y = v \/ h[y].gen \notin Tenured
        /\ h[y].gen # "free"
    BY <1>1, StateFacts DEF h, Young, Tenured
  <2>3. P \subseteq Q \cup {y}
    <3> SUFFICES ASSUME NEW x \in P, x # y PROVE x \in Q
      OBVIOUS
    <3>1. CASE \E g \in gray : x = Resolve(h, g)
      <4>1. PICK g \in gray : x = Resolve(h, g)
        BY <3>1
      <4>2. g \in gray' /\ g \in Object
        BY <4>1, StateFacts
      <4> QED
        BY <1>9, <4>1, <4>2 DEF Pending, k
    <3>2. CASE store # Nil /\ x = Resolve(h, store.value)
      <4>1. store.value \in Object
        BY <3>2 DEF IInv, StoreInv
      <4> QED
        BY <1>9, <3>2, <4>1 DEF Pending, k
    <3> QED
      BY <3>1, <3>2 DEF Pending, h
  <2>4. ASSUME s \in Object PROVE s \in Q
    <3>1. s \in gray' /\ Resolve(k, s) = s
      BY <1>2, <1>9, <2>4 DEF s, h
    <3> QED
      BY <3>1 DEF Pending, k
  <2>5. Marks(h, k, v)
    BY <1>4, <1>9, StateFacts DEF h, Marks
  <2> HIDE DEF P, Q
  <2>6. Traced(k, queue, Q, D \cup {Resolve(h, v)})
    BY ONLY <1>1, <2>1, <2>2, <2>3, <2>4, <2>5, TracedMark DEF s, y
  <2> QED
    BY <2>6 DEF TraceInv, Q, k
<1>14. SweepInv' /\ CountInv'
  BY DEF IInv, SweepInv, CountInv
<1> QED
  BY <1>10, <1>11, <1>12, <1>13, <1>14 DEF IInv

LEMMA TraceOneStep ==
  ASSUME HeapAssumption, IInv, TraceOne
  PROVE  IInv' /\ FinalStep
<1>1. /\ pc = "trace"
      /\ UNCHANGED <<root, remset, queue, phase, pc, store, running, majors>>
  BY Zenon DEF TraceOne
<1>2. PICK v \in gray :
        IF heap[v].marked THEN gray' = gray \ {v} /\ UNCHANGED heap
        ELSE /\ heap' = Visited(heap, v)
             /\ gray' = (gray \ {v}) \cup ({Slot(heap, v)} \cap Object)
  BY Zenon DEF TraceOne, Visited
<1>3. CASE heap[v].marked
  <2>1. gray' = gray \ {v} /\ heap' = heap
    BY <1>2, <1>3
  <2>2. MemoryInv' /\ StoreInv' /\ PhaseInv' /\ SweepInv' /\ CountInv'
    BY <1>1, <2>1, MemoryIs DEF IInv, MemoryInv, StoreInv, PhaseInv, SweepInv, CountInv, Busy, Memory
  <2>3. TraceInv'
    <3> DEFINE P == Pending(heap, gray, store)
               Q == Pending(heap', gray', store')
    <3>1. PICK D : Traced(heap, queue, P, D)
      BY <1>1 DEF IInv, TraceInv
    <3>2. Resolve(heap, v) \in D
      BY <1>3, <3>1, StateFacts DEF Traced
    <3>3. P \subseteq D \cup Q
      BY <1>1, <2>1, <3>2 DEF Pending
    <3> HIDE DEF P, Q
    <3>4. Traced(heap, queue, Q, D)
      BY <3>1, <3>3, StateFacts, TracedStays
    <3> QED
      BY <1>1, <2>1, <3>4 DEF TraceInv, Q
  <2>4. FinalStep
    BY <1>1, <2>1 DEF FinalStep, In, Tenured
  <2> QED
    BY <2>2, <2>3, <2>4 DEF IInv
<1>4. CASE ~ heap[v].marked
  <2>1. /\ heap' = Visited(heap, v)
        /\ gray' = (gray \ {v}) \cup ({Slot(heap, v)} \cap Object)
    BY <1>2, <1>4
  <2>2. IInv'
    BY <1>1, <1>4, <2>1, VisitStep
  <2>3. v \in Object /\ heap \in Heaps /\ Slot(heap, v) \in Value
    BY StateFacts, SlotFacts
  <2>4. \A o \in Object : heap'[o].gen = heap[o].gen
    BY <2>1, <2>3, VisitIs
  <2>5. FinalStep
    BY <1>1, <2>4 DEF FinalStep, In, Tenured
  <2> QED
    BY <2>2, <2>5
<1> QED
  BY <1>3, <1>4

LEMMA BecomeIs ==
  ASSUME NEW n, Sound(n), Become(n)
  PROVE  /\ Memory' = n
         /\ heap' = n.heap /\ root' = n.root /\ remset' = n.remset /\ queue' = n.queue
<1>1. n = [heap |-> n.heap, root |-> n.root, remset |-> n.remset, queue |-> n.queue]
  BY MemoryFacts DEF Sound
<1>2. heap' = n.heap /\ root' = n.root /\ remset' = n.remset /\ queue' = n.queue
  BY DEF Become
<1> QED
  BY <1>1, <1>2, MemoryIs

\* What the remark at the end of the trace leaves.
LEMMA RemarkAtEnd ==
  ASSUME HeapAssumption, IInv, pc = "trace", gray = {}, store = Nil,
         NEW n, n = Remark(Memory, {})
  PROVE  /\ Sound(n) /\ Remembered(n, {}) /\ ReadyToSweep(n) /\ SameView(Memory, n)
         /\ \A g : In(n.heap, g) = In(heap, g)
         /\ \A o \in n.queue \ queue :
              o \notin Reach(heap, root) /\ ~ heap[o].finalized
<1> DEFINE m == Memory
<1>1. /\ Sound(m) /\ Remembered(m, {})
      /\ m.heap = heap /\ m.root = root /\ m.remset = remset /\ m.queue = queue
  BY StateFacts
<1>2. PICK D : Traced(heap, queue, Pending(heap, gray, store), D)
  BY DEF IInv, TraceInv
<1>3. Pending(heap, gray, store) = {}
  BY DEF Pending
<1>4. /\ \A o \in D : Slot(m.heap, o) \in Object => Slot(m.heap, o) \in D
      /\ \A o \in D \cap In(m.heap, Tenured) : m.heap[o].marked
      /\ \A o \in Object : m.heap[o].marked => Resolve(m.heap, o) \in D
      /\ m.queue \subseteq D
  BY <1>1, <1>2, <1>3 DEF Traced, In
<1>5. n = Remark(m, {})
  OBVIOUS
<1> HIDE DEF m
<1>6. /\ Sound(n) /\ Remembered(n, {}) /\ ReadyToSweep(n) /\ SameView(m, n)
      /\ \A g : In(n.heap, g) = In(m.heap, g)
      /\ \A o \in n.queue \ m.queue :
           o \notin Reach(m.heap, m.root) /\ ~ m.heap[o].finalized
  BY ONLY HeapAssumption, <1>1, <1>4, <1>5, RemarkFacts
<1> QED
  BY <1>1, <1>6 DEF m

LEMMA EndTraceStep ==
  ASSUME HeapAssumption, IInv, EndTrace
  PROVE  IInv' /\ FinalStep
<1> DEFINE n == Remark(Memory, {})
<1>1. /\ pc = "trace" /\ gray = {} /\ store = Nil /\ Become(n)
      /\ phase' = "idle" /\ pc' = "sweep"
      /\ UNCHANGED <<gray, store, running, majors>>
  BY DEF EndTrace
<1> HIDE DEF n
<1>2. /\ Sound(n) /\ Remembered(n, {}) /\ ReadyToSweep(n)
      /\ \A g : In(n.heap, g) = In(heap, g)
      /\ \A o \in n.queue \ queue :
           o \notin Reach(heap, root) /\ ~ heap[o].finalized
  BY <1>1, RemarkAtEnd DEF n
<1>3. Memory' = n /\ heap' = n.heap /\ queue' = n.queue
  BY <1>1, <1>2, BecomeIs
<1>4. MemoryInv' /\ StoreInv'
  BY <1>1, <1>2, <1>3 DEF MemoryInv, StoreInv, Busy
<1>5. PhaseInv' /\ TraceInv' /\ SweepInv' /\ CountInv'
  BY <1>1, <1>2, <1>3 DEF IInv, PhaseInv, TraceInv, SweepInv, CountInv
<1>6. FinalStep
  <2>1. ASSUME NEW o \in queue' \ queue
        PROVE  o \notin Live /\ ~heap[o].finalized /\ heap'[o].finalized
    BY <1>2, <1>3, LiveIs DEF Sound
  <2>2. ASSUME NEW o \in In(heap, Tenured) PROVE heap'[o].gen # "free"
    <3>1. o \in In(heap', Tenured)
      BY <1>2, <1>3
    <3> QED
      BY <3>1 DEF In, Tenured
  <2> QED
    BY <2>1, <2>2 DEF FinalStep
<1> QED
  BY <1>4, <1>5, <1>6 DEF IInv

LEMMA EndMajorStep ==
  ASSUME HeapAssumption, IInv, EndMajor
  PROVE  IInv' /\ FinalStep
<1> DEFINE m == Memory
           n == Sweep(m)
<1>1. /\ pc = "sweep" /\ Become(n)
      /\ running' = Left(running, {o \in Object : heap'[o].gen = "free"})
      /\ pc' = "idle" /\ UNCHANGED <<phase, gray, store, majors>>
  BY DEF EndMajor
<1>2. /\ Sound(m) /\ Remembered(m, Busy) /\ ReadyToSweep(m)
      /\ m.heap = heap /\ m.root = root /\ m.remset = remset /\ m.queue = queue
  BY <1>1, StateFacts DEF IInv, MemoryInv, SweepInv
<1> HIDE DEF m, n
<1>3. /\ Sound(n)
      /\ \A busy : Remembered(m, busy) => Remembered(n, busy)
      /\ n.remset = m.remset /\ n.queue = m.queue /\ n.root = m.root
      /\ Reach(n.heap, n.root) = Reach(m.heap, m.root)
      /\ \A w \in Value : Resolve(n.heap, w) = Resolve(m.heap, w)
      /\ \A o \in Reach(m.heap, m.root) : Slot(n.heap, o) = Slot(m.heap, o)
      /\ \A o \in Object : \/ o \in Dead(m.heap) /\ n.heap[o] = Blank
                           \/ /\ o \notin Dead(m.heap)
                              /\ n.heap[o].gen = m.heap[o].gen
                              /\ n.heap[o].finalized = m.heap[o].finalized
                              /\ n.heap[o].marked => m.heap[o].marked
  BY ONLY HeapAssumption, <1>2, SweepFacts DEF n
<1>4. /\ Memory' = n
      /\ heap' = n.heap /\ root' = n.root /\ remset' = n.remset /\ queue' = n.queue
  BY <1>1, <1>3, BecomeIs
<1>5. MemoryInv'
  BY <1>1, <1>2, <1>3, <1>4 DEF MemoryInv, Busy
<1>6. StoreInv'
  <2> SUFFICES ASSUME store # Nil PROVE StoreInv'
    BY <1>1 DEF StoreInv
  <2>1. /\ store \in [object : Object, value : Object]
        /\ \E r \in Root : Resolve(heap, root[r]) = store.object
        /\ \E q \in Root : root[q] = store.value
        /\ Slot(heap, store.object) = Resolve(heap, store.value)
    BY DEF IInv, StoreInv
  <2>2. store.object \in Object /\ store.value \in Value /\ store.object \in Reach(heap, root)
    BY <2>1, ReachFacts DEF Value
  <2>3. \A r \in Root : root[r] \in Value
    BY StateFacts
  <2>4. \E r \in Root : Resolve(heap', root'[r]) = store.object
    BY <1>2, <1>3, <1>4, <2>1, <2>3
  <2>5. Slot(heap', store.object) = Resolve(heap', store.value)
    BY <1>2, <1>3, <1>4, <2>1, <2>2
  <2>6. root' = root /\ store' = store
    BY <1>1, <1>2, <1>3, <1>4
  <2> QED
    BY <2>1, <2>4, <2>5, <2>6 DEF StoreInv
<1>7. PhaseInv' /\ TraceInv' /\ SweepInv'
  BY <1>1 DEF IInv, PhaseInv, TraceInv, SweepInv
<1>8. CountInv'
  <2>1. running' \in Value
    BY <1>1 DEF IInv, CountInv, Left, Value
  <2> QED
    BY <1>1, <2>1 DEF IInv, CountInv
<1>9. FinalStep
  <2> SUFFICES ASSUME NEW o \in In(heap, Tenured) \cap Finalizable, heap'[o].gen = "free"
               PROVE  heap[o].finalized /\ o \notin queue
    BY <1>2, <1>3, <1>4 DEF FinalStep
  <2>1. o \in Object /\ o \in Dead(heap)
    BY <1>2, <1>3, <1>4 DEF In, Tenured
  <2>2. ~ heap[o].marked
    BY <2>1 DEF Dead
  <2> QED
    BY <1>2, <2>2 DEF ReadyToSweep
<1> QED
  BY <1>5, <1>6, <1>7, <1>8, <1>9 DEF IInv

LEMMA FinalizerStep ==
  ASSUME HeapAssumption, IInv, TakeFinalizer \/ RunFinalizer
  PROVE  IInv' /\ FinalStep
<1> DEFINE m == Memory
           n == Memory'
<1>1. /\ UNCHANGED <<heap, root, remset, phase, gray, pc, store, majors>>
      /\ queue' \subseteq queue /\ running' \in Value
  BY StateFacts DEF TakeFinalizer, RunFinalizer, In, Value
<1>2. /\ Sound(m) /\ Remembered(m, Busy) /\ m \in Memories
      /\ m.heap = heap /\ m.root = root /\ m.remset = remset /\ m.queue = queue
      /\ n = [heap |-> heap, root |-> root, remset |-> remset, queue |-> queue']
  BY <1>1, StateFacts, MemoryIs DEF IInv, MemoryInv
<1> HIDE DEF m, n
<1>3. /\ n \in Memories /\ n.heap = heap /\ n.root = root
      /\ n.remset = remset /\ n.queue = queue'
  <2>1. queue' \subseteq Object
    BY <1>1, <1>2, MemoryFacts
  <2> QED
    BY <1>2, <2>1, MemoryFacts DEF Memories
<1>4. Sound(n) /\ Remembered(n, Busy)
  BY <1>1, <1>2, <1>3 DEF Sound, Remembered
<1>5. MemoryInv' /\ StoreInv' /\ PhaseInv' /\ CountInv'
  BY <1>1, <1>4 DEF n, IInv, MemoryInv, StoreInv, PhaseInv, CountInv, Busy
<1>6. TraceInv'
  BY <1>1 DEF IInv, TraceInv, Traced
<1>7. SweepInv'
  <2> SUFFICES ASSUME pc = "sweep" PROVE ReadyToSweep(n)
    BY <1>1 DEF SweepInv, n
  <2>1. ReadyToSweep(m)
    BY DEF IInv, SweepInv, m
  <2> QED
    BY <1>1, <1>2, <1>3, <2>1 DEF ReadyToSweep
<1>8. FinalStep
  BY <1>1 DEF FinalStep, In, Tenured
<1> QED
  BY <1>5, <1>6, <1>7, <1>8 DEF IInv

\* A major collection, the only one or not, starts with no mark left by another.
CleanStart == majors' # majors => \A o \in Object : ~ heap[o].marked

LEMMA MinorStays ==
  ASSUME HeapAssumption, IInv, MayCollect, NEW n \in Minors(Memory)
  PROVE  /\ Sound(n) /\ Remembered(n, {})
         /\ Reach(n.heap, n.root) = Live
         /\ \A o \in Object : n.heap[o].forward = Nil
         /\ \A o \in Object : n.heap[o].marked => heap[o].marked
         /\ n.queue = queue
         /\ \A o \in Object : n.heap[o].gen \in Tenured =>
              n.heap[o].finalized = heap[o].finalized
         /\ \A o \in In(heap, Tenured) : n.heap[o].gen = heap[o].gen
<1> DEFINE m == Memory
<1>1. /\ Sound(m) /\ Remembered(m, {})
      /\ m.heap = heap /\ m.root = root /\ m.queue = queue
  BY StateFacts DEF MayCollect
<1>2. n \in Minors(m)
  OBVIOUS
<1> HIDE DEF m
<1>3. /\ Sound(n) /\ Remembered(n, {})
      /\ Reach(n.heap, n.root) = Reach(m.heap, m.root)
      /\ \A o \in Object : n.heap[o].forward = Nil
      /\ \A o \in Object : n.heap[o].marked => m.heap[o].marked
      /\ n.queue = m.queue
      /\ \A o \in Object : n.heap[o].gen \in Tenured =>
           n.heap[o].finalized = m.heap[o].finalized
      /\ \A o \in In(m.heap, Tenured) : n.heap[o].gen = m.heap[o].gen
  BY ONLY HeapAssumption, <1>1, <1>2, MinorFacts
<1> QED
  BY <1>1, <1>3, LiveIs

\* The program and the finalizers after a minor collection.
LEMMA MinorStep ==
  ASSUME HeapAssumption, IInv, MayCollect, NEW n \in Minors(Memory), Become(n),
         UNCHANGED <<pc, store, running>>
  PROVE  /\ MemoryInv' /\ StoreInv' /\ FinalStep
         /\ \A o \in Object : heap'[o].marked => heap[o].marked
<1>1. /\ Sound(n) /\ Remembered(n, {})
      /\ \A o \in Object : n.heap[o].marked => heap[o].marked
      /\ n.queue = queue
      /\ \A o \in In(heap, Tenured) : n.heap[o].gen = heap[o].gen
  BY MinorStays
<1>2. Memory' = n /\ heap' = n.heap /\ queue' = n.queue
  BY <1>1, BecomeIs
<1>3. MemoryInv' /\ StoreInv'
  BY <1>1, <1>2 DEF MayCollect, MemoryInv, StoreInv, Busy
<1>4. FinalStep
  BY <1>1, <1>2 DEF FinalStep, In, Tenured
<1> QED
  BY <1>1, <1>2, <1>3, <1>4

LEMMA MinorGcStep ==
  ASSUME HeapAssumption, IInv, MinorGc
  PROVE  IInv' /\ FinalStep
<1>1. /\ MayCollect /\ pc = "idle" /\ store = Nil
      /\ UNCHANGED <<phase, gray, pc, store, running, majors>>
  BY DEF MinorGc, MayCollect
<1>2. PICK n \in Minors(Memory) : Become(n)
  BY DEF MinorGc
<1>3. /\ MemoryInv' /\ StoreInv' /\ FinalStep
      /\ \A o \in Object : heap'[o].marked => heap[o].marked
  BY <1>1, <1>2, MinorStep
<1>4. PhaseInv' /\ TraceInv' /\ SweepInv' /\ CountInv'
  BY <1>1, <1>3 DEF IInv, PhaseInv, TraceInv, SweepInv, CountInv
<1> QED
  BY <1>3, <1>4 DEF IInv

LEMMA StartMajorStep ==
  ASSUME HeapAssumption, IInv, StartMajor, CleanStart
  PROVE  IInv' /\ FinalStep
<1>1. /\ MayCollect /\ pc = "idle" /\ store = Nil /\ majors < MaxMajors
      /\ majors' = majors + 1 /\ phase' = "mark" /\ pc' = "trace"
      /\ UNCHANGED <<store, running>>
  BY DEF StartMajor, MayCollect
<1>2. PICK n \in Minors(Memory) :
        /\ Become(n)
        /\ gray' = ({n.root[r] : r \in Root} \cup n.queue) \cap Object
  BY DEF StartMajor
<1>3. /\ Sound(n) /\ Remembered(n, {})
      /\ \A o \in Object : n.heap[o].forward = Nil
      /\ \A o \in Object : n.heap[o].marked => heap[o].marked
      /\ n.queue = queue
      /\ \A o \in In(heap, Tenured) : n.heap[o].gen = heap[o].gen
  BY <1>1, MinorStays
<1>4. Memory' = n /\ heap' = n.heap /\ root' = n.root /\ queue' = n.queue
  BY <1>2, <1>3, BecomeIs
<1>5. majors \in Nat /\ majors' # majors /\ majors' \in 0 .. MaxMajors /\ majors' # 0
  BY <1>1 DEF IInv, CountInv, HeapAssumption
<1>6. \A o \in Object : ~ heap'[o].marked
  BY <1>3, <1>4, <1>5 DEF CleanStart
<1>7. MemoryInv' /\ StoreInv'
  BY <1>1, <1>3, <1>4 DEF MemoryInv, StoreInv, Busy
<1>8. queue' \subseteq In(heap', Tenured) /\ \A r \in Root : Used(heap', root'[r])
  BY <1>3, <1>4 DEF Sound
<1>9. PhaseInv'
  <2>1. gray' \subseteq {o \in Object : heap'[o].gen # "free"}
    BY <1>2, <1>4, <1>8 DEF In, Tenured, Used
  <2> QED
    BY <1>1, <2>1 DEF PhaseInv
<1>10. TraceInv'
  <2> DEFINE Q == Pending(heap', gray', store')
  <2>1. \A w \in Value : Resolve(heap', w) = w
    BY <1>3, <1>4, NoForwards
  <2>2. queue' \subseteq Q
    BY <1>2, <1>4, <1>8, <2>1 DEF Pending, In, Value
  <2> HIDE DEF Q
  <2>3. Traced(heap', queue', Q, {})
    BY <1>6, <2>1, <2>2 DEF Traced, Value
  <2> QED
    BY <2>3 DEF TraceInv, Q
<1>11. SweepInv' /\ CountInv'
  BY <1>1, <1>5 DEF IInv, SweepInv, CountInv
<1>12. FinalStep
  BY <1>3, <1>4 DEF FinalStep, In, Tenured
<1> QED
  BY <1>7, <1>9, <1>10, <1>11, <1>12 DEF IInv

\* A major collection in the pause of a minor one.
LEMMA FullStays ==
  ASSUME HeapAssumption, NEW k, Sound(k), Remembered(k, {}),
         \A o \in Object : k.heap[o].forward = Nil,
         \A o \in Object : ~ k.heap[o].marked,
         NEW n, n = Sweep(Remark(MarkRoots(k, k.queue), {}))
  PROVE  /\ Sound(n) /\ Remembered(n, {}) /\ Alike(k, n)
         /\ k.queue \subseteq n.queue
         /\ \A o \in n.queue \ k.queue :
              o \notin Reach(k.heap, k.root) /\ ~ k.heap[o].finalized
              /\ k.heap[o].gen \in Tenured
         /\ \A o \in In(k.heap, Tenured) \cap Finalizable :
              n.heap[o].gen = "free" => k.heap[o].finalized /\ o \notin k.queue
<1> DEFINE u == MarkRoots(k, k.queue)
           w == Remark(u, {})
           D == {o \in Object : u.heap[o].marked}
<1>1. n = Sweep(w)
  OBVIOUS
<1>2. k.queue \in SUBSET k.queue
  OBVIOUS
<1>3. /\ Sound(u) /\ SameView(k, u)
      /\ u.remset = k.remset /\ u.queue = k.queue
      /\ \A g : In(u.heap, g) = In(k.heap, g)
      /\ \A x \in Value : Resolve(u.heap, x) = Resolve(k.heap, x)
      /\ \A o \in k.queue : u.heap[o].marked
      /\ \A o \in Object :
           /\ u.heap[o].finalized = k.heap[o].finalized
           /\ u.heap[o].marked /\ Slot(k.heap, o) \in Object
                => k.heap[o].marked \/ u.heap[Slot(k.heap, o)].marked
  <2> HIDE DEF u
  <2>1. u = MarkRoots(k, k.queue)
    BY DEF u
  <2> QED
    BY ONLY HeapAssumption, Sound(k), <1>2, <2>1, MarkRootsFacts
<1> HIDE DEF u, w
<1>4. Remembered(u, {})
  <2> SUFFICES ASSUME NEW o \in Reach(u.heap, u.root), u.heap[o].gen = "old",
                      u.heap[o].slot \in In(u.heap, Young)
               PROVE  o \in u.remset
    BY DEF Remembered
  <2>1. o \in Reach(k.heap, k.root) /\ o \in Object
    BY <1>3, ReachFacts DEF SameView
  <2>2. k.heap[o].gen = "old"
    <3>1. o \in In(k.heap, {"old"})
      BY <1>3, <2>1 DEF In
    <3> QED
      BY <3>1 DEF In
  <2>3. k.heap[o].slot \in In(k.heap, Young)
    BY <1>3, <2>1, SlotYoung DEF SameView
  <2> QED
    BY <1>3, <2>1, <2>2, <2>3 DEF Remembered
<1>5. /\ \A o \in D : Slot(u.heap, o) \in Object => Slot(u.heap, o) \in D
      /\ \A o \in D \cap In(u.heap, Tenured) : u.heap[o].marked
      /\ \A o \in Object : u.heap[o].marked => Resolve(u.heap, o) \in D
      /\ u.queue \subseteq D
  <2>1. \A o \in Object : Resolve(u.heap, o) = o
    BY <1>3, NoForwards DEF Value
  <2>2. \A o \in Object : Slot(u.heap, o) = Slot(k.heap, o)
    BY <1>3 DEF SameView
  <2>3. u.queue \subseteq Object
    BY <1>3, MemoryFacts DEF Sound
  <2> QED
    BY <1>3, <2>1, <2>2, <2>3
<1> HIDE DEF D
<1>6. /\ Sound(w) /\ Remembered(w, {}) /\ ReadyToSweep(w) /\ SameView(u, w)
      /\ \A g : In(w.heap, g) = In(u.heap, g)
      /\ \A o \in w.queue \ u.queue :
           o \notin Reach(u.heap, u.root) /\ ~ u.heap[o].finalized
      /\ u.queue \subseteq w.queue
      /\ \A o \in In(u.heap, Tenured) \cap Finalizable :
           ~ w.heap[o].marked => u.heap[o].finalized
  BY ONLY HeapAssumption, <1>3, <1>4, <1>5, RemarkFacts DEF w
<1>7. /\ Sound(n) /\ Remembered(n, {}) /\ n.queue = w.queue
      /\ \A o \in Object : \/ o \in Dead(w.heap)
                           \/ n.heap[o].gen = w.heap[o].gen
      /\ n.root = w.root /\ Reach(n.heap, n.root) = Reach(w.heap, w.root)
      /\ \A x \in Value : Resolve(n.heap, x) = Resolve(w.heap, x)
      /\ \A o \in Reach(w.heap, w.root) : Slot(n.heap, o) = Slot(w.heap, o)
  BY ONLY HeapAssumption, <1>1, <1>6, SweepFacts
<1>8. ASSUME NEW o \in n.queue \ k.queue
      PROVE  /\ o \notin Reach(k.heap, k.root) /\ ~ k.heap[o].finalized
             /\ k.heap[o].gen \in Tenured
  <2>1. o \in In(k.heap, Tenured)
    BY <1>3, <1>6, <1>7 DEF Sound
  <2> QED
    BY <1>3, <1>6, <1>7, <2>1 DEF SameView, In
<1>9. ASSUME NEW o \in In(k.heap, Tenured) \cap Finalizable, n.heap[o].gen = "free"
      PROVE  k.heap[o].finalized /\ o \notin k.queue
  <2>1. o \in In(w.heap, Tenured) /\ o \in In(u.heap, Tenured) /\ o \in Object
    BY <1>3, <1>6 DEF In
  <2>2. ~ w.heap[o].marked
    BY <1>7, <1>9, <2>1 DEF In, Tenured, Dead
  <2> QED
    BY <1>3, <1>6, <2>1, <2>2 DEF ReadyToSweep
<1>10. Alike(k, n)
  <2>1. \A r \in Root : w.root[r] \in Value
    BY <1>6, MemoryFacts DEF Sound
  <2>2. Reach(k.heap, k.root) \subseteq Object
    BY ReachFacts
  <2> QED
    BY ONLY <1>3, <1>6, <1>7, <2>1, <2>2 DEF SameView, Alike
<1> QED
  BY <1>3, <1>6, <1>7, <1>8, <1>9, <1>10

LEMMA AllocSlowStep ==
  ASSUME HeapAssumption, IInv, AllocSlow, CleanStart
  PROVE  IInv' /\ FinalStep
<1>1. /\ MayCollect /\ pc = "idle" /\ store = Nil
      /\ UNCHANGED <<phase, gray, pc, store>>
  BY DEF AllocSlow, MayCollect
<1>2. PICK k \in Minors(Memory) :
        IF Cardinality(In(k.heap, {"old"})) > OldThreshold
        THEN /\ majors < MaxMajors /\ majors' = majors + 1
             /\ Become(Sweep(Remark(MarkRoots(k, k.queue), {})))
             /\ running' = Left(running, {o \in Object : heap'[o].gen = "free"})
        ELSE Become(k) /\ UNCHANGED <<majors, running>>
  BY DEF AllocSlow
<1>3. CASE ~ (Cardinality(In(k.heap, {"old"})) > OldThreshold)
  <2>1. Become(k) /\ UNCHANGED <<majors, running>>
    BY <1>2, <1>3
  <2>2. /\ MemoryInv' /\ StoreInv' /\ FinalStep
        /\ \A o \in Object : heap'[o].marked => heap[o].marked
    BY <1>1, <2>1, MinorStep
  <2>3. PhaseInv' /\ TraceInv' /\ SweepInv' /\ CountInv'
    BY <1>1, <2>1, <2>2 DEF IInv, PhaseInv, TraceInv, SweepInv, CountInv
  <2> QED
    BY <2>2, <2>3 DEF IInv
<1>4. CASE Cardinality(In(k.heap, {"old"})) > OldThreshold
  <2> DEFINE n == Sweep(Remark(MarkRoots(k, k.queue), {}))
  <2>1. /\ majors < MaxMajors /\ majors' = majors + 1 /\ Become(n)
        /\ running' = Left(running, {o \in Object : heap'[o].gen = "free"})
    BY <1>2, <1>4
  <2>2. majors \in Nat /\ majors' # majors /\ majors' \in 0 .. MaxMajors /\ majors' # 0
    BY <2>1 DEF IInv, CountInv, HeapAssumption
  <2>3. /\ Sound(k) /\ Remembered(k, {})
        /\ Reach(k.heap, k.root) = Live
        /\ \A o \in Object : k.heap[o].forward = Nil
        /\ \A o \in Object : k.heap[o].marked => heap[o].marked
        /\ k.queue = queue
        /\ \A o \in Object : k.heap[o].gen \in Tenured =>
             k.heap[o].finalized = heap[o].finalized
        /\ \A o \in In(heap, Tenured) : k.heap[o].gen = heap[o].gen
    BY <1>1, MinorStays
  <2>4. \A o \in Object : ~ k.heap[o].marked
    BY <2>2, <2>3 DEF CleanStart
  <2> HIDE DEF n
  <2>5. /\ Sound(n) /\ Remembered(n, {})
        /\ k.queue \subseteq n.queue
        /\ \A o \in n.queue \ k.queue :
             o \notin Reach(k.heap, k.root) /\ ~ k.heap[o].finalized
             /\ k.heap[o].gen \in Tenured
        /\ \A o \in In(k.heap, Tenured) \cap Finalizable :
             n.heap[o].gen = "free" => k.heap[o].finalized /\ o \notin k.queue
    BY ONLY HeapAssumption, <2>3, <2>4, FullStays DEF n
  <2>6. Memory' = n /\ heap' = n.heap /\ queue' = n.queue
    BY <2>1, <2>5, BecomeIs
  <2>7. MemoryInv' /\ StoreInv'
    BY <1>1, <2>5, <2>6 DEF MemoryInv, StoreInv, Busy
  <2>8. PhaseInv' /\ TraceInv' /\ SweepInv'
    BY <1>1 DEF IInv, PhaseInv, TraceInv, SweepInv
  <2>9. CountInv'
    <3>1. running' \in Value
      BY <2>1 DEF IInv, CountInv, Left, Value
    <3> QED
      BY <2>2, <3>1 DEF CountInv
  <2>10. ASSUME NEW o \in queue' \ queue
         PROVE  o \notin Live /\ ~ heap[o].finalized /\ heap'[o].finalized
    <3>1. o \in n.queue \ k.queue /\ o \in Object /\ n.heap[o].finalized
      BY <2>3, <2>5, <2>6, MemoryFacts DEF Sound
    <3> QED
      BY <2>3, <2>5, <2>6, <3>1
  <2>11. ASSUME NEW o \in In(heap, Tenured) \cap Finalizable, heap'[o].gen = "free"
         PROVE  heap[o].finalized /\ o \notin queue
    <3>1. o \in Object /\ k.heap[o].gen \in Tenured /\ o \in In(k.heap, Tenured)
      BY <2>3 DEF In
    <3> QED
      BY <2>3, <2>5, <2>6, <2>11, <3>1
  <2> QED
    BY <2>7, <2>8, <2>9, <2>10, <2>11 DEF IInv, FinalStep
<1> QED
  BY <1>3, <1>4

---------------------------------------------------------------------------
(* The theorems.                                                            *)
(*                                                                          *)
(* Arrays grow while they are young: a stub in the old space would be left  *)
(* out of the remembered sets.  A major collection meets no mark that an    *)
(* earlier one has left, as is the case for the first one (OneMajorCollection *)
(* below); run heap_stale_mark shows what happens otherwise.                *)

LEMMA InitInvariant == Init => IInv
<1> SUFFICES ASSUME Init PROVE IInv
  OBVIOUS
<1> DEFINE m == Memory
<1>1. /\ heap = [o \in Object |-> Blank] /\ root = [r \in Root |-> Nil]
      /\ remset = {} /\ queue = {} /\ phase = "idle" /\ gray = {} /\ pc = "idle"
      /\ store = Nil /\ running = Nil /\ majors = 0
  BY DEF Init
<1>2. /\ m.heap = heap /\ m.root = root /\ m.remset = {} /\ m.queue = {}
      /\ m = [heap |-> heap, root |-> root, remset |-> {}, queue |-> {}]
  BY <1>1, MemoryIs DEF Memory
<1>3. /\ Blank \in Objects /\ Blank.gen = "free" /\ Blank.slot = Nil
      /\ Blank.forward = Nil /\ ~ Blank.dirty /\ ~ Blank.marked
  BY DEF Blank, Objects, Value
<1>4. heap \in Heaps /\ \A o \in Object : heap[o] = Blank
  BY <1>1, <1>3 DEF Heaps
<1>5. /\ Nil \in Value /\ Nil \notin Object /\ Nil # Lost
  BY HeapAssumption DEF Value
<1>6. root \in [Root -> Value] /\ \A r \in Root : root[r] = Nil
  BY <1>1, <1>5
<1>7. Chains(heap) /\ \A w \in Value : Resolve(heap, w) = w
  BY <1>3, <1>4, NoForwards
<1>8. \A o \in Object : Slot(heap, o) = Nil
  BY <1>3, <1>4, <1>5, <1>7 DEF Slot
<1> HIDE DEF m
<1>9. m \in Memories
  BY <1>2, <1>4, <1>6 DEF Memories
<1>10. Shape(heap)
  BY <1>3, <1>4, <1>5 DEF Shape, Used
<1>11. Reach(heap, root) \subseteq Object
  BY HeapAssumption, ReachFacts
<1>12. Sound(m)
  <2>1. \A r \in Root : Used(m.heap, m.root[r]) /\ Resolve(m.heap, m.root[r]) # Lost
    BY <1>2, <1>5, <1>6, <1>7 DEF Used
  <2>2. \A o \in Object : m.heap[o].dirty <=> o \in m.remset
    BY <1>2, <1>3, <1>4
  <2>3. \A o \in Reach(m.heap, m.root) : Slot(m.heap, o) # Lost
    BY <1>2, <1>5, <1>8, <1>11
  <2> QED
    BY <1>2, <1>7, <1>9, <1>10, <2>1, <2>2, <2>3 DEF Sound
<1>13. Remembered(m, Busy)
  BY <1>2, <1>3, <1>4, <1>11 DEF Remembered
<1>14. MemoryInv /\ StoreInv
  BY <1>1, <1>12, <1>13 DEF MemoryInv, StoreInv, m
<1>15. PhaseInv /\ TraceInv /\ SweepInv
  BY <1>1 DEF PhaseInv, TraceInv, SweepInv
<1>16. CountInv
  BY <1>1, <1>3, <1>4, <1>5, HeapAssumption DEF CountInv
<1> QED
  BY <1>14, <1>15, <1>16 DEF IInv

LEMMA StepInvariant ==
  ASSUME GrowFrom \subseteq Young, IInv, [Next]_vars, CleanStart
  PROVE  IInv' /\ (FinalStep \/ UNCHANGED vars)
<1>1. CASE UNCHANGED vars
  <2>1. UNCHANGED <<heap, root, remset, queue, phase, gray, pc, store, running, majors>>
    BY <1>1 DEF vars
  <2> QED
    BY <1>1, <2>1 DEF IInv, MemoryInv, StoreInv, PhaseInv, TraceInv, SweepInv, CountInv,
                      Busy, Memory
<1>2. ASSUME NEW r \in Root, Alloc(r) PROVE IInv' /\ FinalStep
  BY <1>2, HeapAssumption, AllocateStep DEF Alloc
<1>3. ASSUME NEW r \in Root, AllocLarge(r) PROVE IInv' /\ FinalStep
  BY <1>3, HeapAssumption, AllocateStep DEF AllocLarge
<1>4. ASSUME NEW r \in Root, Drop(r) \/ Grow(r) PROVE IInv' /\ FinalStep
  BY <1>4, HeapAssumption, DropStep, GrowStep
<1>5. ASSUME NEW r \in Root, NEW q \in Root, Load(r, q) \/ Store(r, q)
      PROVE  IInv' /\ FinalStep
  BY <1>5, HeapAssumption, LoadStep, StoreStep
<1>6. CASE Barrier
  BY <1>6, HeapAssumption, BarrierStep
<1>7. CASE AllocSlow \/ MinorGc \/ StartMajor
  BY <1>7, HeapAssumption, AllocSlowStep, MinorGcStep, StartMajorStep
<1>8. CASE TraceOne \/ EndTrace \/ EndMajor
  BY <1>8, HeapAssumption, TraceOneStep, EndTraceStep, EndMajorStep
<1>9. CASE TakeFinalizer \/ RunFinalizer
  BY <1>9, HeapAssumption, FinalizerStep
<1> QED
  BY <1>1, <1>2, <1>3, <1>4, <1>5, <1>6, <1>7, <1>8, <1>9 DEF Next, Program, Collector

\* The invariant holds of every behaviour whose major collections start clean.
THEOREM HeapInvariant ==
  ASSUME GrowFrom \subseteq Young
  PROVE  Spec /\ [][CleanStart]_vars => []IInv
<1>1. Init => IInv
  BY InitInvariant
<1>2. IInv /\ [Next]_vars /\ [CleanStart]_vars => IInv'
  <2>1. ASSUME IInv, [Next]_vars, CleanStart PROVE IInv'
    BY <2>1, StepInvariant
  <2>2. UNCHANGED vars => CleanStart
    BY DEF CleanStart, vars
  <2> QED
    BY <2>1, <2>2
<1> QED
  BY <1>1, <1>2, PTL DEF Spec

\* What the invariant says of a state.
LEMMA InvariantMeans ==
  ASSUME IInv
  PROVE  TypeOK /\ NoDangling /\ OldToYoungRemembered /\ SweepSparesLive
<1> DEFINE m == Memory
<1>1. /\ Sound(m) /\ Remembered(m, Busy) /\ m \in Memories
      /\ m.heap = heap /\ m.root = root /\ m.remset = remset /\ m.queue = queue
  BY HeapAssumption, StateFacts DEF IInv, MemoryInv
<1> HIDE DEF m
<1>2. Live = Reach(heap, root) /\ Live \subseteq Object
  BY HeapAssumption, LiveIs, ReachFacts
<1>3. NoDangling
  BY <1>1, <1>2 DEF NoDangling, Sound
<1>4. OldToYoungRemembered
  <2>1. \A o \in Object : heap[o].dirty <=> o \in remset
    BY <1>1 DEF Sound
  <2>2. ASSUME NEW o \in Live, heap[o].gen = "old", heap[o].slot \in In(heap, Young),
               store # Nil => store.object # o
        PROVE  o \in remset
    BY <1>1, <1>2, <2>2 DEF Remembered, Busy
  <2> QED
    BY <2>1, <2>2 DEF OldToYoungRemembered
<1>5. SweepSparesLive
  BY <1>1, <1>2 DEF IInv, SweepInv, ReadyToSweep, SweepSparesLive, m
<1>6. TypeOK
  <2>1. /\ heap \in Heaps /\ root \in [Root -> Value]
        /\ remset \subseteq Object /\ queue \subseteq Object
    BY <1>1, MemoryFacts
  <2>2. /\ gray \subseteq Object /\ phase \in {"idle", "mark"}
        /\ pc \in {"idle", "trace", "sweep"}
    BY DEF IInv, PhaseInv
  <2>3. store \in [object : Object, value : Object] \cup {Nil}
    BY DEF IInv, StoreInv
  <2>4. running \in Value /\ majors \in 0 .. MaxMajors
    BY DEF IInv, CountInv
  <2> QED
    BY <2>1, <2>2, <2>3, <2>4 DEF TypeOK, Heaps, Objects
<1> QED
  BY <1>3, <1>4, <1>5, <1>6

\* Every variable of the heap keeps its type.
THEOREM TypeCorrect ==
  ASSUME GrowFrom \subseteq Young
  PROVE  Spec /\ [][CleanStart]_vars => []TypeOK
BY HeapInvariant, InvariantMeans, PTL

\* Minor collections, promotions, growth and sweeps never leave the program a
\* reference to memory that is used again.
THEOREM NothingDangles ==
  ASSUME GrowFrom \subseteq Young
  PROVE  Spec /\ [][CleanStart]_vars => []NoDangling
BY HeapInvariant, InvariantMeans, PTL

\* The remembered sets are complete, and agree with the dirty flags.
THEOREM RemembersOldToYoung ==
  ASSUME GrowFrom \subseteq Young
  PROVE  Spec /\ [][CleanStart]_vars => []OldToYoungRemembered
BY HeapInvariant, InvariantMeans, PTL

\* The concurrent trace marks every tenured object the program can reach.
THEOREM SweepSafe ==
  ASSUME GrowFrom \subseteq Young
  PROVE  Spec /\ [][CleanStart]_vars => []SweepSparesLive
BY HeapInvariant, InvariantMeans, PTL

\* Only what the program cannot reach is queued for its finalizer, once, and
\* nothing that has one is freed before.
THEOREM FinalizersRunOnGarbage ==
  ASSUME GrowFrom \subseteq Young
  PROVE  Spec /\ [][CleanStart]_vars => FinalizesGarbage
<1>1. IInv /\ [Next]_vars /\ [CleanStart]_vars => [FinalStep]_vars
  <2>1. ASSUME IInv, [Next]_vars, CleanStart PROVE [FinalStep]_vars
    BY <2>1, StepInvariant
  <2>2. UNCHANGED vars => CleanStart
    BY DEF CleanStart, vars
  <2> QED
    BY <2>1, <2>2
<1> QED
  BY <1>1, HeapInvariant, PTL DEF Spec, FinalizesGarbage, FinalStep

-----------------------------------------------------------------------------
(* The heap implements AbstractHeap.                                         *)

\* What the program sees in m.
Sees(m) ==
  [var |-> [r \in Root |-> Resolve(m.heap, m.root[r])],
   ref |-> [o \in Object |-> IF o \in Reach(m.heap, m.root) THEN Slot(m.heap, o) ELSE Nil]]

LEMMA VisibleIs ==
  Visible = Sees(Memory) /\ Visible' = Sees(Memory')
<1>1. Visible = Sees(Memory)
  BY Zenon DEF Visible, Sees, Memory, Live, Roots, Reach
<1>2. Visible' = Sees(Memory')
  BY Zenon DEF Visible, Sees, Memory, Live, Roots, Reach
<1> QED
  BY <1>1, <1>2

\* v and f are what the roots and the reachable objects of m refer to.
Shows(m, v, f) ==
  /\ \A r \in Root : v[r] = Resolve(m.heap, m.root[r])
  /\ \A o \in Reach(m.heap, m.root) : f[o] = Slot(m.heap, o)

SeenStages(m, v, f, R) ==
  /\ R \in [Nat -> SUBSET Object]
  /\ Reach(m.heap, m.root) = R[Cardinality(Object)]
  /\ R[0] = {v[r] : r \in Root} \ {Nil}
  /\ \A n \in Nat : R[n + 1] = R[n] \cup ({f[o] : o \in R[n]} \ {Nil})

\* Both traces find the same stage by stage.
LEMMA StagesMatch ==
  ASSUME HeapAssumption, NEW m, Sound(m), NEW v, NEW f, Shows(m, v, f)
  PROVE  \E R : SeenStages(m, v, f, R)
<1> DEFINE h == m.heap
           s == {Resolve(h, m.root[r]) : r \in Root}
           L == Reach(h, m.root)
<1>0. L = Trace(h, s, Object)
  BY DEF Reach
<1> HIDE DEF h, s, L
<1>1. PICK R \in [Nat -> SUBSET Object] :
         /\ Trace(h, s, Object) = R[Cardinality(Object)]
         /\ R[0] = s \cap Object
         /\ \A n \in Nat : R[n + 1] = R[n] \cup ({Slot(h, o) : o \in R[n]} \cap Object)
  BY ONLY TraceStages
<1>2. L = R[Cardinality(Object)]
  BY <1>0, <1>1
<1> USE DEF h, s, L
<1>3. /\ \A r \in Root : v[r] = Resolve(h, m.root[r]) /\ v[r] \in Object \cup {Nil}
      /\ \A o \in L : f[o] = Slot(h, o) /\ f[o] \in Object \cup {Nil}
      /\ \A r \in Root : v[r] # Nil => v[r] \in L
      /\ \A o \in L : f[o] # Nil => f[o] \in L
  <2>1. /\ h \in Heaps /\ Chains(h)
        /\ \A r \in Root : m.root[r] \in Value /\ Resolve(h, m.root[r]) # Lost
        /\ \A o \in L : Slot(h, o) # Lost
    BY MemoryFacts DEF Sound
  <2>2. \A r \in Root : Resolve(h, m.root[r]) \in Value
    BY <2>1, ResolveFacts
  <2>3. \A o \in L : Slot(h, o) \in Value
    BY <2>1, SlotFacts, ReachFacts
  <2> QED
    BY <2>1, <2>2, <2>3, ReachFacts DEF Shows, Value
<1> DEFINE S == {n \in Nat : R[n] \subseteq L}
<1>4. 0 \in S
  BY <1>1, <1>3
<1>5. ASSUME NEW n \in Nat, n \in S PROVE n + 1 \in S
  BY <1>1, <1>3, <1>5
<1> HIDE DEF S
<1>6. Nat \subseteq S
  BY <1>4, <1>5, NatSet
<1> USE DEF S
<1>7. R[0] = {v[r] : r \in Root} \ {Nil}
  BY <1>1, <1>3, HeapAssumption DEF HeapAssumption
<1>8. ASSUME NEW n \in Nat
      PROVE  R[n + 1] = R[n] \cup ({f[o] : o \in R[n]} \ {Nil})
  <2>1. R[n] \subseteq L
    BY <1>6
  <2>2. {Slot(h, o) : o \in R[n]} \cap Object = {f[o] : o \in R[n]} \ {Nil}
    BY <1>3, <2>1, HeapAssumption DEF HeapAssumption
  <2> QED
    BY <1>1, <2>2
<1> QED
  BY <1>1, <1>2, <1>7, <1>8 DEF SeenStages

LEMMA ReachedIs ==
  ASSUME HeapAssumption, NEW m, Sound(m), NEW v, NEW f, Shows(m, v, f)
  PROVE  AH!Reached(v, f) = Reach(m.heap, m.root)
<1> PICK R : SeenStages(m, v, f, R)
  BY StagesMatch
<1>1. /\ R \in [Nat -> SUBSET Object]
      /\ Reach(m.heap, m.root) = R[Cardinality(Object)]
      /\ R[0] = {v[r] : r \in Root} \ {Nil}
      /\ \A n \in Nat : R[n + 1] = R[n] \cup ({f[o] : o \in R[n]} \ {Nil})
  BY DEF SeenStages
<1> DEFINE F(T, n) == IF n = 0 THEN {v[r] : r \in Root} \ {Nil}
                      ELSE T[n - 1] \cup ({f[o] : o \in T[n - 1]} \ {Nil})
           Q == CHOOSE T : T = [n \in Nat |-> F(T, n)]
<1>2. AH!Reached(v, f) = Q[Cardinality(Object)]
  <2>1. AH!Cardinality(Object) = Cardinality(Object)
    BY Zenon DEF AH!Cardinality, Cardinality
  <2>2. AH!Reached(v, f) = Q[AH!Cardinality(Object)]
    BY Zenon DEF AH!Reached
  <2> QED
    BY <2>1, <2>2
<1>3. R = [n \in Nat |-> F(R, n)]
  <2>1. ASSUME NEW n \in Nat PROVE R[n] = F(R, n)
    <3>1. CASE n = 0
      BY <1>1, <3>1
    <3>2. CASE n # 0
      <4>1. n - 1 \in Nat /\ (n - 1) + 1 = n
        BY <3>2
      <4>2. R[(n - 1) + 1] = R[n - 1] \cup ({f[o] : o \in R[n - 1]} \ {Nil})
        BY <1>1, <4>1
      <4> QED
        BY <3>2, <4>1, <4>2
    <3> QED
      BY <3>1, <3>2
  <2> HIDE DEF F
  <2> QED
    BY <1>1, <2>1
<1>4. Q = [n \in Nat |-> F(Q, n)]
  <2> HIDE DEF F
  <2> QED
    BY <1>3
<1> HIDE DEF Q
<1>5. Q[0] = {v[r] : r \in Root} \ {Nil}
  BY <1>4
<1>6. ASSUME NEW n \in Nat PROVE Q[n + 1] = Q[n] \cup ({f[o] : o \in Q[n]} \ {Nil})
  <2>1. n + 1 \in Nat /\ n + 1 # 0 /\ (n + 1) - 1 = n
    OBVIOUS
  <2>2. Q[n + 1] = F(Q, n + 1)
    <3> HIDE DEF F
    <3> QED
      BY ONLY <1>4, <2>1
  <2> QED
    BY <2>1, <2>2
<1> HIDE DEF F
<1> DEFINE S == {n \in Nat : Q[n] = R[n]}
<1>7. 0 \in S /\ \A n \in Nat : n \in S => n + 1 \in S
  <2>1. 0 \in S
    BY <1>1, <1>5
  <2>2. ASSUME NEW n \in Nat, n \in S PROVE n + 1 \in S
    <3>1. Q[n] = R[n] /\ n + 1 \in Nat
      BY <2>2
    <3>2. {f[o] : o \in Q[n]} = {f[o] : o \in R[n]}
      BY ONLY <3>1
    <3>3. /\ Q[n + 1] = Q[n] \cup ({f[o] : o \in Q[n]} \ {Nil})
          /\ R[n + 1] = R[n] \cup ({f[o] : o \in R[n]} \ {Nil})
      BY <1>1, <1>6
    <3>4. Q[n + 1] = R[n + 1]
      BY ONLY <3>1, <3>2, <3>3, Zenon
    <3> QED
      BY <3>1, <3>4
  <2> QED
    BY <2>1, <2>2
<1> HIDE DEF S
<1>8. Nat \subseteq S
  BY <1>7, NatSet
<1>9. Cardinality(Object) \in Nat
  BY FS_CardinalityType DEF HeapAssumption
<1> QED
  BY <1>1, <1>2, <1>8, <1>9 DEF S

LEMMA ViewIs ==
  ASSUME HeapAssumption, NEW m, Sound(m), NEW v, NEW f, Shows(m, v, f),
         v = [r \in Root |-> v[r]]
  PROVE  AH!View(v, f) = Sees(m)
<1>1. AH!Reached(v, f) = Reach(m.heap, m.root)
  BY ReachedIs
<1>2. v = [r \in Root |-> Resolve(m.heap, m.root[r])]
  BY DEF Shows
<1> DEFINE ref == [o \in Object |-> IF o \in Reach(m.heap, m.root) THEN f[o] ELSE Nil]
<1>3. ref = [o \in Object |-> IF o \in Reach(m.heap, m.root) THEN Slot(m.heap, o) ELSE Nil]
  BY DEF Shows
<1>4. AH!View(v, f) = [var |-> v, ref |-> ref]
  <2>1. AH!View(v, f)
          = [var |-> v,
             ref |-> [o \in Object |-> IF o \in AH!Reached(v, f) THEN f[o] ELSE Nil]]
    BY Zenon DEF AH!View
  <2> QED
    BY ONLY <1>1, <2>1, Zenon
<1> HIDE DEF ref
<1>5. Sees(m) = [var |-> v, ref |-> ref]
  BY ONLY <1>2, <1>3, Zenon DEF Sees
<1> QED
  BY ONLY <1>4, <1>5, Zenon

LEMMA SeesFacts ==
  ASSUME HeapAssumption, NEW m, Sound(m)
  PROVE  /\ Shows(m, Sees(m).var, Sees(m).ref)
         /\ AH!Reached(Sees(m).var, Sees(m).ref) = Reach(m.heap, m.root)
         /\ Sees(m).var = [r \in Root |-> Resolve(m.heap, m.root[r])]
         /\ \A r \in Root : Sees(m).var[r] \in Object \cup {Nil}
         /\ DOMAIN Sees(m).ref = Object
<1>1. Sees(m).var = [r \in Root |-> Resolve(m.heap, m.root[r])]
  BY DEF Sees
<1>2. /\ DOMAIN Sees(m).ref = Object
      /\ \A o \in Reach(m.heap, m.root) : Sees(m).ref[o] = Slot(m.heap, o)
  BY ReachFacts DEF Sees
<1>3. \A r \in Root : Resolve(m.heap, m.root[r]) \in Object \cup {Nil}
  BY MemoryFacts, ResolveFacts DEF Sound, Value
<1>4. Shows(m, Sees(m).var, Sees(m).ref)
  BY <1>1, <1>2 DEF Shows
<1> QED
  BY <1>1, <1>2, <1>3, <1>4, ReachedIs

LEMMA AlikeSeen ==
  ASSUME HeapAssumption, NEW m, NEW n, Alike(m, n)
  PROVE  Sees(n) = Sees(m)
BY DEF Alike, Sees

LEMMA RootsSeen ==
  ASSUME HeapAssumption, NEW m, Sound(m), NEW r \in Root, NEW x,
         x = Nil \/ \E q \in Root : /\ Resolve(m.heap, m.root[q]) \in Object
                                    /\ x = Slot(m.heap, Resolve(m.heap, m.root[q])),
         NEW n, Sound(n), n.heap = m.heap,
         \A p \in Root : Resolve(n.heap, n.root[p])
                            = IF p = r THEN x ELSE Resolve(m.heap, m.root[p]),
         Reach(n.heap, n.root) \subseteq Reach(m.heap, m.root)
  PROVE  Sees(n) \in AH!Copies(Sees(m))
<1> DEFINE w == Sees(m)
           v == [w.var EXCEPT ![r] = x]
           seen == {Nil} \cup {w.ref[w.var[q]] : q \in {p \in Root : w.var[p] # Nil}}
<1>1. /\ w.var = [p \in Root |-> Resolve(m.heap, m.root[p])]
      /\ Shows(m, w.var, w.ref)
  BY SeesFacts
<1> HIDE DEF w
<1>2. /\ v = [p \in Root |-> v[p]]
      /\ \A p \in Root : v[p] = Resolve(n.heap, n.root[p])
  BY <1>1
<1> HIDE DEF v
<1>3. Shows(n, v, w.ref)
  BY <1>1, <1>2 DEF Shows, Slot
<1>4. AH!View(v, w.ref) = Sees(n)
  BY <1>2, <1>3, ViewIs
<1>5. x \in seen
  <2>1. ASSUME NEW q \in Root, Resolve(m.heap, m.root[q]) \in Object,
               x = Slot(m.heap, Resolve(m.heap, m.root[q]))
        PROVE  x \in seen
    <3>1. w.var[q] = Resolve(m.heap, m.root[q]) /\ w.var[q] # Nil
      BY <1>1, <2>1, HeapAssumption DEF HeapAssumption
    <3>2. w.var[q] \in Reach(m.heap, m.root)
      BY <2>1, <3>1, ReachFacts
    <3>3. x = w.ref[w.var[q]]
      BY <1>1, <2>1, <3>1, <3>2 DEF Shows
    <3> QED
      BY <3>1, <3>3
  <2> QED
    BY <2>1
<1> HIDE DEF seen
<1>6. AH!View(v, w.ref) \in AH!Copies(w)
  <2>1. AH!Copies(w) = {AH!View([w.var EXCEPT ![p] = y], w.ref) : p \in Root, y \in seen}
    BY ONLY DEF AH!Copies, seen
  <2>2. AH!View([w.var EXCEPT ![r] = x], w.ref) \in AH!Copies(w)
    BY ONLY <1>5, <2>1, r \in Root
  <2> QED
    BY <2>2 DEF v
<1> QED
  BY <1>4, <1>6 DEF w

LEMMA NewSeen ==
  ASSUME HeapAssumption, NEW m, Sound(m), NEW r \in Root,
         NEW gen, NEW o \in Object, m.heap[o].gen = "free",
         NEW n, AllocLeaves(m, gen, o, n),
         \A p \in Root : n.root[p] = IF p = r THEN o ELSE m.root[p]
  PROVE  Sees(n) \in AH!News(Sees(m))
<1> DEFINE w == Sees(m)
           v == [w.var EXCEPT ![r] = o]
           f == [w.ref EXCEPT ![o] = Nil]
<1>1. /\ w.var = [p \in Root |-> Resolve(m.heap, m.root[p])]
      /\ Shows(m, w.var, w.ref) /\ DOMAIN w.ref = Object
      /\ AH!Reached(w.var, w.ref) = Reach(m.heap, m.root)
  BY SeesFacts
<1>2. o \notin Reach(m.heap, m.root)
  BY ReachUsed
<1>3. /\ Sound(n) /\ Reach(n.heap, n.root) \subseteq Reach(m.heap, m.root) \cup {o}
      /\ \A x \in Value : Resolve(n.heap, x) = Resolve(m.heap, x)
      /\ \A p \in Object : Slot(n.heap, p) = IF p = o THEN Nil ELSE Slot(m.heap, p)
  BY DEF AllocLeaves
<1>4. Resolve(m.heap, o) = o
  BY ResolveFacts DEF Sound, Shape, Blank, Forwards, Value, Memories
<1> HIDE DEF w
<1>5. /\ v = [p \in Root |-> v[p]]
      /\ \A p \in Root : v[p] = Resolve(n.heap, n.root[p])
  <2>1. \A p \in Root : m.root[p] \in Value
    BY MemoryFacts DEF Sound
  <2> QED
    BY <1>1, <1>3, <1>4, <2>1 DEF Value
<1>6. \A p \in Object : f[p] = IF p = o THEN Nil ELSE w.ref[p]
  BY <1>1
<1> HIDE DEF v, f
<1>7. Shows(n, v, f)
  BY <1>1, <1>3, <1>5, <1>6, ReachFacts DEF Shows
<1>8. AH!View(v, f) = Sees(n)
  BY <1>3, <1>5, <1>7, ViewIs
<1>9. AH!View(v, f) \in AH!News(w)
  <2>1. o \in Object \ AH!Reached(w.var, w.ref)
    BY <1>1, <1>2
  <2> DEFINE new == Object \ AH!Reached(w.var, w.ref)
             Of(p, x) == AH!View([w.var EXCEPT ![p] = x], [w.ref EXCEPT ![x] = Nil])
  <2>2. AH!News(w) = {Of(p, x) : p \in Root, x \in new}
    BY ONLY DEF AH!News
  <2> HIDE DEF new, Of
  <2>3. Of(r, o) \in AH!News(w)
    BY ONLY <2>1, <2>2, r \in Root DEF new
  <2>4. AH!View([w.var EXCEPT ![r] = o], [w.ref EXCEPT ![o] = Nil]) \in AH!News(w)
    BY <2>3 DEF Of
  <2> QED
    BY <2>4 DEF v, f
<1> QED
  BY <1>8, <1>9 DEF w

LEMMA StoreSeen ==
  ASSUME HeapAssumption, NEW m, Sound(m), NEW r \in Root, NEW q \in Root,
         NEW o \in Object, o = Resolve(m.heap, m.root[r]),
         NEW n, StoreLeaves(m, q, o, n)
  PROVE  Sees(n) \in AH!Assigns(Sees(m))
<1> DEFINE w == Sees(m)
           f == [w.ref EXCEPT ![w.var[r]] = w.var[q]]
<1>1. /\ w.var = [p \in Root |-> Resolve(m.heap, m.root[p])]
      /\ Shows(m, w.var, w.ref) /\ DOMAIN w.ref = Object
  BY SeesFacts
<1>2. /\ Sound(n) /\ n.root = m.root
      /\ Reach(n.heap, n.root) \subseteq Reach(m.heap, m.root)
      /\ \A x \in Value : Resolve(n.heap, x) = Resolve(m.heap, x)
      /\ \A p \in Object :
           Slot(n.heap, p) = IF p = o THEN Resolve(m.heap, m.root[q]) ELSE Slot(m.heap, p)
  BY DEF StoreLeaves
<1> HIDE DEF w
<1>3. w.var[r] = o /\ w.var[q] = Resolve(m.heap, m.root[q]) /\ o # Nil
  BY <1>1, HeapAssumption DEF HeapAssumption
<1>4. \A p \in Object : f[p] = IF p = o THEN w.var[q] ELSE w.ref[p]
  BY <1>1, <1>3
<1> HIDE DEF f
<1>5. /\ w.var = [p \in Root |-> w.var[p]]
      /\ \A p \in Root : w.var[p] = Resolve(n.heap, n.root[p])
  <2>1. \A p \in Root : m.root[p] \in Value
    BY MemoryFacts DEF Sound
  <2> QED
    BY <1>1, <1>2, <2>1
<1>6. Shows(n, w.var, f)
  BY <1>1, <1>2, <1>3, <1>4, <1>5, ReachFacts DEF Shows
<1>7. AH!View(w.var, f) = Sees(n)
  BY <1>2, <1>5, <1>6, ViewIs
<1>8. AH!View(w.var, f) \in AH!Assigns(w)
  BY <1>3 DEF AH!Assigns, f
<1> QED
  BY <1>7, <1>8 DEF w

LEMMA GrowSeen ==
  ASSUME HeapAssumption, NEW m, Sound(m), NEW r \in Root,
         NEW a \in Object, a = Resolve(m.heap, m.root[r]),
         NEW b \in Object, m.heap[b].gen = "free",
         NEW n, GrowView(m, a, b, n),
         \A q \in Root : n.root[q] = IF q = r THEN b ELSE m.root[q]
  PROVE  Sees(n) \in AH!Regrows(Sees(m))
<1> DEFINE w == Sees(m)
           Now(x) == IF x = a THEN b ELSE x
           v == [q \in Root |-> Now(w.var[q])]
           f == [o \in Object |-> Now(w.ref[IF o = b THEN a ELSE o])]
<1>1. /\ w.var = [p \in Root |-> Resolve(m.heap, m.root[p])]
      /\ Shows(m, w.var, w.ref)
      /\ AH!Reached(w.var, w.ref) = Reach(m.heap, m.root)
  BY SeesFacts
<1> HIDE DEF w
<1>2. /\ Sound(n) /\ b \notin Reach(m.heap, m.root)
      /\ Reach(n.heap, n.root) \subseteq (Reach(m.heap, m.root) \ {a}) \cup {b}
      /\ \A x \in Value : Resolve(n.heap, x) = Now(Resolve(m.heap, x))
      /\ \A p \in Object :
           /\ p # b => Slot(n.heap, p) = Now(Slot(m.heap, p))
           /\ p = b => Slot(n.heap, p) = Now(Slot(m.heap, a))
  BY DEF GrowView
<1>3. a \in Reach(m.heap, m.root) /\ w.var[r] = a /\ a # Nil
  BY <1>1, ReachFacts, HeapAssumption DEF HeapAssumption
<1>4. Resolve(m.heap, b) = b /\ b # a
  <2>1. Resolve(m.heap, b) = b
    BY ResolveFacts DEF Sound, Shape, Blank, Forwards, Value, Memories
  <2> QED
    BY <1>2, <1>3, <2>1
<1>5. \A p \in Root : v[p] = Resolve(n.heap, n.root[p])
  <2>1. \A p \in Root : m.root[p] \in Value /\ b \in Value
    BY MemoryFacts DEF Sound, Value
  <2> QED
    BY <1>1, <1>2, <1>3, <1>4, <2>1
<1>6. v = [p \in Root |-> v[p]]
  OBVIOUS
<1>7. \A o \in Reach(n.heap, n.root) : f[o] = Slot(n.heap, o)
  <2> TAKE o \in Reach(n.heap, n.root)
  <2>1. o \in Object
    BY ReachFacts
  <2>2. CASE o = b
    BY <1>1, <1>2, <1>3, <2>1, <2>2 DEF Shows
  <2>3. CASE o # b
    BY <1>1, <1>2, <2>1, <2>3 DEF Shows
  <2> QED
    BY <2>2, <2>3
<1>8. AH!View(v, f) = Sees(n)
  <2> HIDE DEF v, f
  <2>1. Shows(n, v, f)
    BY <1>5, <1>7 DEF Shows
  <2> QED
    BY <1>2, <1>6, <2>1, ViewIs
<1>9. AH!Regrown(w, a, b) = Sees(n)
  BY <1>8 DEF AH!Regrown
<1>10. AH!Regrown(w, a, b) \in AH!Regrows(w)
  BY <1>1, <1>2, <1>3 DEF AH!Regrows
<1> QED
  BY <1>9, <1>10 DEF w

\* What a step of the heap may be to the program.
SeenAs(w, x) ==
  x = w \/ x \in AH!Copies(w) \/ x \in AH!News(w) \/ x \in AH!Assigns(w) \/ x \in AH!Regrows(w)

LEMMA AllocateSeen ==
  ASSUME HeapAssumption, IInv, store = Nil,
         NEW r \in Root, NEW gen \in {"eden", "los"}, Allocate(r, gen)
  PROVE  SeenAs(Sees(Memory), Sees(Memory'))
<1> DEFINE m == Memory
           n == Memory'
<1>1. PICK o \in Free :
         /\ heap' = [heap EXCEPT ![o] = [Blank EXCEPT !.gen = gen]]
         /\ root' = [root EXCEPT ![r] = o]
         /\ UNCHANGED <<remset, queue, phase, gray, pc, store, running, majors>>
  BY Zenon DEF Allocate
<1>2. o \in Object /\ heap[o].gen = "free"
  BY DEF Free
<1>3. n = Allocated(m, r, o, gen)
  BY <1>1, MemoryIs, Zenon DEF Allocated
<1>4. /\ Sound(m) /\ Remembered(m, {}) /\ m.heap[o].gen = "free"
      /\ m.root \in [Root -> Value]
  BY <1>2, StateFacts
<1> HIDE DEF m, n
<1>5. AllocLeaves(m, gen, o, n)
  BY <1>2, <1>3, <1>4, AllocFacts
<1>6. \A p \in Root : n.root[p] = IF p = r THEN o ELSE m.root[p]
  <2>1. n.root = [m.root EXCEPT ![r] = o]
    BY <1>3 DEF Allocated
  <2> QED
    BY ONLY <1>4, <2>1
<1>7. Sees(n) \in AH!News(Sees(m))
  BY ONLY HeapAssumption, <1>2, <1>4, <1>5, <1>6, NewSeen
<1> QED
  BY <1>7 DEF SeenAs, m, n

\* A root gets Nil, or what a slot holds.
LEMMA RootSeen ==
  ASSUME HeapAssumption, IInv, IInv', NEW r \in Root, NEW v \in Value,
         \/ v = Nil
         \/ \E q \in Root : /\ Resolve(heap, root[q]) \in Object
                            /\ v = heap[Resolve(heap, root[q])].slot,
         root' = [root EXCEPT ![r] = v], heap' = heap
  PROVE  SeenAs(Sees(Memory), Sees(Memory'))
<1> DEFINE m == Memory
           n == Memory'
           x == Resolve(heap, v)
<1>1. /\ Sound(m) /\ m.heap = heap /\ m.root = root
      /\ n.heap = heap /\ n.root = root' /\ Sound(n)
      /\ heap \in Heaps /\ Chains(heap) /\ root \in [Root -> Value]
  <2>1. Sound(Memory')
    BY DEF IInv, MemoryInv
  <2> QED
    BY <2>1, StateFacts, MemoryIs
<1>2. \A p \in Root : root'[p] = IF p = r THEN v ELSE root[p]
  BY <1>1
<1>3. \/ x = Nil
      \/ \E q \in Root : /\ Resolve(heap, root[q]) \in Object
                         /\ x = Slot(heap, Resolve(heap, root[q]))
  <2>1. ASSUME v = Nil PROVE x = Nil
    BY <1>1, <2>1, ResolveFacts, HeapAssumption DEF Forwards, HeapAssumption, Value
  <2>2. ASSUME NEW q \in Root, Resolve(heap, root[q]) \in Object,
               v = heap[Resolve(heap, root[q])].slot
        PROVE  x = Slot(heap, Resolve(heap, root[q]))
    BY <2>2 DEF Slot
  <2> QED
    BY <2>1, <2>2
<1> HIDE DEF m, n, x
<1>4. \A p \in Root : Resolve(n.heap, n.root[p]) = IF p = r THEN x ELSE Resolve(m.heap, m.root[p])
  BY <1>1, <1>2 DEF x
<1>5. Reach(n.heap, n.root) \subseteq Reach(m.heap, m.root)
  <2>1. x \in Object => x \in Reach(heap, root)
    BY <1>3, ReachFacts, HeapAssumption DEF HeapAssumption
  <2>2. \A p \in Root : Resolve(heap, n.root[p]) \in Object
                         => Resolve(heap, n.root[p]) \in Reach(heap, root)
    BY <1>1, <1>4, <2>1, ReachFacts
  <2>3. \A o \in Reach(heap, root) : Slot(heap, o) \in Object => Slot(heap, o) \in Reach(heap, root)
    BY ReachFacts
  <2>4. Reach(heap, n.root) \subseteq Reach(heap, root)
    BY ONLY HeapAssumption, <2>2, <2>3, ReachLeast
  <2> QED
    BY <1>1, <2>4
<1>6. Sees(n) \in AH!Copies(Sees(m))
  BY ONLY HeapAssumption, r \in Root, <1>1, <1>3, <1>4, <1>5, RootsSeen
<1> QED
  BY <1>6 DEF SeenAs, m, n

LEMMA DropSeen ==
  ASSUME HeapAssumption, IInv, IInv', NEW r \in Root, Drop(r)
  PROVE  SeenAs(Sees(Memory), Sees(Memory'))
BY RootSeen DEF Drop, Value

LEMMA LoadSeen ==
  ASSUME HeapAssumption, IInv, IInv', NEW r \in Root, NEW q \in Root, Load(r, q)
  PROVE  SeenAs(Sees(Memory), Sees(Memory'))
<1> DEFINE v == heap[Resolve(heap, root[q])].slot
<1>1. /\ Resolve(heap, root[q]) \in Object
      /\ root' = [root EXCEPT ![r] = v] /\ heap' = heap
  BY DEF Load, Target
<1>2. v \in Value
  BY <1>1, StateFacts, HeapsAt
<1>3. \E p \in Root : /\ Resolve(heap, root[p]) \in Object
                     /\ v = heap[Resolve(heap, root[p])].slot
  BY <1>1
<1> HIDE DEF v
<1> QED
  BY <1>1, <1>2, <1>3, RootSeen

LEMMA StoresSeen ==
  ASSUME HeapAssumption, IInv, NEW r \in Root, NEW q \in Root, Store(r, q)
  PROVE  SeenAs(Sees(Memory), Sees(Memory'))
<1> DEFINE m == Memory
           n == Memory'
           o == Resolve(heap, root[r])
<1>1. /\ store = Nil /\ o \in Object
      /\ heap' = [heap EXCEPT ![o].slot = root[q]]
      /\ UNCHANGED <<root, remset, queue>>
  BY Zenon DEF Store, Target
<1>2. Sound(m) /\ Remembered(m, {}) /\ m.heap = heap /\ m.root = root
  BY <1>1, StateFacts
<1>3. n = [heap |-> [m.heap EXCEPT ![o].slot = m.root[q]], root |-> m.root,
           remset |-> m.remset, queue |-> m.queue]
  BY <1>1, MemoryIs, Zenon
<1>4. o = Resolve(m.heap, m.root[r])
  BY <1>2
<1> HIDE DEF m, n, o
<1>5. StoreLeaves(m, q, o, n)
  BY <1>1, <1>2, <1>3, <1>4, SetSlotFacts
<1>6. Sees(n) \in AH!Assigns(Sees(m))
  BY <1>1, <1>2, <1>4, <1>5, StoreSeen
<1> QED
  BY <1>6 DEF SeenAs, m, n

LEMMA GrowthSeen ==
  ASSUME HeapAssumption, GrowFrom \subseteq Young, IInv, NEW r \in Root, Grow(r)
  PROVE  SeenAs(Sees(Memory), Sees(Memory'))
<1> DEFINE m == Memory
           n == Memory'
           a == Resolve(heap, root[r])
<1>1. PICK b \in Free :
         /\ heap' = Grown(heap, a, b)
         /\ root' = [root EXCEPT ![r] = b]
  BY Zenon DEF Grow, Target, Grown
<1>2. store = Nil /\ a \in In(heap, GrowFrom) /\ UNCHANGED <<remset, queue>>
  BY Zenon DEF Grow, Target
<1>3. /\ b \in Object /\ heap[b].gen = "free"
      /\ a \in Object /\ a \in In(heap, Young) /\ a # b
  BY <1>2 DEF Free, In, Young
<1>4. m \in Memories /\ Sound(m) /\ Remembered(m, {}) /\ m.heap = heap /\ m.root = root
  BY <1>2, StateFacts
<1>5. n = [heap |-> Grown(m.heap, a, b), root |-> [m.root EXCEPT ![r] = b],
           remset |-> m.remset, queue |-> m.queue]
  BY <1>1, <1>2, MemoryIs, Zenon
<1>6. a = Resolve(m.heap, m.root[r]) /\ a \in In(m.heap, Young) /\ m.heap[b].gen = "free"
  BY <1>3, <1>4
<1> HIDE DEF m, n, a
<1>7. GrowLeaves(m, r, a, b, n)
  BY <1>3, <1>4, <1>5, GrowIs
<1>8. GrowView(m, a, b, n) /\ \A q \in Root : n.root[q] = IF q = r THEN b ELSE m.root[q]
  BY <1>3, <1>4, <1>6, <1>7, GrowFacts DEF GrowLeaves
<1>9. Sees(n) \in AH!Regrows(Sees(m))
  BY <1>3, <1>4, <1>6, <1>8, GrowSeen
<1> QED
  BY <1>9 DEF SeenAs, m, n

\* The program does not see a slot that is resolved, nor marks and flags.
LEMMA VisitSeen ==
  ASSUME HeapAssumption, IInv, root' = root,
         \A o \in Object : /\ heap'[o].forward = heap[o].forward
                           /\ heap'[o].slot \in {heap[o].slot, Slot(heap, o)}
  PROVE  Sees(Memory') = Sees(Memory)
<1> DEFINE m == Memory
           n == Memory'
<1>1. /\ m.heap = heap /\ m.root = root /\ n.heap = heap' /\ n.root = root'
      /\ heap \in Heaps /\ Chains(heap) /\ root \in [Root -> Value]
  BY StateFacts, MemoryIs
<1>2. \A w \in Value : Resolve(heap', w) = Resolve(heap, w)
  BY <1>1, SameForwards
<1>3. \A o \in Object : Slot(heap', o) = Slot(heap, o)
  <2> TAKE o \in Object
  <2>1. heap[o].slot \in Value /\ Slot(heap, o) \in Value
        /\ Resolve(heap, Slot(heap, o)) = Slot(heap, o)
    BY <1>1, HeapsAt, SlotFacts
  <2>2. Slot(heap', o) = Resolve(heap, heap'[o].slot)
    BY <1>2, <2>1 DEF Slot
  <2> QED
    BY <2>1, <2>2 DEF Slot
<1>4. \A r \in Root : Resolve(heap', root'[r]) = Resolve(heap, root[r])
  BY <1>1, <1>2
<1>5. Reach(heap', root') = Reach(heap, root)
  BY <1>3, <1>4, ReachFacts, SameReach
<1> HIDE DEF m, n
<1>6. Alike(m, n)
  BY <1>1, <1>3, <1>4, <1>5, ReachFacts DEF Alike
<1> QED
  BY <1>6, AlikeSeen DEF m, n

LEMMA BarrierSeen ==
  ASSUME HeapAssumption, IInv, Barrier
  PROVE  Sees(Memory') = Sees(Memory)
<1> DEFINE o == store.object
           v == store.value
           d == heap[o].gen \in Tenured /\ heap[v].gen \in Young /\ ~ heap[o].dirty
<1> HIDE DEF d
<1>1. BarrierLeaves(o, v, d)
  BY BarrierIs, Zenon DEF d
<1> HIDE DEF o, v
<1>2. /\ root' = root
      /\ \A p \in Object : /\ heap'[p].forward = heap[p].forward
                           /\ heap'[p].slot = heap[p].slot
  BY ONLY <1>1 DEF BarrierLeaves
<1> QED
  BY <1>2, VisitSeen

LEMMA TraceSeen ==
  ASSUME HeapAssumption, IInv, TraceOne
  PROVE  Sees(Memory') = Sees(Memory)
<1>1. PICK v \in gray :
        IF heap[v].marked THEN gray' = gray \ {v} /\ UNCHANGED heap
        ELSE /\ heap' = Visited(heap, v)
             /\ gray' = (gray \ {v}) \cup ({Slot(heap, v)} \cap Object)
  BY Zenon DEF TraceOne, Visited
<1>2. root' = root /\ v \in Object /\ heap \in Heaps /\ Slot(heap, v) \in Value
  BY StateFacts, SlotFacts DEF TraceOne
<1>3. \A o \in Object : /\ heap'[o].forward = heap[o].forward
                       /\ heap'[o].slot \in {heap[o].slot, Slot(heap, o)}
  <2>1. CASE heap' = heap
    BY <2>1
  <2>2. CASE heap' = Visited(heap, v)
    BY <1>2, <2>2, VisitIs
  <2> QED
    BY <1>1, <2>1, <2>2
<1> QED
  BY <1>2, <1>3, VisitSeen

LEMMA MinorSeen ==
  ASSUME HeapAssumption, IInv, MayCollect, NEW k \in Minors(Memory)
  PROVE  Sound(k) /\ Sees(k) = Sees(Memory)
<1> DEFINE m == Memory
<1>1. Sound(m) /\ Remembered(m, {}) /\ k \in Minors(m)
  BY StateFacts DEF MayCollect
<1> HIDE DEF m
<1>2. Sound(k) /\ Alike(m, k)
  BY ONLY HeapAssumption, <1>1, MinorFacts DEF Alike
<1> QED
  BY <1>2, AlikeSeen DEF m

LEMMA MajorSeen ==
  ASSUME HeapAssumption, IInv, EndTrace \/ EndMajor
  PROVE  Sees(Memory') = Sees(Memory)
<1> DEFINE m == Memory
<1>1. CASE EndMajor
  <2> DEFINE n == Sweep(m)
  <2>1. Sound(m) /\ ReadyToSweep(m) /\ Become(n)
    BY <1>1, StateFacts DEF IInv, SweepInv, EndMajor
  <2> HIDE DEF m
  <2>2. \A r \in Root : m.root[r] \in Value
    BY <2>1, MemoryFacts DEF Sound
  <2>3. n = Sweep(m)
    OBVIOUS
  <2> HIDE DEF n
  <2>4. /\ Sound(n) /\ n.root = m.root
        /\ Reach(n.heap, n.root) = Reach(m.heap, m.root)
        /\ \A w \in Value : Resolve(n.heap, w) = Resolve(m.heap, w)
        /\ \A o \in Reach(m.heap, m.root) : Slot(n.heap, o) = Slot(m.heap, o)
    BY ONLY HeapAssumption, <2>1, <2>3, SweepFacts
  <2>5. Alike(m, n)
    BY ONLY <2>2, <2>4 DEF Alike
  <2>6. Memory' = n
    BY <2>1, <2>4, BecomeIs
  <2> QED
    BY <2>5, <2>6, AlikeSeen DEF m
<1>2. CASE EndTrace
  <2> DEFINE n == Remark(m, {})
  <2>1. pc = "trace" /\ gray = {} /\ store = Nil /\ Become(n)
    BY <1>2 DEF EndTrace
  <2> HIDE DEF n
  <2>2. Sound(n) /\ SameView(m, n)
    BY <2>1, RemarkAtEnd DEF n
  <2>3. Reach(m.heap, m.root) \subseteq Object
    BY ReachFacts
  <2> HIDE DEF m
  <2>4. Alike(m, n)
    BY ONLY <2>2, <2>3 DEF SameView, Alike
  <2>5. Memory' = n
    BY <2>1, <2>2, BecomeIs
  <2> QED
    BY <2>4, <2>5, AlikeSeen DEF m
<1> QED
  BY <1>1, <1>2

LEMMA PauseSeen ==
  ASSUME HeapAssumption, IInv, AllocSlow \/ MinorGc \/ StartMajor, CleanStart
  PROVE  Sees(Memory') = Sees(Memory)
<1>1. MayCollect
  BY DEF AllocSlow, MinorGc, StartMajor
<1>2. ASSUME NEW k \in Minors(Memory), Become(k)
      PROVE  Sees(Memory') = Sees(Memory)
  <2>1. Sound(k) /\ Sees(k) = Sees(Memory)
    BY <1>1, MinorSeen
  <2>2. Memory' = k
    BY <1>2, <2>1, BecomeIs
  <2> QED
    BY <2>1, <2>2
<1>3. CASE MinorGc
  BY <1>2, <1>3, Zenon DEF MinorGc
<1>4. CASE StartMajor
  BY <1>2, <1>4, Zenon DEF StartMajor
<1>5. CASE AllocSlow
  <2>1. PICK k \in Minors(Memory) :
          IF Cardinality(In(k.heap, {"old"})) > OldThreshold
          THEN /\ majors < MaxMajors /\ majors' = majors + 1
               /\ Become(Sweep(Remark(MarkRoots(k, k.queue), {})))
               /\ running' = Left(running, {o \in Object : heap'[o].gen = "free"})
          ELSE Become(k) /\ UNCHANGED <<majors, running>>
    BY <1>5 DEF AllocSlow
  <2>2. CASE Become(k)
    BY <1>2, <2>2
  <2>3. CASE /\ majors' = majors + 1
             /\ Become(Sweep(Remark(MarkRoots(k, k.queue), {})))
    <3> DEFINE n == Sweep(Remark(MarkRoots(k, k.queue), {}))
    <3>1. Become(n) /\ majors' # majors
      BY <2>3, HeapAssumption DEF IInv, CountInv, HeapAssumption
    <3>2. /\ Sound(k) /\ Remembered(k, {})
          /\ \A o \in Object : k.heap[o].forward = Nil
          /\ \A o \in Object : k.heap[o].marked => heap[o].marked
      BY <1>1, MinorStays
    <3>3. \A o \in Object : ~ k.heap[o].marked
      BY <3>1, <3>2 DEF CleanStart
    <3> HIDE DEF n
    <3>4. Sound(n) /\ Alike(k, n)
      BY ONLY HeapAssumption, <3>2, <3>3, FullStays DEF n
    <3>5. Memory' = n /\ Sees(n) = Sees(k)
      BY <3>1, <3>4, BecomeIs, AlikeSeen
    <3> QED
      BY <1>1, <3>5, MinorSeen
  <2> QED
    BY <2>1, <2>2, <2>3
<1> QED
  BY <1>3, <1>4, <1>5

LEMMA StepSeen ==
  ASSUME GrowFrom \subseteq Young, IInv, IInv', Next, CleanStart
  PROVE  SeenAs(Sees(Memory), Sees(Memory'))
<1>1. ASSUME Sees(Memory') = Sees(Memory)
      PROVE  SeenAs(Sees(Memory), Sees(Memory'))
  BY <1>1 DEF SeenAs
<1>2. ASSUME NEW r \in Root, Alloc(r) \/ AllocLarge(r)
      PROVE  SeenAs(Sees(Memory), Sees(Memory'))
  BY <1>2, HeapAssumption, AllocateSeen DEF Alloc, AllocLarge
<1>3. ASSUME NEW r \in Root, Drop(r) \/ Grow(r)
      PROVE  SeenAs(Sees(Memory), Sees(Memory'))
  BY <1>3, HeapAssumption, DropSeen, GrowthSeen
<1>4. ASSUME NEW r \in Root, NEW q \in Root, Load(r, q) \/ Store(r, q)
      PROVE  SeenAs(Sees(Memory), Sees(Memory'))
  BY <1>4, HeapAssumption, LoadSeen, StoresSeen
<1>5. CASE Barrier \/ TraceOne
  BY <1>1, <1>5, HeapAssumption, BarrierSeen, TraceSeen
<1>6. CASE AllocSlow \/ MinorGc \/ StartMajor
  BY <1>1, <1>6, HeapAssumption, PauseSeen
<1>7. CASE EndTrace \/ EndMajor
  BY <1>1, <1>7, HeapAssumption, MajorSeen
<1>8. CASE TakeFinalizer \/ RunFinalizer
  <2>1. heap' = heap /\ root' = root
    BY <1>8 DEF TakeFinalizer, RunFinalizer
  <2> QED
    BY <1>1, <2>1, HeapAssumption, VisitSeen
<1> QED
  BY <1>2, <1>3, <1>4, <1>5, <1>6, <1>7, <1>8 DEF Next, Program, Collector

LEMMA InitSeen ==
  ASSUME Init
  PROVE  AH!AbsInit
<1> DEFINE m == Memory
           v == [r \in Root |-> Nil]
           f == [o \in Object |-> Nil]
<1>1. /\ Sound(m) /\ m.heap = heap /\ m.root = root
      /\ heap \in Heaps /\ Chains(heap)
  BY InitInvariant, HeapAssumption, StateFacts
<1>2. root = v /\ \A o \in Object : heap[o].gen = "free"
  BY DEF Init, Blank
<1>3. \A r \in Root : Resolve(heap, root[r]) = Nil
  BY <1>1, <1>2, ResolveFacts, HeapAssumption DEF HeapAssumption, Forwards, Value
<1>4. Reach(heap, root) = {}
  BY <1>1, <1>2, ReachUsed, ReachFacts, HeapAssumption
<1> HIDE DEF m
<1>5. Shows(m, v, f) /\ v = [r \in Root |-> v[r]]
  BY <1>1, <1>3, <1>4 DEF Shows
<1> HIDE DEF v, f
<1>6. AH!View(v, f) = Sees(m)
  BY <1>1, <1>5, HeapAssumption, ViewIs
<1> QED
  BY <1>6, VisibleIs DEF AH!AbsInit, m, v, f

\* To the program the heap is one that never moves nor frees what it reaches:
\* every collection leaves what it sees as it was, and every operation does
\* what it says on that view.
THEOREM Refinement ==
  ASSUME GrowFrom \subseteq Young
  PROVE  Spec /\ [][CleanStart]_vars => HeapRefines
<1>1. IInv /\ IInv' /\ [Next]_vars /\ [CleanStart]_vars => [AH!AbsNext]_Visible
  <2>1. ASSUME IInv, IInv', Next, CleanStart PROVE AH!AbsNext
    <3>1. SeenAs(Sees(Memory), Sees(Memory'))
      BY <2>1, StepSeen
    <3>2. SeenAs(Visible, Visible')
      BY <3>1, VisibleIs
    <3> QED
      BY <3>2 DEF SeenAs, AH!AbsNext, AH!Collection
  <2>2. ASSUME UNCHANGED vars PROVE UNCHANGED Visible
    <3>1. Memory' = Memory
      BY <2>2 DEF vars, Memory
    <3> QED
      BY <3>1, VisibleIs
  <2>3. UNCHANGED vars => CleanStart
    BY DEF CleanStart, vars
  <2> QED
    BY <2>1, <2>2, <2>3
<1> QED
  BY <1>1, InitSeen, HeapInvariant, PTL DEF Spec, HeapRefines, AH!AbsSpec

-----------------------------------------------------------------------------
(* One major collection.                                                     *)

LEMMA FirstIsClean ==
  ASSUME MaxMajors <= 1, IInv, [Next]_vars
  PROVE  CleanStart
<1> SUFFICES ASSUME majors' # majors PROVE majors < MaxMajors
  <2>1. majors < MaxMajors => majors = 0
    BY HeapAssumption DEF IInv, CountInv
  <2> QED
    BY <2>1 DEF IInv, CountInv, CleanStart
<1>1. majors' # majors => AllocSlow \/ StartMajor
  BY DEF Next, Program, Collector, Alloc, AllocLarge, Allocate, Drop, Grow, Load, Store,
         Barrier, MinorGc, TraceOne, EndTrace, EndMajor, TakeFinalizer, RunFinalizer, vars
<1> QED
  BY <1>1 DEF AllocSlow, StartMajor

\* Up to the end of the first major collection nothing is assumed about marks.
THEOREM OneMajorCollection ==
  ASSUME GrowFrom \subseteq Young, MaxMajors <= 1
  PROVE  Spec => /\ [](NoDangling /\ OldToYoungRemembered /\ SweepSparesLive)
                 /\ FinalizesGarbage /\ HeapRefines
<1>1. Init => IInv
  BY InitInvariant
<1>2. IInv /\ [Next]_vars => IInv' /\ [CleanStart]_vars
  BY FirstIsClean, StepInvariant
<1>3. Spec => [][CleanStart]_vars
  BY <1>1, <1>2, PTL DEF Spec
<1> QED
  BY <1>3, NothingDangles, RemembersOldToYoung, SweepSafe, FinalizersRunOnGarbage,
     Refinement, PTL

=============================================================================
