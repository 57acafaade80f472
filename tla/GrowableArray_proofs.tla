------------------------- MODULE GrowableArray_proofs -------------------------
(***************************************************************************)
(* Proofs about GrowableArray, for any number of variables and bodies and  *)
(* any length.                                                             *)
(*                                                                         *)
(* ArrayInv says that the bodies form a chain, each forwarded to the one   *)
(* allocated after it, that the variables name bodies of the chain, and    *)
(* that the last body holds what the program has stored.                   *)
(***************************************************************************)
EXTENDS GrowableArray, FiniteSetTheorems, SequenceTheorems, WellFoundedInduction, TLAPS

-----------------------------------------------------------------------------
\* A set of naturals has a smallest member.
LEMMA SmallestOf ==
  ASSUME NEW T \in SUBSET Nat, T # {}
  PROVE  \E x \in T : \A y \in T : x <= y
<1> DEFINE below == OpToRel(<, Nat)
<1>1. IsWellFoundedOn(below, Nat)
  BY ONLY NatLessThanWellFounded, Zenon
<1>2. \A x, y \in Nat : <<y, x>> \in below <=> y < x
  BY Zenon DEF OpToRel
<1> HIDE DEF below
<1>3. PICK x \in T : \A y \in T : <<y, x>> \notin below
  BY <1>1, WFMin
<1>4. \A y \in T : ~ (y < x)
  BY <1>2, <1>3
<1> QED
  BY <1>4

LEMMA LeastIs ==
  ASSUME NEW T \in SUBSET Int, NEW a \in T, \A y \in T : a <= y
  PROVE  (CHOOSE x \in T : \A y \in T : x <= y) = a /\ Min(T) = a
<1> DEFINE least == CHOOSE x \in T : \A y \in T : x <= y
<1>1. least \in T /\ \A y \in T : least <= y
  BY Zenon
<1> HIDE DEF least
<1>2. least = a
  BY <1>1
<1> QED
  BY <1>2 DEF Min, least

-----------------------------------------------------------------------------
(* Bodies in use *)

\* A body that no other has taken over from.
Good(x) ==
  /\ x = [data |-> x.data, length |-> x.length, cap |-> x.cap, forward |-> 0]
  /\ x.cap \in Nat /\ x.length \in 0 .. x.cap
  /\ x.data = [i \in 0 .. x.cap - 1 |-> x.data[i]]

\* It holds the elements of c.
Holds(x, c) == Good(x) /\ c = Elements(x)

LEMMA WordIs ==
  ASSUME NEW n \in Nat, NEW w, DOMAIN w = 1 .. n, w = [i \in 1 .. n |-> w[i]]
  PROVE  w \in Seq({w[i] : i \in 1 .. n}) /\ Len(w) = n
<1> DEFINE S == {w[i] : i \in 1 .. n}
<1>1. w \in [1 .. n -> S]
  <2>1. \A i \in 1 .. n : w[i] \in S
    OBVIOUS
  <2> QED
    BY <2>1
<1>2. w \in Seq(S)
  BY <1>1, SeqDef
<1> HIDE DEF S
<1>3. Len(w) \in Nat /\ DOMAIN w = 1 .. Len(w)
  BY <1>2, LenProperties
<1>4. Len(w) = n
  BY <1>3
<1> QED
  BY <1>2, <1>4 DEF S

LEMMA HoldsFacts ==
  ASSUME NEW x, NEW c, Holds(x, c)
  PROVE  /\ \E S : c \in Seq(S)
         /\ Len(c) = x.length /\ x.length \in Nat
         /\ DOMAIN c = 1 .. x.length
         /\ \A i \in 1 .. x.length : c[i] = x.data[i - 1]
<1>1. x.length \in Nat /\ c = [i \in 1 .. x.length |-> x.data[i - 1]]
  BY DEF Holds, Good, Elements
<1>2. /\ DOMAIN c = 1 .. x.length /\ c = [i \in 1 .. x.length |-> c[i]]
      /\ \A i \in 1 .. x.length : c[i] = x.data[i - 1]
  BY <1>1
<1>3. c \in Seq({c[i] : i \in 1 .. x.length}) /\ Len(c) = x.length
  BY <1>1, <1>2, WordIs
<1> QED
  BY <1>1, <1>2, <1>3

LEMMA HoldsWhen ==
  ASSUME NEW x, Good(x), NEW S, NEW c \in Seq(S), Len(c) = x.length,
         \A i \in 1 .. x.length : c[i] = x.data[i - 1]
  PROVE  Holds(x, c)
<1>1. c = [i \in 1 .. x.length |-> c[i]]
  BY LenProperties
<1>2. c = [i \in 1 .. x.length |-> x.data[i - 1]]
  BY <1>1
<1> QED
  BY <1>2 DEF Holds, Elements

LEMMA GoodWhen ==
  ASSUME NEW d, NEW n, NEW cap \in Nat, n \in 0 .. cap,
         d = [i \in 0 .. cap - 1 |-> d[i]],
         NEW x, x = [data |-> d, length |-> n, cap |-> cap, forward |-> 0]
  PROVE  Good(x) /\ x.data = d /\ x.length = n /\ x.cap = cap /\ x.forward = 0
BY DEF Good

LEMMA ExceptLength ==
  ASSUME NEW x, Good(x), NEW n
  PROVE  [x EXCEPT !.length = n]
           = [data |-> x.data, length |-> n, cap |-> x.cap, forward |-> 0]
<1>1. x \in [data : {x.data}, length : {x.length}, cap : {x.cap}, forward : {0}]
  BY DEF Good
<1> QED
  BY <1>1

LEMMA ExceptData ==
  ASSUME NEW x, Good(x), NEW d
  PROVE  [x EXCEPT !.data = d]
           = [data |-> d, length |-> x.length, cap |-> x.cap, forward |-> 0]
<1>1. x \in [data : {x.data}, length : {x.length}, cap : {x.cap}, forward : {0}]
  BY DEF Good
<1> QED
  BY <1>1

LEMMA ExceptDataLength ==
  ASSUME NEW x, Good(x), NEW d, NEW n
  PROVE  [x EXCEPT !.data = d, !.length = n]
           = [data |-> d, length |-> n, cap |-> x.cap, forward |-> 0]
<1> DEFINE y == [x EXCEPT !.data = d]
<1>1. y = [data |-> d, length |-> x.length, cap |-> x.cap, forward |-> 0]
  BY ExceptData, Zenon
<1> HIDE DEF y
<1>2. [y EXCEPT !.length = n] = [data |-> d, length |-> n, cap |-> x.cap, forward |-> 0]
  BY ONLY <1>1
<1> QED
  BY <1>2, Zenon DEF y

LEMMA ExceptCapData ==
  ASSUME NEW x, Good(x), NEW d, NEW cap
  PROVE  [x EXCEPT !.cap = cap, !.data = d]
           = [data |-> d, length |-> x.length, cap |-> cap, forward |-> 0]
<1> DEFINE y == [x EXCEPT !.cap = cap]
<1>1. y = [data |-> x.data, length |-> x.length, cap |-> cap, forward |-> 0]
  <2>1. x \in [data : {x.data}, length : {x.length}, cap : {x.cap}, forward : {0}]
    BY DEF Good
  <2> QED
    BY <2>1
<1> HIDE DEF y
<1>2. [y EXCEPT !.data = d] = [data |-> d, length |-> x.length, cap |-> cap, forward |-> 0]
  BY ONLY <1>1
<1> QED
  BY <1>2, Zenon DEF y

\* A larger body holds what the smaller one did.
LEMMA GrownHolds ==
  ASSUME NEW x, NEW c, Holds(x, c), NEW required \in Nat
  PROVE  /\ Holds(Grown(x, required), c)
         /\ required <= Grown(x, required).cap
         /\ Grown(x, required).length = x.length
<1>1. CASE required <= x.cap
  BY <1>1 DEF Grown
<1>2. CASE ~ (required <= x.cap)
  <2> DEFINE cap == NewCapacity(x.cap, required)
             d == [i \in 0 .. cap - 1 |-> IF i < x.cap THEN x.data[i] ELSE 0]
             y == [x EXCEPT !.cap = cap, !.data = d]
  <2>1. x.cap \in Nat /\ x.length \in 0 .. x.cap
    BY DEF Holds, Good
  <2>2. cap \in Nat /\ x.cap <= cap /\ required <= cap
    BY <1>2, <2>1 DEF NewCapacity
  <2> HIDE DEF cap
  <2>3. d = [i \in 0 .. cap - 1 |-> d[i]]
    OBVIOUS
  <2>4. \A i \in 0 .. x.cap - 1 : d[i] = x.data[i]
    BY <2>1, <2>2
  <2> HIDE DEF d
  <2>5. y = [data |-> d, length |-> x.length, cap |-> cap, forward |-> 0]
    BY ExceptCapData, Zenon DEF Holds
  <2> HIDE DEF y
  <2>6. /\ Good(y) /\ y.data = d /\ y.length = x.length /\ y.cap = cap
    <3>1. x.length \in 0 .. cap
      BY <2>1, <2>2
    <3> QED
      BY <2>2, <2>3, <2>5, <3>1, GoodWhen
  <2>7. c = Elements(y)
    <3>1. \A i \in 1 .. x.length : y.data[i - 1] = x.data[i - 1]
      BY <2>1, <2>4, <2>6
    <3> QED
      BY <2>1, <2>6, <3>1 DEF Holds, Elements
  <2>8. Grown(x, required) = y
    BY <1>2 DEF Grown, cap, d, y
  <2> QED
    BY <2>2, <2>6, <2>7, <2>8 DEF Holds
<1> QED
  BY <1>1, <1>2

-----------------------------------------------------------------------------
(* What the operations do to a body *)

\* Where the elements of a body go.
LEMMA StoredIs ==
  ASSUME NEW k \in Nat, NEW data, DOMAIN data = 0 .. k - 1, NEW n \in Int, NEW e,
         NEW m, m = [data EXCEPT ![n] = e]
  PROVE  /\ DOMAIN m = 0 .. k - 1 /\ m = [i \in 0 .. k - 1 |-> m[i]]
         /\ \A i \in 0 .. k - 1 : m[i] = IF i = n THEN e ELSE data[i]
<1>1. DOMAIN m = 0 .. k - 1
  OBVIOUS
<1>2. \A i \in 0 .. k - 1 : m[i] = IF i = n THEN e ELSE data[i]
  OBVIOUS
<1>3. m = [i \in DOMAIN m |-> m[i]]
  OBVIOUS
<1> QED
  BY <1>1, <1>2, <1>3

LEMMA Edited ==
  ASSUME NEW x, Good(x), NEW d, d = [i \in 0 .. x.cap - 1 |-> d[i]],
         NEW n \in 0 .. x.cap, NEW c, \E S : c \in Seq(S), Len(c) = n,
         \A i \in 0 .. n - 1 : c[i + 1] = d[i]
  PROVE  Holds([data |-> d, length |-> n, cap |-> x.cap, forward |-> 0], c)
<1> PICK S : c \in Seq(S)
  OBVIOUS
<1> DEFINE y == [data |-> d, length |-> n, cap |-> x.cap, forward |-> 0]
<1>1. x.cap \in Nat
  BY DEF Good
<1> DEFINE k == x.cap
<1>2. y = [data |-> d, length |-> n, cap |-> k, forward |-> 0]
  OBVIOUS
<1>3. k \in Nat /\ n \in 0 .. k /\ d = [i \in 0 .. k - 1 |-> d[i]]
  BY <1>1
<1> HIDE DEF y, k
<1>4. Good(y) /\ y.data = d /\ y.length = n
  BY ONLY <1>2, <1>3, GoodWhen
<1>5. ASSUME NEW i \in 1 .. n PROVE c[i] = d[i - 1]
  <2>1. i - 1 \in 0 .. n - 1 /\ (i - 1) + 1 = i
    BY <1>1
  <2> QED
    BY <2>1
<1>6. Holds(y, c)
  BY <1>4, <1>5, HoldsWhen
<1> QED
  BY <1>6 DEF y

LEMMA Parts ==
  ASSUME NEW x, NEW c, Holds(x, c)
  PROVE  /\ Good(x) /\ x.cap \in Nat /\ x.length \in Nat /\ x.length <= x.cap
         /\ DOMAIN x.data = 0 .. x.cap - 1
         /\ Len(c) = x.length /\ \A i \in 0 .. x.length - 1 : c[i + 1] = x.data[i]
<1>1. Good(x) /\ x.cap \in Nat /\ x.length \in Nat /\ x.length <= x.cap
  BY DEF Holds, Good
<1>2. DOMAIN x.data = 0 .. x.cap - 1
  BY DEF Holds, Good
<1>3. ASSUME NEW i \in 0 .. x.length - 1 PROVE c[i + 1] = x.data[i]
  <2>1. i + 1 \in 1 .. x.length /\ (i + 1) - 1 = i
    BY <1>1
  <2> QED
    BY <2>1, HoldsFacts
<1> QED
  BY <1>1, <1>2, <1>3, HoldsFacts

LEMMA PushHolds ==
  ASSUME NEW x, NEW c, Holds(x, c), x.length + 1 <= x.cap, NEW e
  PROVE  Holds([x EXCEPT !.data[x.length] = e, !.length = x.length + 1], Append(c, e))
<1> DEFINE n == x.length
           k == x.cap
           data == x.data
           d == [data EXCEPT ![n] = e]
           w == Append(c, e)
<1>1. Good(x) /\ Len(c) = n /\ \E S : c \in Seq(S)
  BY Parts, HoldsFacts
<1>2. k \in Nat /\ n \in Nat /\ n + 1 <= k /\ n + 1 \in 0 .. k
  BY Parts
<1>3. DOMAIN data = 0 .. k - 1 /\ \A i \in 0 .. n - 1 : c[i + 1] = data[i]
  BY Parts
<1>4. [x EXCEPT !.data = d, !.length = n + 1]
        = [data |-> d, length |-> n + 1, cap |-> k, forward |-> 0]
  BY <1>1, ExceptDataLength, Zenon
<1> HIDE DEF n, k, data
<1>5. /\ d = [i \in 0 .. k - 1 |-> d[i]]
      /\ \A i \in 0 .. k - 1 : d[i] = IF i = n THEN e ELSE data[i]
  BY <1>2, <1>3, StoredIs
<1>6. PICK S : c \in Seq(S)
  BY <1>1
<1>7. \E T : w \in Seq(T)
  <2>1. w \in Seq(S \cup {e})
    BY <1>6
  <2> QED
    BY <2>1
<1>8. Len(w) = n + 1 /\ \A i \in 0 .. n : w[i + 1] = IF i = n THEN e ELSE c[i + 1]
  BY <1>1, <1>2
<1> HIDE DEF d, w
<1>9. \A i \in 0 .. n : w[i + 1] = d[i]
  BY ONLY <1>2, <1>3, <1>5, <1>8
<1>10. Holds([data |-> d, length |-> n + 1, cap |-> k, forward |-> 0], w)
  <2>1. \A i \in 0 .. (n + 1) - 1 : w[i + 1] = d[i]
    BY <1>2, <1>9
  <2> QED
    BY <1>1, <1>2, <1>5, <1>8, <2>1, <1>7, Edited DEF k
<1> QED
  BY <1>4, <1>10, Zenon DEF d, w, n, data

LEMMA PopHolds ==
  ASSUME NEW x, NEW c, Holds(x, c), x.length > 0
  PROVE  Holds([x EXCEPT !.length = x.length - 1], Front(c))
<1> DEFINE n == x.length
           k == x.cap
           data == x.data
           w == Front(c)
<1>1. Good(x) /\ Len(c) = n /\ \E S : c \in Seq(S)
  BY Parts, HoldsFacts
<1>2. k \in Nat /\ n \in Nat /\ 0 < n /\ n <= k /\ n - 1 \in 0 .. k
  BY Parts
<1>3. /\ data = [i \in 0 .. k - 1 |-> data[i]]
      /\ \A i \in 0 .. n - 1 : c[i + 1] = data[i]
  BY Parts DEF Good
<1>4. [x EXCEPT !.length = n - 1]
        = [data |-> data, length |-> n - 1, cap |-> k, forward |-> 0]
  BY <1>1, ExceptLength, Zenon
<1> HIDE DEF n, k, data
<1>5. PICK S : c \in Seq(S)
  BY <1>1
<1>6. \A i \in 1 .. n - 1 : c[i] \in S
  BY <1>1, <1>2, <1>5, ElementOfSeq
<1>7. w \in Seq(S) /\ Len(w) = n - 1 /\ \A i \in 1 .. n - 1 : w[i] = c[i]
  BY <1>1, <1>2, <1>6, SubSeqProperties DEF Front
<1> HIDE DEF w
<1>8. ASSUME NEW i \in 0 .. (n - 1) - 1 PROVE w[i + 1] = data[i]
  <2>1. i + 1 \in 1 .. n - 1 /\ i \in 0 .. n - 1
    BY ONLY <1>2
  <2> QED
    BY ONLY <1>3, <1>7, <2>1
<1>9. Holds([data |-> data, length |-> n - 1, cap |-> k, forward |-> 0], w)
  BY <1>1, <1>2, <1>3, <1>7, <1>8, Edited DEF k
<1> QED
  BY <1>4, <1>9, Zenon DEF w, n

LEMMA ShiftHolds ==
  ASSUME NEW x, NEW c, Holds(x, c), x.length > 0
  PROVE  Holds([x EXCEPT !.data = Moved(x.data, 0, 1, x.length - 1),
                         !.length = x.length - 1], Tail(c))
<1> DEFINE n == x.length
           k == x.cap
           data == x.data
           d == Moved(data, 0, 1, n - 1)
           w == Tail(c)
<1>1. Good(x) /\ Len(c) = n /\ \E S : c \in Seq(S)
  BY Parts, HoldsFacts
<1>2. k \in Nat /\ n \in Nat /\ 0 < n /\ n <= k /\ n - 1 \in 0 .. k
  BY Parts
<1>3. DOMAIN data = 0 .. k - 1 /\ \A i \in 0 .. n - 1 : c[i + 1] = data[i]
  BY Parts
<1>4. [x EXCEPT !.data = d, !.length = n - 1]
        = [data |-> d, length |-> n - 1, cap |-> k, forward |-> 0]
  BY <1>1, ExceptDataLength, Zenon
<1> HIDE DEF n, k, data
<1>5. /\ d = [i \in 0 .. k - 1 |-> d[i]]
      /\ \A i \in 0 .. k - 1 : d[i] = IF i < n - 1 THEN data[i + 1] ELSE data[i]
  <2>1. d = Moved(data, 0, 1, n - 1)
    OBVIOUS
  <2> HIDE DEF d
  <2>2. d = [i \in 0 .. k - 1 |-> d[i]]
    BY ONLY <1>2, <1>3, <2>1 DEF Moved
  <2>3. \A i \in 0 .. k - 1 : d[i] = IF i < n - 1 THEN data[i + 1] ELSE data[i]
    BY ONLY <1>2, <1>3, <2>1 DEF Moved
  <2> QED
    BY <2>2, <2>3
<1>6. PICK S : c \in Seq(S)
  BY <1>1
<1>7. /\ w \in Seq(S) /\ Len(w) = n - 1
      /\ \A i \in 1 .. Len(w) : w[i] = c[i + 1]
  <2>1. c # <<>>
    BY <1>1, <1>2
  <2> QED
    BY <1>1, <1>6, <2>1, HeadTailProperties
<1> HIDE DEF d, w
<1>8. \A i \in 0 .. (n - 1) - 1 : w[i + 1] = d[i]
  BY ONLY <1>2, <1>3, <1>5, <1>7
<1>9. Holds([data |-> d, length |-> n - 1, cap |-> k, forward |-> 0], w)
  BY <1>1, <1>2, <1>5, <1>7, <1>8, Edited DEF k
<1> QED
  BY <1>4, <1>9, Zenon DEF d, w, n, data

LEMMA UnshiftHolds ==
  ASSUME NEW x, NEW c, Holds(x, c), x.length + 1 <= x.cap, NEW e
  PROVE  Holds([x EXCEPT !.data = Filled(Moved(x.data, 1, 0, x.length), 0, <<e>>),
                         !.length = x.length + 1], <<e>> \o c)
<1> DEFINE n == x.length
           k == x.cap
           data == x.data
           one == <<e>>
           m == Moved(data, 1, 0, n)
           d == Filled(m, 0, one)
           w == one \o c
<1>1. Good(x) /\ Len(c) = n /\ \E S : c \in Seq(S)
  BY Parts, HoldsFacts
<1>2. k \in Nat /\ n \in Nat /\ n + 1 <= k /\ n + 1 \in 0 .. k
  BY Parts
<1>3. DOMAIN data = 0 .. k - 1 /\ \A i \in 0 .. n - 1 : c[i + 1] = data[i]
  BY Parts
<1>4. [x EXCEPT !.data = d, !.length = n + 1]
        = [data |-> d, length |-> n + 1, cap |-> k, forward |-> 0]
  BY <1>1, ExceptDataLength, Zenon
<1>5. \A S : one \in Seq(S \cup {e})
  OBVIOUS
<1>6. one \in Seq({e}) /\ Len(one) = 1 /\ one[1] = e
  OBVIOUS
<1> HIDE DEF n, k, data, one
<1>7. m = Moved(data, 1, 0, n) /\ d = Filled(m, 0, one)
  OBVIOUS
<1> HIDE DEF m, d, w
<1>8. /\ DOMAIN m = 0 .. k - 1
      /\ \A i \in 1 .. n : m[i] = data[i - 1]
  <2>1. DOMAIN m = 0 .. k - 1
    BY ONLY <1>2, <1>3, <1>7 DEF Moved
  <2>2. \A i \in 1 .. n : m[i] = data[i - 1]
    BY ONLY <1>2, <1>3, <1>7 DEF Moved
  <2> QED
    BY <2>1, <2>2
<1>9. /\ d = [i \in 0 .. k - 1 |-> d[i]]
      /\ d[0] = e /\ \A i \in 1 .. n : d[i] = m[i]
  <2>1. DOMAIN one = 1 .. 1
    BY <1>6, LenProperties
  <2>2. d = [i \in 0 .. k - 1 |-> d[i]]
    BY ONLY <1>2, <1>7, <1>8, <2>1 DEF Filled
  <2>3. \A i \in 1 .. n : d[i] = m[i]
    BY ONLY <1>2, <1>7, <1>8, <2>1 DEF Filled
  <2>4. d[0] = one[1]
    BY ONLY <1>2, <1>7, <1>8, <2>1 DEF Filled
  <2> QED
    BY <1>6, <2>2, <2>3, <2>4
<1>10. PICK S : c \in Seq(S)
  BY <1>1
<1>11. /\ \E T : w \in Seq(T)
       /\ Len(w) = 1 + n
       /\ \A i \in 1 .. 1 + n : w[i] = IF i <= 1 THEN one[i] ELSE c[i - 1]
  <2> DEFINE T == S \cup {e}
  <2>1. c \in Seq(T) /\ one \in Seq(T)
    <3>1. \A q \in Seq(S) : q \in Seq(S \cup {e})
      OBVIOUS
    <3> QED
      BY <1>5, <1>10, <3>1
  <2> HIDE DEF T
  <2> QED
    <3>1. /\ w \in Seq(T) /\ Len(w) = Len(one) + Len(c)
          /\ \A i \in 1 .. Len(one) + Len(c) :
               w[i] = IF i <= Len(one) THEN one[i] ELSE c[i - Len(one)]
      BY <2>1, ConcatProperties, Zenon DEF w
    <3> QED
      BY <1>1, <1>2, <1>6, <3>1
<1>12. \A i \in 0 .. (n + 1) - 1 : w[i + 1] = d[i]
  <2>1. ASSUME NEW i \in 1 .. n PROVE w[i + 1] = data[i - 1] /\ d[i] = data[i - 1]
    <3>1. i - 1 \in 0 .. n - 1 /\ (i - 1) + 1 = i /\ i \in 0 .. k - 1 /\ 0 + i - 1 = i - 1
      BY <1>2
    <3>2. w[i + 1] = c[i] /\ c[i] = data[i - 1]
      BY ONLY <1>2, <1>3, <1>11, <3>1
    <3>3. d[i] = m[i] /\ m[i] = data[i - 1]
      BY ONLY <1>8, <1>9
    <3> QED
      BY <3>2, <3>3
  <2>2. w[1] = e /\ d[0] = e
    <3>1. 1 \in 1 .. 1 + n /\ 1 <= 1
      BY ONLY <1>2
    <3>2. w[1] = one[1]
      BY ONLY <1>11, <3>1
    <3> QED
      BY ONLY <1>6, <1>9, <3>2
  <2> QED
    BY ONLY <1>2, <2>1, <2>2
<1>13. Holds([data |-> d, length |-> n + 1, cap |-> k, forward |-> 0], w)
  <2>1. Len(w) = n + 1 /\ \E T : w \in Seq(T)
    BY <1>2, <1>11
  <2>2. Good(x) /\ d = [i \in 0 .. x.cap - 1 |-> d[i]] /\ n + 1 \in 0 .. x.cap
    BY <1>1, <1>2, <1>9 DEF k
  <2>3. Holds([data |-> d, length |-> n + 1, cap |-> x.cap, forward |-> 0], w)
    BY ONLY <1>12, <2>1, <2>2, Edited
  <2> QED
    BY <2>3, Zenon DEF k
<1> QED
  BY <1>4, <1>13, Zenon DEF d, w, n, data, one, m

LEMMA SetWithinHolds ==
  ASSUME NEW x, NEW c, Holds(x, c), NEW a \in 0 .. x.length - 1, NEW e
  PROVE  Holds([x EXCEPT !.data[a] = e], [c EXCEPT ![a + 1] = e])
<1> DEFINE n == x.length
           k == x.cap
           data == x.data
           d == [data EXCEPT ![a] = e]
           w == [c EXCEPT ![a + 1] = e]
<1>1. Good(x) /\ Len(c) = n /\ \E S : c \in Seq(S)
  BY Parts, HoldsFacts
<1>2. k \in Nat /\ n \in Nat /\ n <= k /\ n \in 0 .. k /\ a \in 0 .. n - 1
  BY Parts
<1>3. DOMAIN data = 0 .. k - 1 /\ \A i \in 0 .. n - 1 : c[i + 1] = data[i]
  BY Parts
<1>4. [x EXCEPT !.data = d]
        = [data |-> d, length |-> n, cap |-> k, forward |-> 0]
  BY <1>1, ExceptData, Zenon
<1> HIDE DEF n, k, data
<1>5. /\ d = [i \in 0 .. k - 1 |-> d[i]]
      /\ \A i \in 0 .. k - 1 : d[i] = IF i = a THEN e ELSE data[i]
  BY <1>2, <1>3, StoredIs
<1>6. PICK S : c \in Seq(S)
  BY <1>1
<1>7. /\ \E T : w \in Seq(T)
      /\ Len(w) = n
      /\ \A i \in 1 .. n : w[i] = IF i = a + 1 THEN e ELSE c[i]
  <2> DEFINE T == S \cup {e}
  <2>1. c \in Seq(T) /\ e \in T
    <3>1. \A q \in Seq(S) : q \in Seq(S \cup {e})
      OBVIOUS
    <3> QED
      BY <1>6, <3>1
  <2>2. a + 1 \in 1 .. n
    BY <1>2
  <2> HIDE DEF T
  <2> QED
    BY <1>1, <2>1, <2>2, ExceptSeq
<1> HIDE DEF d, w
<1>8. ASSUME NEW i \in 0 .. n - 1 PROVE w[i + 1] = d[i]
  <2>1. i \in 0 .. k - 1 /\ i + 1 \in 1 .. n /\ (i + 1 = a + 1 <=> i = a)
    BY ONLY <1>2
  <2> QED
    BY ONLY <1>3, <1>5, <1>7, <2>1
<1>9. n \in 0 .. k /\ d = [i \in 0 .. k - 1 |-> d[i]] /\ Len(w) = n /\ \E T : w \in Seq(T)
  BY <1>2, <1>5, <1>7
<1>10. Holds([data |-> d, length |-> n, cap |-> k, forward |-> 0], w)
  BY ONLY <1>1, <1>8, <1>9, Edited DEF k
<1> QED
  BY <1>4, <1>10, Zenon DEF d, w, data

\* A store beyond the end leaves zeroes in between, whatever was there.
LEMMA SetBeyondHolds ==
  ASSUME NEW x, NEW c, Holds(x, c), NEW a \in Nat, x.length <= a, a + 1 <= x.cap, NEW e
  PROVE  Holds([x EXCEPT
                 !.data = Filled(Filled(x.data, x.length,
                                        [j \in 1 .. a + 1 - x.length |-> 0]), a, <<e>>),
                 !.length = a + 1],
               [j \in 1 .. a + 1 |-> IF j = a + 1 THEN e ELSE IF j <= x.length THEN c[j] ELSE 0])
<1> DEFINE n == x.length
           k == x.cap
           data == x.data
           one == <<e>>
           zeroes == [j \in 1 .. a + 1 - n |-> 0]
           m == Filled(data, n, zeroes)
           d == Filled(m, a, one)
           w == [j \in 1 .. a + 1 |-> IF j = a + 1 THEN e ELSE IF j <= n THEN c[j] ELSE 0]
<1>1. Good(x) /\ Len(c) = n /\ \E S : c \in Seq(S)
  BY Parts, HoldsFacts
<1>2. k \in Nat /\ n \in Nat /\ n <= a /\ a \in Nat /\ a + 1 <= k /\ a + 1 \in 0 .. k
  BY Parts
<1>3. DOMAIN data = 0 .. k - 1 /\ \A i \in 0 .. n - 1 : c[i + 1] = data[i]
  BY Parts
<1>4. [x EXCEPT !.data = d, !.length = a + 1]
        = [data |-> d, length |-> a + 1, cap |-> k, forward |-> 0]
  BY <1>1, ExceptDataLength, Zenon
<1>5. DOMAIN one = 1 .. 1 /\ one[1] = e
  OBVIOUS
<1> HIDE DEF n, k, data, one
<1>6. DOMAIN zeroes = 1 .. a + 1 - n /\ \A j \in 1 .. a + 1 - n : zeroes[j] = 0
  OBVIOUS
<1>7. m = Filled(data, n, zeroes) /\ d = Filled(m, a, one)
  OBVIOUS
<1>8. /\ DOMAIN w = 1 .. a + 1 /\ w = [j \in 1 .. a + 1 |-> w[j]]
      /\ \A j \in 1 .. a + 1 :
           w[j] = IF j = a + 1 THEN e ELSE IF j <= n THEN c[j] ELSE 0
  OBVIOUS
<1> HIDE DEF m, d, w, zeroes
<1>9. /\ DOMAIN m = 0 .. k - 1
      /\ \A i \in 0 .. n - 1 : m[i] = data[i]
      /\ \A i \in n .. a : m[i] = 0
  <2>1. DOMAIN m = 0 .. k - 1
    BY ONLY <1>2, <1>3, <1>6, <1>7 DEF Filled
  <2>2. \A i \in 0 .. n - 1 : m[i] = data[i]
    BY ONLY <1>2, <1>3, <1>6, <1>7 DEF Filled
  <2>3. \A i \in n .. a : m[i] = 0
    <3>1. \A i \in n .. a : i - n + 1 \in 1 .. a + 1 - n /\ i \in 0 .. k - 1
      BY ONLY <1>2
    <3> QED
      BY ONLY <1>2, <1>3, <1>6, <1>7, <3>1 DEF Filled
  <2> QED
    BY <2>1, <2>2, <2>3
<1>10. /\ d = [i \in 0 .. k - 1 |-> d[i]]
       /\ d[a] = e /\ \A i \in 0 .. a - 1 : d[i] = m[i]
  <2>1. d = [i \in 0 .. k - 1 |-> d[i]]
    BY ONLY <1>2, <1>5, <1>7, <1>9 DEF Filled
  <2>2. \A i \in 0 .. a - 1 : d[i] = m[i]
    BY ONLY <1>2, <1>5, <1>7, <1>9 DEF Filled
  <2>3. d[a] = one[1]
    BY ONLY <1>2, <1>5, <1>7, <1>9 DEF Filled
  <2> QED
    BY <1>5, <2>1, <2>2, <2>3
<1>11. ASSUME NEW i \in 0 .. (a + 1) - 1 PROVE w[i + 1] = d[i]
  <2>1. i + 1 \in 1 .. a + 1 /\ i \in Nat /\ i <= a
    BY ONLY <1>2
  <2>2. CASE i = a
    BY ONLY <1>8, <1>10, <2>1, <2>2
  <2>3. CASE i < n
    <3>1. i \in 0 .. n - 1 /\ i \in 0 .. a - 1 /\ i + 1 # a + 1 /\ i + 1 <= n
      BY ONLY <1>2, <2>1, <2>3
    <3> QED
      BY ONLY <1>3, <1>8, <1>9, <1>10, <2>1, <3>1
  <2>4. CASE n <= i /\ i < a
    <3>1. i \in n .. a /\ i \in 0 .. a - 1 /\ i + 1 # a + 1 /\ ~ (i + 1 <= n)
      BY ONLY <1>2, <2>1, <2>4
    <3> QED
      BY ONLY <1>8, <1>9, <1>10, <2>1, <3>1
  <2> QED
    BY ONLY <1>2, <2>1, <2>2, <2>3, <2>4
<1>12. Holds([data |-> d, length |-> a + 1, cap |-> k, forward |-> 0], w)
  <2>1. w \in Seq({w[i] : i \in 1 .. a + 1}) /\ Len(w) = a + 1
    BY <1>2, <1>8, WordIs
  <2> QED
    BY <1>1, <1>2, <1>10, <1>11, <2>1, Edited DEF k
<1> QED
  BY <1>4, <1>12, Zenon DEF d, w, n, data, one, m, zeroes

LEMMA ReverseHolds ==
  ASSUME NEW x, NEW c, Holds(x, c)
  PROVE  Holds(Reversed(x), Reverse(c))
<1> DEFINE n == x.length
           k == x.cap
           data == x.data
           d == [i \in DOMAIN data |-> IF i < n THEN data[n - 1 - i] ELSE data[i]]
           w == Reverse(c)
<1>1. Good(x) /\ Len(c) = n /\ \E S : c \in Seq(S)
  BY Parts, HoldsFacts
<1>2. k \in Nat /\ n \in Nat /\ n <= k /\ n \in 0 .. k
  BY Parts
<1>3. DOMAIN data = 0 .. k - 1 /\ \A i \in 0 .. n - 1 : c[i + 1] = data[i]
  BY Parts
<1>4. Reversed(x) = [data |-> d, length |-> n, cap |-> k, forward |-> 0]
  <2>1. Reversed(x) = [x EXCEPT !.data = d]
    BY Zenon DEF Reversed
  <2> HIDE DEF d
  <2> QED
    BY <1>1, <2>1, ExceptData, Zenon
<1>5. /\ DOMAIN w = 1 .. n /\ w = [i \in 1 .. n |-> w[i]]
      /\ \A i \in 1 .. n : w[i] = c[(n - i) + 1]
  BY <1>1, <1>2 DEF Reverse
<1> HIDE DEF n, k, data
<1>6. /\ d = [i \in 0 .. k - 1 |-> d[i]]
      /\ \A i \in 0 .. n - 1 : d[i] = data[n - 1 - i]
  BY <1>2, <1>3
<1> HIDE DEF d, w
<1>7. ASSUME NEW i \in 0 .. n - 1 PROVE w[i + 1] = d[i]
  <2>1. i + 1 \in 1 .. n /\ n - 1 - i \in 0 .. n - 1 /\ (n - (i + 1)) + 1 = (n - 1 - i) + 1
    BY ONLY <1>2
  <2> QED
    BY ONLY <1>3, <1>5, <1>6, <2>1
<1>8. Holds([data |-> d, length |-> n, cap |-> k, forward |-> 0], w)
  <2>1. w \in Seq({w[i] : i \in 1 .. n}) /\ Len(w) = n
    BY <1>2, <1>5, WordIs
  <2> QED
    BY <1>1, <1>2, <1>6, <1>7, <2>1, Edited DEF k
<1> QED
  BY <1>4, <1>8, Zenon DEF w

\* Writing a word of the same length over the elements.
LEMMA OverwriteHolds ==
  ASSUME NEW x, NEW c, Holds(x, c), NEW w,
         DOMAIN w = 1 .. x.length, w = [i \in 1 .. x.length |-> w[i]]
  PROVE  Holds([x EXCEPT !.data = Filled(x.data, 0, w)], w)
<1> DEFINE n == x.length
           k == x.cap
           data == x.data
           d == Filled(data, 0, w)
<1>1. Good(x) /\ DOMAIN w = 1 .. n
  BY Parts
<1>2. k \in Nat /\ n \in Nat /\ n <= k /\ n \in 0 .. k
  BY Parts
<1>3. DOMAIN data = 0 .. k - 1
  BY Parts
<1>4. [x EXCEPT !.data = d] = [data |-> d, length |-> n, cap |-> k, forward |-> 0]
  BY <1>1, ExceptData, Zenon
<1>5. w \in Seq({w[i] : i \in 1 .. n}) /\ Len(w) = n
  BY <1>2, WordIs
<1> HIDE DEF n, k, data
<1>6. d = Filled(data, 0, w)
  OBVIOUS
<1> HIDE DEF d
<1>7. d = [i \in 0 .. k - 1 |-> d[i]]
  BY ONLY <1>1, <1>2, <1>3, <1>6 DEF Filled
<1>8. \A i \in 0 .. n - 1 : w[i + 1] = d[i]
  BY ONLY <1>1, <1>2, <1>3, <1>6 DEF Filled
<1>9. Holds([data |-> d, length |-> n, cap |-> k, forward |-> 0], w)
  BY <1>1, <1>2, <1>5, <1>7, <1>8, Edited DEF k
<1> QED
  BY <1>4, <1>9, Zenon DEF d, data

\* Elements s + 1 to s + q of the array make room for items.
LEMMA SpliceHolds ==
  ASSUME NEW x, NEW c, Holds(x, c), NEW s \in Nat, NEW q \in Nat, s + q <= x.length,
         NEW I, NEW items \in Seq(I), x.length + Len(items) - q <= x.cap
  PROVE  Holds([x EXCEPT
                 !.data = Filled(IF Len(items) # q /\ s + q < x.length
                                 THEN Moved(x.data, s + Len(items), s + q, x.length - (s + q))
                                 ELSE x.data, s, items),
                 !.length = x.length + Len(items) - q],
               SubSeq(c, 1, s) \o items \o SubSeq(c, s + q + 1, Len(c)))
<1> DEFINE n == x.length
           k == x.cap
           data == x.data
           m == Len(items)
           r == IF m # q /\ s + q < n THEN Moved(data, s + m, s + q, n - (s + q)) ELSE data
           d == Filled(r, s, items)
           front == SubSeq(c, 1, s)
           back == SubSeq(c, s + q + 1, n)
           fi == front \o items
           w == fi \o back
<1>1. Good(x) /\ Len(c) = n /\ \E S : c \in Seq(S)
  BY Parts, HoldsFacts
<1>2. m \in Nat /\ DOMAIN items = 1 .. m
  BY LenProperties
<1>3. /\ k \in Nat /\ n \in Nat /\ n <= k /\ s + q <= n /\ n + m - q <= k
      /\ s \in Nat /\ q \in Nat
  BY <1>2, Parts
<1>4. DOMAIN data = 0 .. k - 1 /\ \A i \in 0 .. n - 1 : c[i + 1] = data[i]
  BY Parts
<1> HIDE DEF d, m
<1>5. [x EXCEPT !.data = d, !.length = n + m - q]
        = [data |-> d, length |-> n + m - q, cap |-> k, forward |-> 0]
  BY <1>1, ExceptDataLength, Zenon
<1> USE DEF d
<1> HIDE DEF n, k, data
<1>6. /\ \E T : w \in Seq(T)
      /\ Len(w) = n + m - q
      /\ \A i \in 1 .. n + m - q :
           w[i] = IF i <= s THEN c[i] ELSE IF i <= s + m THEN items[i - s] ELSE c[i - m + q]
  <2> DEFINE T == I \cup {c[i] : i \in 1 .. n}
  <2>1. \A i \in 1 .. n : c[i] \in T
    OBVIOUS
  <2>2. items \in Seq(T)
    <3>1. I \subseteq T
      OBVIOUS
    <3> QED
      BY <3>1, SeqMonotonic
  <2> HIDE DEF T
  <2>3. front \in Seq(T) /\ Len(front) = s /\ \A i \in 1 .. s : front[i] = c[i]
    <3>1. s \in Int /\ \A i \in 1 .. s : c[i] \in T
      BY <1>3, <2>1
    <3> QED
      BY <1>3, <3>1, SubSeqProperties
  <2>4. /\ back \in Seq(T) /\ Len(back) = n - (s + q)
        /\ \A i \in 1 .. n - (s + q) : back[i] = c[s + q + i]
    <3>1. /\ s + q + 1 \in Int /\ n \in Int
          /\ \A i \in s + q + 1 .. n : c[i] \in T
      BY <1>3, <2>1
    <3>2. /\ back \in Seq(T)
          /\ Len(back) = IF s + q + 1 <= n THEN n - (s + q + 1) + 1 ELSE 0
          /\ \A i \in 1 .. n - (s + q + 1) + 1 : back[i] = c[s + q + 1 + i - 1]
      <4> DEFINE a == s + q + 1
      <4> HIDE DEF a
      <4>1. a \in Int /\ n \in Int /\ \A i \in a .. n : c[i] \in T
        BY <3>1 DEF a
      <4>2. back = SubSeq(c, a, n)
        BY DEF a
      <4> HIDE DEF back
      <4>3. /\ back \in Seq(T) /\ Len(back) = IF a <= n THEN n - a + 1 ELSE 0
            /\ \A i \in 1 .. n - a + 1 : back[i] = c[a + i - 1]
        BY ONLY <4>1, <4>2, SubSeqProperties
      <4> QED
        BY <4>3 DEF a
    <3> HIDE DEF back
    <3>3. Len(back) = n - (s + q)
      BY ONLY <1>3, <3>2
    <3>4. ASSUME NEW i \in 1 .. n - (s + q) PROVE back[i] = c[s + q + i]
      <4>1. i \in 1 .. n - (s + q + 1) + 1 /\ s + q + 1 + i - 1 = s + q + i
        BY ONLY <1>3
      <4> QED
        BY ONLY <3>2, <4>1
    <3> QED
      BY <3>2, <3>3, <3>4
  <2> HIDE DEF front, back
  <2>5. /\ fi \in Seq(T) /\ Len(fi) = s + m
        /\ \A i \in 1 .. s + m : fi[i] = IF i <= s THEN front[i] ELSE items[i - s]
    BY <2>2, <2>3, ConcatProperties DEF m
  <2> HIDE DEF fi
  <2>6. /\ w \in Seq(T) /\ Len(w) = Len(fi) + Len(back)
        /\ \A i \in 1 .. Len(fi) + Len(back) :
             w[i] = IF i <= Len(fi) THEN fi[i] ELSE back[i - Len(fi)]
    BY <2>4, <2>5, ConcatProperties, Zenon
  <2> HIDE DEF w
  <2>7. Len(w) = n + m - q
    BY ONLY <1>2, <1>3, <2>4, <2>5, <2>6
  <2>8. ASSUME NEW i \in 1 .. n + m - q
        PROVE  w[i] = IF i <= s THEN c[i] ELSE IF i <= s + m THEN items[i - s] ELSE c[i - m + q]
    <3>1. w[i] = IF i <= s + m THEN fi[i] ELSE back[i - (s + m)]
      <4>1. i \in 1 .. Len(fi) + Len(back) /\ Len(fi) = s + m
        BY ONLY <1>2, <1>3, <2>4, <2>5
      <4> QED
        BY ONLY <2>6, <4>1
    <3>2. CASE i <= s
      <4>1. i \in 1 .. s + m /\ i \in 1 .. s /\ i <= s + m
        BY ONLY <1>2, <1>3, <3>2
      <4> QED
        BY ONLY <2>3, <2>5, <3>1, <3>2, <4>1
    <3>3. CASE s < i /\ i <= s + m
      <4>1. i \in 1 .. s + m /\ ~ (i <= s) /\ i <= s + m
        BY ONLY <1>2, <1>3, <3>3
      <4> QED
        BY ONLY <2>5, <3>1, <4>1
    <3>4. CASE s + m < i
      <4>1. /\ ~ (i <= s) /\ ~ (i <= s + m) /\ i - (s + m) \in 1 .. n - (s + q)
            /\ s + q + (i - (s + m)) = i - m + q
        BY ONLY <1>2, <1>3, <3>4
      <4> QED
        BY ONLY <2>4, <3>1, <4>1
    <3> QED
      BY <1>2, <1>3, <3>2, <3>3, <3>4
  <2> QED
    BY <2>6, <2>7, <2>8
<1>7. d = Filled(r, s, items)
  OBVIOUS
<1>8. /\ DOMAIN r = 0 .. k - 1
      /\ \A i \in 0 .. s - 1 : r[i] = data[i]
      /\ \A i \in s + m .. n + m - q - 1 : r[i] = data[i - m + q]
  <2>1. CASE m # q /\ s + q < n
    <3>1. r = Moved(data, s + m, s + q, n - (s + q))
      BY <2>1
    <3> HIDE DEF r
    <3>2. DOMAIN r = 0 .. k - 1
      BY ONLY <1>4, <3>1 DEF Moved
    <3>3. \A i \in 0 .. s - 1 : r[i] = data[i]
      <4>1. \A i \in 0 .. s - 1 : i \in 0 .. k - 1 /\ i \notin s + m .. (s + m) + (n - (s + q)) - 1
        BY ONLY <1>2, <1>3
      <4> QED
        BY ONLY <1>4, <3>1, <4>1 DEF Moved
    <3>4. \A i \in s + m .. n + m - q - 1 : r[i] = data[i - m + q]
      <4>1. ASSUME NEW i \in s + m .. n + m - q - 1
            PROVE  /\ i \in 0 .. k - 1 /\ i \in s + m .. (s + m) + (n - (s + q)) - 1
                   /\ (s + q) + i - (s + m) = i - m + q
        BY ONLY <1>2, <1>3
      <4> QED
        BY ONLY <1>4, <3>1, <4>1 DEF Moved
    <3> QED
      BY <3>2, <3>3, <3>4
  <2>2. CASE ~ (m # q /\ s + q < n)
    <3>1. r = data
      BY <2>2, Zenon
    <3> HIDE DEF r
    <3>2. ASSUME NEW i \in s + m .. n + m - q - 1 PROVE i - m + q = i
      BY ONLY <1>2, <1>3, <2>2
    <3> QED
      BY <1>4, <3>1, <3>2
  <2> QED
    BY <2>1, <2>2
<1> HIDE DEF r, d, w
<1>9. d = [i \in 0 .. k - 1 |-> d[i]]
  BY ONLY <1>7, <1>8 DEF Filled
<1>10. \A i \in 0 .. k - 1 : d[i] = IF i - s + 1 \in 1 .. m THEN items[i - s + 1] ELSE r[i]
  BY ONLY <1>2, <1>7, <1>8 DEF Filled
<1>11. ASSUME NEW i \in 0 .. (n + m - q) - 1 PROVE w[i + 1] = d[i]
  <2>1. i + 1 \in 1 .. n + m - q /\ i \in 0 .. k - 1 /\ i \in Nat
    BY ONLY <1>2, <1>3
  <2>2. CASE i < s
    <3>1. /\ i \in 0 .. s - 1 /\ i \in 0 .. n - 1 /\ i + 1 <= s
          /\ ~ (i - s + 1 \in 1 .. m)
      BY ONLY <1>2, <1>3, <2>1, <2>2
    <3> QED
      BY ONLY <1>4, <1>6, <1>8, <1>10, <2>1, <3>1
  <2>3. CASE s <= i /\ i < s + m
    <3>1. /\ ~ (i + 1 <= s) /\ i + 1 <= s + m
          /\ i - s + 1 \in 1 .. m /\ i + 1 - s = i - s + 1
      BY ONLY <1>2, <1>3, <2>1, <2>3
    <3> QED
      BY ONLY <1>6, <1>10, <2>1, <3>1
  <2>4. CASE s + m <= i
    <3>1. /\ ~ (i + 1 <= s) /\ ~ (i + 1 <= s + m) /\ ~ (i - s + 1 \in 1 .. m)
          /\ i \in s + m .. n + m - q - 1 /\ i - m + q \in 0 .. n - 1
          /\ i + 1 - m + q = (i - m + q) + 1
      BY ONLY <1>2, <1>3, <2>1, <2>4
    <3>2. w[i + 1] = c[(i - m + q) + 1]
      <4> DEFINE j == i + 1
      <4>1. j = i + 1
        OBVIOUS
      <4> HIDE DEF j
      <4>2. j \in 1 .. n + m - q /\ ~ (j <= s) /\ ~ (j <= s + m)
        BY ONLY <2>1, <3>1, <4>1
      <4>3. w[j] = c[j - m + q]
        BY ONLY <1>6, <4>2
      <4>4. j - m + q = (i - m + q) + 1
        BY ONLY <1>2, <1>3, <2>1, <4>1
      <4> QED
        BY ONLY <4>1, <4>3, <4>4
    <3>3. c[(i - m + q) + 1] = data[i - m + q]
      BY ONLY <1>4, <3>1
    <3>4. d[i] = r[i]
      BY ONLY <1>10, <2>1, <3>1
    <3>5. r[i] = data[i - m + q]
      BY ONLY <1>8, <3>1
    <3> QED
      BY ONLY <3>2, <3>3, <3>4, <3>5
  <2> QED
    BY ONLY <1>2, <1>3, <2>1, <2>2, <2>3, <2>4
<1>12. n + m - q \in 0 .. k /\ Len(w) = n + m - q /\ \E T : w \in Seq(T)
  BY <1>2, <1>3, <1>6
<1>13. Holds([data |-> d, length |-> n + m - q, cap |-> k, forward |-> 0], w)
  BY ONLY <1>1, <1>9, <1>11, <1>12, Edited DEF k
<1> QED
  <2>1. w = SubSeq(c, 1, s) \o items \o SubSeq(c, s + q + 1, Len(c))
    BY <1>1, Zenon DEF w, fi, front, back
  <2> QED
    BY <1>5, <1>13, <2>1, Zenon DEF d, n, data, m, r

-----------------------------------------------------------------------------
(* The chain of bodies *)

Hops(f) ==
  f = [i \in DOMAIN body |-> IF body[i].forward = 0 THEN i ELSE f[body[i].forward]]

\* A chain has one end, and every body of it resolves to that end.
LEMMA ResolveIs ==
  ASSUME NEW n \in Nat, DOMAIN body = 1 .. n,
         \A b \in 1 .. n - 1 : body[b].forward = b + 1, body[n].forward = 0
  PROVE  \A b \in 1 .. n : ResolveId(b) = n
<1> DEFINE f == [i \in 1 .. n |-> n]
           F(g, i) == IF body[i].forward = 0 THEN i ELSE g[body[i].forward]
<1>1. ASSUME NEW g
      PROVE  \A i \in 1 .. n : F(g, i) = IF i = n THEN n ELSE g[i + 1]
  <2>1. ASSUME NEW i \in 1 .. n - 1 PROVE F(g, i) = g[i + 1]
    <3>1. body[i].forward = i + 1 /\ i + 1 # 0
      OBVIOUS
    <3> QED
      BY <3>1
  <2>2. F(g, n) = n
    OBVIOUS
  <2> HIDE DEF F
  <2> QED
    BY <2>1, <2>2
<1>2. \A g : Hops(g) <=> g = [i \in 1 .. n |-> F(g, i)]
  BY Zenon DEF Hops
<1>3. f = [i \in 1 .. n |-> f[i]] /\ \A i \in 1 .. n : f[i] = n
  OBVIOUS
<1> HIDE DEF f, F
<1>4. Hops(f)
  <2>1. \A i \in 1 .. n : F(f, i) = f[i]
    BY <1>1, <1>3
  <2> QED
    BY <1>2, <1>3, <2>1
<1>5. ASSUME NEW g, Hops(g) PROVE g = f
  <2>1. g = [i \in 1 .. n |-> F(g, i)]
    BY <1>2, <1>5
  <2>2. g = [i \in 1 .. n |-> g[i]] /\ \A i \in 1 .. n : g[i] = F(g, i)
    BY ONLY <2>1
  <2>3. \A i \in 1 .. n : g[i] = IF i = n THEN n ELSE g[i + 1]
    BY <1>1, <2>2
  <2> DEFINE T == {d \in Nat : d < n /\ g[n - d] # n}
  <2>4. ASSUME T # {} PROVE FALSE
    <3>1. PICK d \in T : \A y \in T : d <= y
      BY <2>4, SmallestOf
    <3>2. d \in Nat /\ d < n /\ g[n - d] # n
      BY <3>1
    <3>3. d # 0
      <4>1. n \in 1 .. n /\ n - 0 = n
        BY <3>2
      <4>2. g[n] = n
        BY <2>3, <4>1
      <4> QED
        BY <3>2, <4>1, <4>2
    <3> HIDE DEF T
    <3>4. d - 1 \in Nat /\ d - 1 < n /\ d - 1 \notin T
      <4>1. d - 1 \in Nat /\ d - 1 < n /\ ~ (d <= d - 1)
        BY <3>2, <3>3
      <4> QED
        BY <3>1, <4>1
    <3>5. g[n - (d - 1)] = n
      BY <3>4 DEF T
    <3>6. n - d \in 1 .. n /\ n - d # n /\ n - (d - 1) = (n - d) + 1
      BY <3>2, <3>3
    <3> QED
      BY <2>3, <3>2, <3>5, <3>6
  <2>5. ASSUME NEW i \in 1 .. n PROVE g[i] = n
    <3>1. n - i \in Nat /\ n - i < n /\ n - (n - i) = i
      OBVIOUS
    <3> QED
      BY <2>4, <3>1
  <2> QED
    BY <1>3, <2>2, <2>5
<1>6. \A b : ResolveId(b) = (CHOOSE g : Hops(g))[b]
  BY DEF ResolveId, Hops
<1>7. (CHOOSE g : Hops(g)) = f
  BY <1>4, <1>5
<1> QED
  BY <1>3, <1>6, <1>7

-----------------------------------------------------------------------------
(* Reads *)

\* The first index of e, in the body and in what the program stored.
FirstIn(x, e) ==
  LET hits == {i \in 0 .. x.length - 1 : x.data[i] = e}
  IN IF hits = {} THEN -1 ELSE CHOOSE i \in hits : \A j \in hits : i <= j

FirstOf(c, e) == IF e \in ToSet(c) THEN SelectInSeq(c, LAMBDA y : y = e) - 1 ELSE -1

LEMMA IndexOfHolds ==
  ASSUME NEW x, NEW c, Holds(x, c), NEW e
  PROVE  FirstIn(x, e) = FirstOf(c, e)
<1> DEFINE n == x.length
           hits == {i \in 0 .. n - 1 : x.data[i] = e}
           places == {i \in 1 .. n : c[i] = e}
           least == CHOOSE i \in hits : \A j \in hits : i <= j
           first == CHOOSE i \in places : \A j \in places : i <= j
<1>1. /\ n \in Nat /\ Len(c) = n /\ DOMAIN c = 1 .. n
      /\ \A i \in 0 .. n - 1 : c[i + 1] = x.data[i]
  BY Parts, HoldsFacts
<1>2. e \in ToSet(c) <=> places # {}
  BY <1>1 DEF ToSet
<1>3. SelectInSeq(c, LAMBDA y : y = e) = IF places # {} THEN first ELSE 0
  BY <1>1 DEF SelectInSeq, Min
<1> HIDE DEF n
<1>4. \A i \in 0 .. n - 1 : i \in hits <=> i + 1 \in places
  BY <1>1
<1>5. hits \subseteq 0 .. n - 1 /\ places \subseteq 1 .. n
  OBVIOUS
<1> HIDE DEF hits, places
<1>6. \A i \in 1 .. n : i \in places <=> i - 1 \in hits
  <2>1. ASSUME NEW i \in 1 .. n PROVE i - 1 \in 0 .. n - 1 /\ (i - 1) + 1 = i
    BY <1>1
  <2> QED
    BY <1>4, <2>1
<1>7. hits = {} <=> places = {}
  BY <1>4, <1>5, <1>6
<1>8. ASSUME hits # {} PROVE least = first - 1
  <2>1. PICK a \in hits : \A j \in hits : a <= j
    <3>1. hits \in SUBSET Nat
      BY <1>5
    <3> QED
      BY <1>8, <3>1, SmallestOf
  <2>3. a \in 0 .. n - 1 /\ a + 1 \in places
    BY <1>4, <1>5
  <2>4. ASSUME NEW j \in places PROVE a + 1 <= j
    <3>1. j \in 1 .. n /\ j - 1 \in hits
      BY <1>5, <1>6
    <3> QED
      BY <1>1, <2>1, <2>3, <3>1
  <2>5. hits \in SUBSET Int /\ places \in SUBSET Int
    BY <1>5
  <2>6. least = a
    BY <2>1, <2>5, LeastIs
  <2>7. first = a + 1
    BY <2>3, <2>4, <2>5, LeastIs
  <2> HIDE DEF least, first
  <2> QED
    BY <2>3, <2>6, <2>7
<1> HIDE DEF least, first
<1> QED
  BY <1>2, <1>3, <1>7, <1>8, Zenon DEF hits, least, n, FirstIn, FirstOf

LEMMA GetHolds ==
  ASSUME NEW x, NEW c, Holds(x, c), NEW i \in Int
  PROVE  (IF i < 0 \/ i >= x.length THEN 0 ELSE x.data[i])
           = IF i + 1 \in DOMAIN c THEN c[i + 1] ELSE 0
<1>1. /\ x.length \in Nat /\ DOMAIN c = 1 .. x.length
      /\ \A j \in 0 .. x.length - 1 : c[j + 1] = x.data[j]
  BY Parts, HoldsFacts
<1>2. CASE i < 0 \/ i >= x.length
  BY <1>1, <1>2
<1>3. CASE ~ (i < 0 \/ i >= x.length)
  <2>1. i \in 0 .. x.length - 1 /\ i + 1 \in 1 .. x.length
    BY <1>1, <1>3
  <2> QED
    BY <1>1, <1>3, <2>1
<1> QED
  BY <1>2, <1>3

LEMMA ClampFacts ==
  ASSUME NEW i \in Int, NEW n \in Nat
  PROVE  /\ ClampIndex(i, n) \in 0 .. n
         /\ \A j \in 0 .. n - 1 :
              /\ (IF i < 0 THEN i + n ELSE i) <= j <=> ClampIndex(i, n) <= j
              /\ j < (IF i < 0 THEN i + n ELSE i) <=> j < ClampIndex(i, n)
BY DEF ClampIndex

\* The elements that a slice takes of the body, and those between the bounds.
TakenOf(x, s, e) ==
  LET a == ClampIndex(s, x.length)
      z == ClampIndex(e, x.length)
  IN IF a >= z THEN <<>> ELSE [i \in 1 .. z - a |-> x.data[a + i - 1]]

Between(c, s, e) ==
  LET n == Len(c)
      At(i) == IF i < 0 THEN i + n ELSE i
      inside == {i \in 0 .. n - 1 : At(s) <= i /\ i < At(e)}
  IN [k \in 1 .. Cardinality(inside) |-> c[Min(inside) + k]]

LEMMA SliceHolds ==
  ASSUME NEW x, NEW c, Holds(x, c), NEW s \in Int, NEW e \in Int
  PROVE  TakenOf(x, s, e) = Between(c, s, e)
<1> DEFINE n == Len(c)
           At(i) == IF i < 0 THEN i + n ELSE i
           inside == {i \in 0 .. n - 1 : At(s) <= i /\ i < At(e)}
           a == ClampIndex(s, n)
           z == ClampIndex(e, n)
           slice == IF a >= z THEN <<>> ELSE [i \in 1 .. z - a |-> x.data[a + i - 1]]
<1>1. n \in Nat /\ n = x.length /\ \A i \in 0 .. n - 1 : c[i + 1] = x.data[i]
  BY Parts
<1> HIDE DEF n
<1>2. /\ a \in 0 .. n /\ z \in 0 .. n
      /\ \A i \in 0 .. n - 1 : (At(s) <= i <=> a <= i) /\ (i < At(e) <=> i < z)
  BY <1>1, ClampFacts
<1> HIDE DEF a, z, At
<1>3. inside = a .. z - 1
  BY <1>1, <1>2
<1> HIDE DEF inside
<1>4. slice = IF a >= z THEN <<>> ELSE [i \in 1 .. z - a |-> x.data[a + i - 1]]
  OBVIOUS
<1> HIDE DEF slice
<1>5. ASSUME a >= z
      PROVE  slice = [k \in 1 .. Cardinality(inside) |-> c[Min(inside) + k]]
  <2>1. inside = {}
    BY <1>1, <1>2, <1>3, <1>5
  <2>2. Cardinality(inside) = 0
    BY <2>1, FS_EmptySet
  <2>3. 1 .. 0 = {}
    OBVIOUS
  <2>4. slice = <<>>
    BY <1>4, <1>5
  <2> QED
    BY <2>2, <2>3, <2>4
<1>6. ASSUME ~ (a >= z)
      PROVE  slice = [k \in 1 .. Cardinality(inside) |-> c[Min(inside) + k]]
  <2>1. Cardinality(inside) = z - a
    <3>1. Cardinality(a .. z - 1) = IF a > z - 1 THEN 0 ELSE (z - 1) - a + 1
      BY <1>1, <1>2, FS_Interval
    <3> QED
      BY <1>1, <1>2, <1>3, <1>6, <3>1
  <2>2. Min(inside) = a
    <3>1. a \in inside /\ \A i \in inside : a <= i
      BY <1>1, <1>2, <1>3, <1>6
    <3>2. inside \in SUBSET Int
      BY <1>3
    <3> QED
      BY <3>1, <3>2, LeastIs
  <2>3. ASSUME NEW k \in 1 .. z - a PROVE x.data[a + k - 1] = c[a + k]
    <3>1. a + k - 1 \in 0 .. n - 1 /\ (a + k - 1) + 1 = a + k
      BY <1>1, <1>2, <1>6
    <3> QED
      BY <1>1, <3>1
  <2>4. slice = [i \in 1 .. z - a |-> x.data[a + i - 1]]
    BY <1>4, <1>6
  <2> QED
    BY <2>1, <2>2, <2>3, <2>4
<1>7. slice = [k \in 1 .. Cardinality(inside) |-> c[Min(inside) + k]]
  BY <1>5, <1>6
<1>8. TakenOf(x, s, e) = slice
  BY <1>1, Zenon DEF TakenOf, slice, a, z
<1> QED
  BY <1>7, <1>8, Zenon DEF Between, inside, At, n

-----------------------------------------------------------------------------
(* The invariant *)

\* The bodies bs form a chain, ns are bodies of it, and the last one holds c.
Stored(bs, ns, c) ==
  /\ bs \in Seq({bs[b] : b \in 1 .. Len(bs)}) /\ bs # <<>>
  /\ \A b \in 1 .. Len(bs) - 1 : bs[b].forward = b + 1
  /\ ns \in [ArrayVar -> 1 .. Len(bs)]
  /\ Holds(bs[Len(bs)], c)

ArrayInv == astray \in BOOLEAN /\ (~ astray => Stored(body, names, contents))

LEMMA StoredFacts ==
  ASSUME NEW bs, NEW ns, NEW c, Stored(bs, ns, c)
  PROVE  /\ Len(bs) \in Nat \ {0} /\ DOMAIN bs = 1 .. Len(bs)
         /\ \A b \in 1 .. Len(bs) - 1 : bs[b].forward = b + 1
         /\ bs[Len(bs)].forward = 0
         /\ ns \in [ArrayVar -> 1 .. Len(bs)]
         /\ Holds(bs[Len(bs)], c)
<1>1. Len(bs) \in Nat /\ DOMAIN bs = 1 .. Len(bs)
  BY LenProperties DEF Stored
<1>2. Len(bs) # 0
  BY EmptySeq DEF Stored
<1>3. bs[Len(bs)].forward = 0
  BY DEF Stored, Holds, Good
<1> QED
  BY <1>1, <1>2, <1>3 DEF Stored

LEMMA StoredWhen ==
  ASSUME NEW S, NEW bs \in Seq(S), bs # <<>>,
         \A b \in 1 .. Len(bs) - 1 : bs[b].forward = b + 1,
         NEW ns \in [ArrayVar -> 1 .. Len(bs)], NEW c, Holds(bs[Len(bs)], c)
  PROVE  Stored(bs, ns, c)
<1>1. Len(bs) \in Nat /\ DOMAIN bs = 1 .. Len(bs) /\ bs = [b \in 1 .. Len(bs) |-> bs[b]]
  BY LenProperties
<1>2. bs \in Seq({bs[b] : b \in 1 .. Len(bs)})
  BY <1>1, WordIs
<1> QED
  BY <1>2 DEF Stored

\* The last body changes in place.
LEMMA EditedStored ==
  ASSUME NEW bs, NEW ns, NEW c, Stored(bs, ns, c), NEW y, NEW e, Holds(y, e),
         NEW ms \in [ArrayVar -> 1 .. Len(bs)]
  PROVE  Stored([bs EXCEPT ![Len(bs)] = y], ms, e)
<1> DEFINE n == Len(bs)
           S == {bs[b] : b \in 1 .. n} \cup {y}
           cs == [bs EXCEPT ![n] = y]
<1>1. n \in Nat \ {0} /\ \A b \in 1 .. n - 1 : bs[b].forward = b + 1
  BY StoredFacts
<1>2. bs \in Seq(S) /\ y \in S
  <2>1. {bs[b] : b \in 1 .. n} \subseteq S /\ bs \in Seq({bs[b] : b \in 1 .. n})
    BY DEF Stored
  <2> HIDE DEF S
  <2> QED
    BY <2>1, SeqMonotonic DEF S
<1> HIDE DEF S
<1>3. /\ cs \in Seq(S) /\ Len(cs) = n
      /\ \A b \in 1 .. n : cs[b] = IF b = n THEN y ELSE bs[b]
  BY <1>1, <1>2, ExceptSeq
<1> HIDE DEF cs
<1>4. cs # <<>>
  BY <1>1, <1>3
<1>5. ASSUME NEW b \in 1 .. n - 1 PROVE cs[b].forward = b + 1
  <2>1. b \in 1 .. n /\ b # n
    BY <1>1
  <2> QED
    BY <1>1, <1>3, <2>1
<1>6. cs[n] = y
  BY <1>1, <1>3
<1>7. Stored(cs, ms, e)
  BY <1>3, <1>4, <1>5, <1>6, StoredWhen
<1> QED
  BY <1>7 DEF cs

\* The last body is left behind for a new one.
LEMMA MovedStored ==
  ASSUME NEW bs, NEW ns, NEW c, Stored(bs, ns, c), NEW y, NEW e, Holds(y, e),
         NEW v \in ArrayVar
  PROVE  Stored(Append([bs EXCEPT ![Len(bs)].forward = Len(bs) + 1], y),
                [ns EXCEPT ![v] = Len(bs) + 1], e)
<1> DEFINE n == Len(bs)
           x == bs[n]
           left == [x EXCEPT !.forward = n + 1]
           S == {bs[b] : b \in 1 .. n} \cup {left, y}
           cs == [bs EXCEPT ![n] = left]
           ds == Append(cs, y)
           ms == [ns EXCEPT ![v] = n + 1]
<1>1. n \in Nat \ {0} /\ \A b \in 1 .. n - 1 : bs[b].forward = b + 1
  BY StoredFacts
<1>2. left.forward = n + 1
  <2>1. Good(x)
    BY DEF Stored, Holds
  <2>2. x = [data |-> x.data, length |-> x.length, cap |-> x.cap, forward |-> 0]
    BY <2>1 DEF Good
  <2> HIDE DEF x, n
  <2> QED
    BY <2>2
<1>3. bs \in Seq(S) /\ left \in S /\ y \in S
  <2>1. {bs[b] : b \in 1 .. n} \subseteq S /\ bs \in Seq({bs[b] : b \in 1 .. n})
    BY DEF Stored
  <2> QED
    BY <2>1, SeqMonotonic, Zenon
<1> HIDE DEF S, left
<1>4. /\ cs \in Seq(S) /\ Len(cs) = n
      /\ \A b \in 1 .. n : cs[b] = IF b = n THEN left ELSE bs[b]
  BY <1>1, <1>3, ExceptSeq
<1> HIDE DEF cs
<1>5. /\ ds \in Seq(S) /\ Len(ds) = n + 1 /\ ds[n + 1] = y
      /\ \A b \in 1 .. n : ds[b] = cs[b]
  BY <1>3, <1>4, AppendProperties
<1>6. ms \in [ArrayVar -> 1 .. n + 1]
  <2>1. ns \in [ArrayVar -> 1 .. n]
    BY StoredFacts
  <2>2. \A u \in ArrayVar : ns[u] \in 1 .. n + 1
    BY <1>1, <2>1
  <2>3. n + 1 \in 1 .. n + 1
    BY <1>1
  <2> QED
    BY <2>1, <2>2, <2>3
<1> HIDE DEF ds, ms
<1>7. ds # <<>>
  BY <1>1, <1>5
<1>8. ASSUME NEW b \in 1 .. (n + 1) - 1 PROVE ds[b].forward = b + 1
  <2>1. b \in 1 .. n /\ (b # n => b \in 1 .. n - 1)
    BY <1>1
  <2>2. ds[b] = IF b = n THEN left ELSE bs[b]
    BY <1>4, <1>5, <2>1
  <2> QED
    BY <1>1, <1>2, <2>1, <2>2
<1>9. Stored(ds, ms, e)
  BY <1>5, <1>6, <1>7, <1>8, StoredWhen
<1>10. [bs EXCEPT ![n].forward = n + 1] = cs
  BY Zenon DEF cs, left
<1> QED
  BY <1>9, <1>10, Zenon DEF ds, ms

LEMMA RewriteStored ==
  ASSUME Stored(body, names, contents), NEW v \in ArrayVar, NEW b, b = Len(body),
         NEW required, NEW y, NEW e, Holds(y, e), Rewrite(v, b, required, y)
  PROVE  Stored(body', names', e)
<1>1. CASE required <= body[b].cap
  <2>1. body' = [body EXCEPT ![Len(body)] = y] /\ names' = [names EXCEPT ![v] = Len(body)]
    BY <1>1, Zenon DEF Rewrite
  <2>2. names' \in [ArrayVar -> 1 .. Len(body)]
    BY <2>1, StoredFacts
  <2> QED
    BY <2>1, <2>2, EditedStored
<1>2. CASE ~ (required <= body[b].cap)
  <2>1. /\ body' = Append([body EXCEPT ![Len(body)].forward = Len(body) + 1], y)
        /\ names' = [names EXCEPT ![v] = Len(body) + 1]
    BY <1>2, Zenon DEF Rewrite
  <2> QED
    BY <2>1, MovedStored
<1> QED
  BY <1>1, <1>2

LEMMA InPlaceStored ==
  ASSUME Stored(body, names, contents), NEW b, b = Len(body),
         NEW y, NEW e, Holds(y, e), InPlace(b, y)
  PROVE  Stored(body', names', e)
<1>1. body' = [body EXCEPT ![Len(body)] = y] /\ names' = names
  BY DEF InPlace
<1>2. names \in [ArrayVar -> 1 .. Len(body)]
  BY StoredFacts
<1> QED
  BY <1>1, <1>2, EditedStored

-----------------------------------------------------------------------------
(* Every step keeps the invariant *)

\* The body an operation works on.
LEMMA WorksOn ==
  ASSUME Stored(body, names, contents), NEW v \in ArrayVar
  PROVE  /\ Resolving(v) = Len(body) /\ body[Len(body)].forward = 0
         /\ Holds(body[Len(body)], contents)
         /\ Blindly(v) = Len(body) \/ body[Blindly(v)].forward # 0
<1>1. /\ Len(body) \in Nat \ {0} /\ DOMAIN body = 1 .. Len(body)
      /\ \A b \in 1 .. Len(body) - 1 : body[b].forward = b + 1
      /\ body[Len(body)].forward = 0
      /\ names \in [ArrayVar -> 1 .. Len(body)]
      /\ Holds(body[Len(body)], contents)
  BY StoredFacts
<1>2. names[v] \in 1 .. Len(body)
  BY <1>1
<1>3. Resolving(v) = Len(body)
  <2>1. \A b \in 1 .. Len(body) : ResolveId(b) = Len(body)
    BY <1>1, ResolveIs, Zenon
  <2> QED
    BY <1>2, <2>1 DEF Resolving
<1>4. Blindly(v) = Len(body) \/ body[Blindly(v)].forward # 0
  <2>1. CASE names[v] # Len(body)
    <3>1. names[v] \in 1 .. Len(body) - 1 /\ names[v] + 1 # 0
      BY <1>1, <1>2, <2>1
    <3> QED
      BY <1>1, <3>1 DEF Blindly
  <2> QED
    BY <2>1 DEF Blindly
<1> QED
  BY <1>1, <1>3, <1>4

LEMMA Kept ==
  ASSUME ~ astray, NEW b, body[b].forward = 0, NEW e, Notes(b, e), Stored(body', names', e)
  PROVE  ArrayInv'
<1>1. astray' = FALSE
  BY DEF Notes
<1>2. contents' = e
  BY <1>1 DEF Notes
<1> QED
  BY <1>1, <1>2 DEF ArrayInv, Stored

LEMMA Lost ==
  ASSUME NEW b, body[b].forward # 0, NEW e, Notes(b, e)
  PROVE  ArrayInv'
<1>1. astray' = TRUE
  BY DEF Notes
<1> QED
  BY <1>1 DEF ArrayInv

LEMMA PushKeeps ==
  ASSUME ~ astray, Stored(body, names, contents), NEW v \in ArrayVar, Push(v)
  PROVE  ArrayInv'
<1> DEFINE b == Len(body)
           n == body[b].length
           x == Grown(body[b], n + 1)
           y(e) == [x EXCEPT !.data[n] = e, !.length = n + 1]
<1>1. Resolving(v) = b /\ body[b].forward = 0 /\ Holds(body[b], contents)
  BY WorksOn
<1>2. PICK e : Rewrite(v, b, n + 1, y(e)) /\ Notes(b, Append(contents, e))
  BY <1>1, Zenon DEF Push
<1>3. n \in Nat /\ n + 1 \in Nat
  BY <1>1, Parts
<1>4. Holds(x, contents) /\ n + 1 <= x.cap /\ x.length = n
  BY <1>1, <1>3, GrownHolds
<1> HIDE DEF x, n
<1>5. Holds(y(e), Append(contents, e))
  <2>1. Holds([x EXCEPT !.data[x.length] = e, !.length = x.length + 1], Append(contents, e))
    BY <1>4, PushHolds, Zenon
  <2> QED
    BY <1>4, <2>1, Zenon
<1> HIDE DEF y
<1>6. Stored(body', names', Append(contents, e))
  BY <1>2, <1>5, RewriteStored
<1> QED
  BY <1>1, <1>2, <1>6, Kept

LEMMA PopKeeps ==
  ASSUME ~ astray, Stored(body, names, contents), NEW v \in ArrayVar, PopLast(v)
  PROVE  ArrayInv'
<1> DEFINE b == Len(body)
           x == body[b]
           y == [x EXCEPT !.length = x.length - 1]
<1>1. Resolving(v) = b /\ body[b].forward = 0 /\ Holds(x, contents)
  BY WorksOn
<1>2. x.length > 0 /\ InPlace(b, y) /\ Notes(b, Front(contents))
  BY <1>1, Zenon DEF PopLast
<1> HIDE DEF x
<1>3. Holds(y, Front(contents))
  BY <1>1, <1>2, PopHolds
<1> HIDE DEF y
<1>4. Stored(body', names', Front(contents))
  BY <1>2, <1>3, InPlaceStored
<1> QED
  BY <1>1, <1>2, <1>4, Kept

LEMMA ShiftKeeps ==
  ASSUME ~ astray, Stored(body, names, contents), NEW v \in ArrayVar, Shift(v)
  PROVE  ArrayInv'
<1> DEFINE b == Len(body)
           x == body[b]
           y == [x EXCEPT !.data = Moved(x.data, 0, 1, x.length - 1), !.length = x.length - 1]
<1>1. Resolving(v) = b /\ body[b].forward = 0 /\ Holds(x, contents)
  BY WorksOn
<1>2. x.length > 0 /\ InPlace(b, y) /\ Notes(b, Tail(contents))
  BY <1>1, Zenon DEF Shift
<1> HIDE DEF x
<1>3. Holds(y, Tail(contents))
  BY <1>1, <1>2, ShiftHolds, Zenon
<1> HIDE DEF y
<1>4. Stored(body', names', Tail(contents))
  BY <1>2, <1>3, InPlaceStored
<1> QED
  BY <1>1, <1>2, <1>4, Kept

LEMMA UnshiftKeeps ==
  ASSUME ~ astray, Stored(body, names, contents), NEW v \in ArrayVar, Unshift(v)
  PROVE  ArrayInv'
<1> DEFINE b == Len(body)
           n == body[b].length
           x == Grown(body[b], n + 1)
           y(e) == [x EXCEPT !.data = Filled(Moved(x.data, 1, 0, n), 0, <<e>>),
                             !.length = n + 1]
<1>1. Resolving(v) = b /\ body[b].forward = 0 /\ Holds(body[b], contents)
  BY WorksOn
<1>2. PICK e : Rewrite(v, b, n + 1, y(e)) /\ Notes(b, <<e>> \o contents)
  BY <1>1, Zenon DEF Unshift
<1>3. n \in Nat /\ n + 1 \in Nat
  BY <1>1, Parts
<1>4. Holds(x, contents) /\ n + 1 <= x.cap /\ x.length = n
  BY <1>1, <1>3, GrownHolds
<1> HIDE DEF x, n
<1>5. Holds(y(e), <<e>> \o contents)
  <2>1. Holds([x EXCEPT !.data = Filled(Moved(x.data, 1, 0, x.length), 0, <<e>>),
                        !.length = x.length + 1], <<e>> \o contents)
    BY <1>4, UnshiftHolds, Zenon
  <2> QED
    BY <1>4, <2>1, Zenon
<1> HIDE DEF y
<1>6. Stored(body', names', <<e>> \o contents)
  BY <1>2, <1>5, RewriteStored
<1> QED
  BY <1>1, <1>2, <1>6, Kept

LEMMA SetKeeps ==
  ASSUME ~ astray, Stored(body, names, contents), NEW v \in ArrayVar, SetFast(v)
  PROVE  ArrayInv'
<1> DEFINE b == Resolving(v)
           n == body[b].length
           x(i) == Grown(body[b], i + 1)
           within(e, i) == [x(i) EXCEPT !.data[i] = e]
           zeroed(i) == Filled(x(i).data, n, [j \in 1 .. i + 1 - n |-> 0])
           beyond(e, i) == [x(i) EXCEPT !.data = Filled(zeroed(i), i, <<e>>), !.length = i + 1]
           stored(e, i) == [contents EXCEPT ![i + 1] = e]
           padded(e, i) == [j \in 1 .. i + 1 |-> IF j = i + 1 THEN e
                                                  ELSE IF j <= n THEN contents[j] ELSE 0]
<1>1. b = Len(body) /\ body[b].forward = 0 /\ Holds(body[b], contents)
  <2>1. b = Len(body) /\ body[Len(body)].forward = 0 /\ Holds(body[Len(body)], contents)
    BY WorksOn
  <2> QED
    BY <2>1, Zenon
<1>2. PICK e \in Storable, i \in 0 .. MaxLength - 1 :
        IF i < n THEN Rewrite(v, b, i + 1, within(e, i)) /\ Notes(b, stored(e, i))
        ELSE Rewrite(v, b, i + 1, beyond(e, i)) /\ Notes(b, padded(e, i))
  BY Zenon DEF SetFast
<1> HIDE DEF b
<1>3. n \in Nat /\ i \in Nat /\ i + 1 \in Nat
  BY <1>1, Parts, ArrayAssumption DEF ArrayAssumption
<1>4. Holds(x(i), contents) /\ i + 1 <= x(i).cap /\ x(i).length = n
  BY <1>1, <1>3, GrownHolds
<1>5. CASE i < n
  <2>1. Rewrite(v, b, i + 1, within(e, i)) /\ Notes(b, stored(e, i))
    BY <1>2, <1>5, Zenon
  <2> HIDE DEF x, n
  <2>2. i \in 0 .. x(i).length - 1
    BY <1>3, <1>4, <1>5
  <2>3. Holds(within(e, i), stored(e, i))
    BY <1>4, <2>2, SetWithinHolds
  <2> HIDE DEF within, stored
  <2>4. Stored(body', names', stored(e, i))
    BY <1>1, <2>1, <2>3, RewriteStored
  <2> QED
    BY <1>1, <2>1, <2>4, Kept
<1>6. CASE ~ (i < n)
  <2>1. Rewrite(v, b, i + 1, beyond(e, i)) /\ Notes(b, padded(e, i))
    BY <1>2, <1>6, Zenon
  <2> HIDE DEF x, n
  <2>2. x(i).length <= i
    BY <1>3, <1>4, <1>6
  <2>3. Holds(beyond(e, i), padded(e, i))
    <3> DEFINE g == x(i)
    <3>1. Holds(g, contents) /\ i + 1 <= g.cap /\ g.length = n /\ g.length <= i /\ i \in Nat
      BY <1>3, <1>4, <2>2
    <3> HIDE DEF g
    <3>2. Holds([g EXCEPT
                  !.data = Filled(Filled(g.data, g.length,
                                         [j \in 1 .. i + 1 - g.length |-> 0]), i, <<e>>),
                  !.length = i + 1],
                [j \in 1 .. i + 1 |-> IF j = i + 1 THEN e
                                     ELSE IF j <= g.length THEN contents[j] ELSE 0])
      BY <3>1, SetBeyondHolds, Zenon
    <3> QED
      BY <3>1, <3>2, Zenon DEF g
  <2> HIDE DEF beyond, padded
  <2>4. Stored(body', names', padded(e, i))
    BY <1>1, <2>1, <2>3, RewriteStored
  <2> QED
    BY <1>1, <2>1, <2>4, Kept
<1> QED
  BY <1>5, <1>6

LEMMA ReverseKeeps ==
  ASSUME ~ astray, Stored(body, names, contents), NEW v \in ArrayVar, ReverseArray(v)
  PROVE  ArrayInv'
<1> DEFINE b == Blindly(v)
<1>1. InPlace(b, Reversed(body[b])) /\ Notes(b, Reverse(contents))
  BY DEF ReverseArray
<1>2. CASE body[b].forward # 0
  BY <1>1, <1>2, Lost
<1>3. CASE body[b].forward = 0
  <2>1. b = Len(body) /\ Holds(body[b], contents)
    BY <1>3, WorksOn
  <2> HIDE DEF b
  <2>2. Holds(Reversed(body[b]), Reverse(contents))
    BY <2>1, ReverseHolds
  <2>3. Stored(body', names', Reverse(contents))
    BY <1>1, <2>1, <2>2, InPlaceStored
  <2> QED
    BY <1>1, <1>3, <2>3, Kept
<1> QED
  BY <1>2, <1>3

LEMMA SortKeeps ==
  ASSUME ~ astray, Stored(body, names, contents), NEW v \in ArrayVar, SortArray(v)
  PROVE  ArrayInv'
<1> DEFINE b == Blindly(v)
           x == body[b]
           w == Sorted(contents)
<1>1. /\ InPlace(b, [x EXCEPT !.data = Filled(x.data, 0, Sorted(Elements(x)))])
      /\ Notes(b, w)
  BY Zenon DEF SortArray
<1>2. CASE x.forward # 0
  BY <1>1, <1>2, Lost
<1>3. CASE x.forward = 0
  <2>1. b = Len(body) /\ Holds(x, contents)
    BY <1>3, WorksOn
  <2>2. DOMAIN w = DOMAIN contents /\ w = [i \in DOMAIN contents |-> w[i]]
    BY DEF Sorted
  <2>3. Sorted(Elements(x)) = w
    BY <2>1, Zenon DEF Holds
  <2> HIDE DEF x, w
  <2>4. DOMAIN w = 1 .. x.length /\ w = [i \in 1 .. x.length |-> w[i]]
    BY <2>1, <2>2, HoldsFacts
  <2> DEFINE y == [x EXCEPT !.data = Filled(x.data, 0, w)]
  <2>5. Holds(y, w)
    BY <2>1, <2>4, OverwriteHolds
  <2>6. InPlace(b, y)
    BY <1>1, <2>3, Zenon
  <2> HIDE DEF y, b
  <2>7. Stored(body', names', w)
    BY <2>1, <2>5, <2>6, InPlaceStored
  <2> QED
    BY <1>1, <1>3, <2>7, Kept DEF x
<1> QED
  BY <1>2, <1>3

LEMMA FillKeeps ==
  ASSUME ~ astray, Stored(body, names, contents), NEW v \in ArrayVar, FillArray(v)
  PROVE  ArrayInv'
<1> DEFINE b == Blindly(v)
           x == body[b]
           y(e) == [x EXCEPT !.data = Filled(x.data, 0, [i \in 1 .. x.length |-> e])]
           w(e) == [i \in 1 .. Len(contents) |-> e]
<1>1. PICK e : InPlace(b, y(e)) /\ Notes(b, w(e))
  BY Zenon DEF FillArray
<1>2. CASE x.forward # 0
  BY <1>1, <1>2, Lost
<1>3. CASE x.forward = 0
  <2>1. b = Len(body) /\ Holds(x, contents)
    BY <1>3, WorksOn
  <2> HIDE DEF x
  <2>2. Len(contents) = x.length
    BY <2>1, HoldsFacts
  <2>3. /\ w(e) = [i \in 1 .. x.length |-> e]
        /\ DOMAIN w(e) = 1 .. x.length /\ w(e) = [i \in 1 .. x.length |-> w(e)[i]]
    BY <2>2
  <2> HIDE DEF w
  <2>4. Holds([x EXCEPT !.data = Filled(x.data, 0, w(e))], w(e))
    BY <2>1, <2>3, OverwriteHolds
  <2>5. Holds(y(e), w(e))
    BY <2>3, <2>4, Zenon
  <2> HIDE DEF y, b
  <2>6. Stored(body', names', w(e))
    BY <1>1, <2>1, <2>5, InPlaceStored
  <2> QED
    BY <1>1, <1>3, <2>6, Kept DEF x
<1> QED
  BY <1>2, <1>3

LEMMA SpliceAtKeeps ==
  ASSUME ~ astray, Stored(body, names, contents), NEW v \in ArrayVar,
         NEW start \in Int, NEW del \in Int, NEW items \in Seq(Storable),
         SpliceAt(v, start, del, items)
  PROVE  ArrayInv'
<1> DEFINE b == Blindly(v)
           n == body[b].length
           s == ClampIndex(start, n)
           d == IF del < 0 THEN 0 ELSE IF del < n - s THEN del ELSE n - s
           m == Len(items)
           required == IF m > d THEN n + m - d ELSE 0
           x == Grown(body[b], required)
           parted == IF m # d /\ s + d < n
                     THEN Moved(x.data, s + m, s + d, n - (s + d)) ELSE x.data
           y == [x EXCEPT !.data = Filled(parted, s, items), !.length = n + m - d]
           w == SubSeq(contents, 1, s) \o items \o SubSeq(contents, s + d + 1, Len(contents))
<1>1. Rewrite(v, b, required, y) /\ Notes(b, w)
  BY Zenon DEF SpliceAt
<1>2. CASE body[b].forward # 0
  BY <1>1, <1>2, Lost
<1>3. CASE body[b].forward = 0
  <2>1. b = Len(body) /\ Holds(body[b], contents)
    BY <1>3, WorksOn
  <2>2. n \in Nat
    BY <2>1, Parts
  <2>3. m \in Nat
    BY LenProperties
  <2> HIDE DEF n, m
  <2>4. s \in Nat /\ s <= n
    <3>1. s \in 0 .. n
      BY <2>2, ClampFacts, Zenon
    <3> HIDE DEF s
    <3> QED
      BY <2>2, <3>1
  <2> HIDE DEF s
  <2>5. d \in Nat /\ s + d <= n
    BY <2>2, <2>4
  <2> HIDE DEF d
  <2>6. required \in Nat /\ (m > d => required = n + m - d)
    BY <2>2, <2>3, <2>4, <2>5
  <2> HIDE DEF required
  <2>7. Holds(x, contents) /\ required <= x.cap /\ x.length = n
    BY <2>1, <2>6, GrownHolds DEF n
  <2> HIDE DEF x
  <2>8. n + m - d <= x.cap
    <3>1. n <= x.cap /\ x.cap \in Nat
      BY <2>7, Parts
    <3> QED
      BY <2>2, <2>3, <2>4, <2>5, <2>6, <2>7, <3>1
  <2>9. Holds(y, w)
    <3>1. s + d <= x.length /\ x.length + Len(items) - d <= x.cap
      BY <2>5, <2>7, <2>8 DEF m
    <3>2. Holds([x EXCEPT
                  !.data = Filled(IF Len(items) # d /\ s + d < x.length
                                  THEN Moved(x.data, s + Len(items), s + d, x.length - (s + d))
                                  ELSE x.data, s, items),
                  !.length = x.length + Len(items) - d], w)
      BY <2>4, <2>5, <2>7, <3>1, SpliceHolds, Zenon
    <3> HIDE DEF w
    <3> QED
      BY <2>7, <3>2, Zenon DEF m
  <2> HIDE DEF y, w, b
  <2>10. Stored(body', names', w)
    BY <1>1, <2>1, <2>9, RewriteStored
  <2> QED
    BY <1>1, <1>3, <2>10, Kept
<1> QED
  BY <1>2, <1>3

LEMMA SpliceKeeps ==
  ASSUME ~ astray, Stored(body, names, contents), NEW v \in ArrayVar, Splice(v)
  PROVE  ArrayInv'
<1>1. PICK start \in -1 .. MaxLength, del \in -1 .. MaxLength, items \in SeqOf(Storable, 2) :
        SpliceAt(v, start, del, items)
  BY DEF Splice
<1>2. start \in Int /\ del \in Int
  BY ArrayAssumption DEF ArrayAssumption
<1>3. items \in Seq(Storable)
  <2>1. PICK k \in 0 .. 2 : items \in [1 .. k -> Storable]
    BY DEF SeqOf
  <2> QED
    BY <2>1, SeqDef
<1> QED
  BY <1>1, <1>2, <1>3, SpliceAtKeeps

LEMMA StartsStored ==
  ASSUME ArrayInit
  PROVE  ArrayInv
<1>1. PICK n \in 0 .. MaxLength, cap \in Nat :
        /\ n <= cap
        /\ body = <<[data |-> Zeroes(cap), length |-> n, cap |-> cap, forward |-> 0]>>
        /\ contents = [i \in 1 .. n |-> 0]
  <2>1. PICK n \in 0 .. MaxLength :
          /\ \E cap \in IF n = 0 THEN {0, 4} ELSE {n} :
               body = <<[data |-> Zeroes(cap), length |-> n, cap |-> cap, forward |-> 0]>>
          /\ contents = [i \in 1 .. n |-> 0]
    BY DEF ArrayInit
  <2>2. n \in Nat
    BY ArrayAssumption DEF ArrayAssumption
  <2>3. \A cap \in IF n = 0 THEN {0, 4} ELSE {n} : cap \in Nat /\ n <= cap
    BY <2>2
  <2> QED
    BY <2>1, <2>3
<1> DEFINE x == [data |-> Zeroes(cap), length |-> n, cap |-> cap, forward |-> 0]
<1>2. n \in Nat /\ n \in 0 .. cap
  BY <1>1, ArrayAssumption DEF ArrayAssumption
<1>3. Zeroes(cap) = [i \in 0 .. cap - 1 |-> Zeroes(cap)[i]] /\ \A i \in 0 .. cap - 1 : Zeroes(cap)[i] = 0
  BY DEF Zeroes
<1>4. Good(x) /\ x.data = Zeroes(cap) /\ x.length = n
  BY <1>2, <1>3, GoodWhen
<1> HIDE DEF x
<1>5. Holds(x, contents)
  <2>1. \A i \in 1 .. n : i - 1 \in 0 .. cap - 1
    BY <1>2
  <2>2. \A i \in 1 .. n : x.data[i - 1] = 0
    BY <1>3, <1>4, <2>1
  <2>3. contents = [i \in 1 .. n |-> x.data[i - 1]]
    BY <1>1, <2>2
  <2> QED
    BY <1>4, <2>3 DEF Holds, Elements
<1>6. body = <<x>>
  BY <1>1 DEF x
<1>7. body \in Seq({x}) /\ Len(body) = 1 /\ body # <<>> /\ body[1] = x
  BY <1>6
<1>8. names \in [ArrayVar -> 1 .. 1]
  BY DEF ArrayInit
<1>9. Stored(body, names, contents)
  <2>1. names \in [ArrayVar -> 1 .. Len(body)] /\ Holds(body[Len(body)], contents)
    BY <1>5, <1>7, <1>8
  <2>2. \A b \in 1 .. Len(body) - 1 : body[b].forward = b + 1
    BY <1>7
  <2> QED
    BY <1>7, <2>1, <2>2, StoredWhen
<1> QED
  BY <1>9 DEF ArrayInv, ArrayInit

LEMMA InvHolds == ArraySpec => []ArrayInv
<1>1. ArrayInit => ArrayInv
  BY StartsStored
<1>2. ArrayInv /\ [ArrayNext]_arrayVars => ArrayInv'
  <2> SUFFICES ASSUME ArrayInv, [ArrayNext]_arrayVars PROVE ArrayInv'
    OBVIOUS
  <2>1. CASE UNCHANGED arrayVars
    BY <2>1 DEF arrayVars, ArrayInv, Stored
  <2>2. CASE ArrayNext
    <3>1. PICK v \in ArrayVar :
            /\ ~ astray
            /\ \/ Push(v) \/ PopLast(v) \/ Shift(v) \/ Unshift(v) \/ SetFast(v) \/ Splice(v)
               \/ ReverseArray(v) \/ SortArray(v) \/ FillArray(v)
      BY <2>2 DEF ArrayNext
    <3>2. ~ astray /\ Stored(body, names, contents)
      BY <3>1 DEF ArrayInv
    <3> QED
      BY <3>1, <3>2, PushKeeps, PopKeeps, ShiftKeeps, UnshiftKeeps, SetKeeps, SpliceKeeps,
         ReverseKeeps, SortKeeps, FillKeeps
  <2> QED
    BY <2>1, <2>2
<1> QED
  BY <1>1, <1>2, PTL DEF ArraySpec

-----------------------------------------------------------------------------
(* What the program reads *)

\* Every variable reads what the program stored in the array, at any index, from
\* either end of a slice and by value, whichever variable made the array grow:
\* the operations of runtime/core/array.rs keep the elements in place and leave
\* nothing of a longer past beyond the length.
THEOREM ReadsWhatWasStored == ArraySpec => []ArrayAsStored
<1>1. ArrayInv => ArrayAsStored
  <2> SUFFICES ASSUME ArrayInv, ~ astray PROVE ArrayAsStored
    BY DEF ArrayAsStored, AliasesAgree, SliceCountsFromEnd
  <2> DEFINE x == body[Len(body)]
  <2>1. Stored(body, names, contents)
    BY DEF ArrayInv
  <2>2. Holds(x, contents)
    BY <2>1, StoredFacts
  <2>3. \A v \in ArrayVar : Resolving(v) = Len(body)
    BY <2>1, WorksOn
  <2>4. ASSUME NEW v \in ArrayVar
        PROVE  /\ Elements(body[Resolving(v)]) = contents
               /\ \A i \in -1 .. MaxLength :
                    GetFast(v, i) = IF i + 1 \in DOMAIN contents THEN contents[i + 1] ELSE 0
               /\ \A e \in Storable :
                    IndexOf(v, e) = IF e \in ToSet(contents)
                                    THEN SelectInSeq(contents, LAMBDA y : y = e) - 1 ELSE -1
    <3>1. body[Resolving(v)] = x
      BY <2>3
    <3>2. Elements(body[Resolving(v)]) = contents
      BY <2>2, <3>1 DEF Holds
    <3>3. ASSUME NEW i \in -1 .. MaxLength
          PROVE  GetFast(v, i) = IF i + 1 \in DOMAIN contents THEN contents[i + 1] ELSE 0
      <4>1. i \in Int
        BY ArrayAssumption DEF ArrayAssumption
      <4>2. GetFast(v, i) = IF i < 0 \/ i >= x.length THEN 0 ELSE x.data[i]
        BY <3>1, Zenon DEF GetFast
      <4> HIDE DEF x
      <4> QED
        BY <2>2, <4>1, <4>2, GetHolds
    <3>4. ASSUME NEW e \in Storable
          PROVE  IndexOf(v, e) = IF e \in ToSet(contents)
                                 THEN SelectInSeq(contents, LAMBDA y : y = e) - 1 ELSE -1
      <4> HIDE DEF x
      <4>1. IndexOf(v, e) = FirstIn(body[Resolving(v)], e)
        BY Zenon DEF IndexOf, FirstIn
      <4>2. IndexOf(v, e) = FirstOf(contents, e)
        BY <2>2, <3>1, <4>1, IndexOfHolds
      <4> QED
        BY <4>2, Zenon DEF FirstOf
    <3> QED
      BY <3>2, <3>3, <3>4
  <2>5. AliasesAgree
    BY <2>4, Zenon DEF AliasesAgree
  <2>6. ASSUME NEW v \in ArrayVar, NEW s \in -MaxLength - 1 .. MaxLength + 1,
               NEW e \in -MaxLength - 1 .. MaxLength + 1, body[Blindly(v)].forward = 0
        PROVE  LET n == Len(contents)
                   At(i) == IF i < 0 THEN i + n ELSE i
                   inside == {i \in 0 .. n - 1 : At(s) <= i /\ i < At(e)}
               IN Slice(v, s, e) = [k \in 1 .. Cardinality(inside) |-> contents[Min(inside) + k]]
    <3>1. s \in Int /\ e \in Int
      BY ArrayAssumption DEF ArrayAssumption
    <3>2. body[Resolving(v)] = x /\ body[Blindly(v)] = x
      BY <2>1, <2>6, WorksOn
    <3> HIDE DEF x
    <3>3. Slice(v, s, e) = TakenOf(x, s, e)
      BY <3>2, Zenon DEF Slice, TakenOf
    <3>4. Slice(v, s, e) = Between(contents, s, e)
      BY <2>2, <3>1, <3>3, SliceHolds
    <3> QED
      BY <3>4, Zenon DEF Between
  <2>7. SliceCountsFromEnd
    BY <2>6, Zenon DEF SliceCountsFromEnd
  <2> QED
    BY <2>5, <2>7 DEF ArrayAsStored
<1> QED
  BY <1>1, InvHolds, PTL

=============================================================================
