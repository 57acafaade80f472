----------------------------- MODULE GrowableArray -----------------------------
(***************************************************************************)
(* Arrays (runtime/core/array.rs): a body with a length and a capacity,    *)
(* edited in place, that moves to a larger body when it is full.  The old  *)
(* header then holds the address of the new body.  Only the variable a     *)
(* call was made on gets the new address (codegen/inst.rs): any other that *)
(* names the array keeps the old one, which some operations resolve and    *)
(* some do not.                                                            *)
(*                                                                         *)
(* One array and the variables that name it; indexes start at 0, as in the *)
(* code.  Elements are words: narrower ones are cut by their kind, which   *)
(* is left out, as is the type of an element.  shift copies overlapping    *)
(* ranges with memcpy; the C libraries the runtime is built with copy them *)
(* as memmove does, and so does Moved.                                     *)
(***************************************************************************)
EXTENDS Integers, SequencesExt

CONSTANTS
  ArrayVar,     \* variables that name the array
  Storable,      \* what the program stores; 0 is the empty element
  MaxLength,    \* bound: length of the array
  MaxBodies     \* bound: bodies, the present one included

ASSUME ArrayAssumption ==
  ArrayVar # {} /\ Storable \subseteq Nat \ {0} /\ {MaxLength, MaxBodies} \subseteq Nat

VARIABLES
  body,      \* the bodies, in the order of allocation
  names,     \* the body whose address each variable holds
  fixed,     \* ARRAY_FLAG_FIXED
  contents,  \* history: what the program has put in the array
  astray     \* history: an operation worked on a body that was left behind

arrayVars == <<body, names, fixed, contents, astray>>

Zeroes(n) == [i \in 0..n - 1 |-> 0]

ArrayInit ==
  /\ \E n \in 0..MaxLength : \* rt_Array_constructor_v2 and rt_Array_new
       /\ \E cap \in IF n = 0 THEN {0, 4} ELSE {n} :
            body = <<[data |-> Zeroes(cap), length |-> n, cap |-> cap, forward |-> 0]>>
       /\ contents = [i \in 1..n |-> 0]
  /\ names = [v \in ArrayVar |-> 1]
  /\ fixed \in BOOLEAN
  /\ astray = FALSE

\* The body that has taken over from body b.
ResolveId(b) ==
  LET Hop[i \in DOMAIN body] == IF body[i].forward = 0 THEN i ELSE Hop[body[i].forward]
  IN Hop[b]

\* memmove(data + dst, data + src, n)
Moved(data, dst, src, n) ==
  [i \in DOMAIN data |-> IF i \in dst..dst + n - 1 THEN data[src + i - dst] ELSE data[i]]

\* Copy the elements of s to data + dst.
Filled(data, dst, s) ==
  [i \in DOMAIN data |-> IF i - dst + 1 \in DOMAIN s THEN s[i - dst + 1] ELSE data[i]]

\* The elements of x that a program can index.
Elements(x) == [i \in 1..x.length |-> x.data[i - 1]]

\* Double the capacity, or more: the elements up to the old capacity are copied,
\* and what is behind them is zeroed memory.
NewCapacity(cap, required) ==
  LET doubled == IF cap = 0 THEN 4 ELSE cap * 2
  IN IF doubled < required THEN required ELSE doubled

Grown(x, required) ==
  IF required <= x.cap THEN x
  ELSE LET cap == NewCapacity(x.cap, required)
       IN [x EXCEPT !.cap = cap,
                    !.data = [i \in 0..cap - 1 |-> IF i < x.cap THEN x.data[i] ELSE 0]]

\* Body b becomes y, what the operation makes of b with the capacity required: in
\* place, or as a new body when b is too small.  Variable v names the result.
Rewrite(v, b, required, y) ==
  IF required <= body[b].cap
  THEN /\ body' = [body EXCEPT ![b] = y]
       /\ names' = [names EXCEPT ![v] = b]
  ELSE /\ ~fixed /\ Len(body) < MaxBodies
       /\ body' = Append([body EXCEPT ![b].forward = Len(body) + 1], y)
       /\ names' = [names EXCEPT ![v] = Len(body) + 1]

InPlace(b, y) ==
  body' = [body EXCEPT ![b] = y] /\ UNCHANGED names

\* An operation that finds the body that is in use, and one that does not look.
Resolving(v) == ResolveId(names[v])
Blindly(v) == names[v]

Notes(b, new) ==
  /\ astray' = (astray \/ body[b].forward # 0)
  /\ contents' = IF astray' THEN <<>> ELSE new
  /\ UNCHANGED fixed

\* rt_array_push looks at ARRAY_FLAG_FIXED only when it has to grow.
Push(v) ==
  \E e \in Storable :
    LET b == Resolving(v)
        n == body[b].length
        x == Grown(body[b], n + 1)
    IN /\ n < MaxLength
       /\ Rewrite(v, b, n + 1, [x EXCEPT !.data[n] = e, !.length = n + 1])
       /\ Notes(b, Append(contents, e))

PopLast(v) ==
  LET b == Resolving(v)
      x == body[b]
  IN /\ ~fixed /\ x.length > 0
     /\ InPlace(b, [x EXCEPT !.length = x.length - 1])
     /\ Notes(b, Front(contents))

\* The element the last slot held stays behind the new length.
Shift(v) ==
  LET b == Resolving(v)
      x == body[b]
      n == x.length
  IN /\ ~fixed /\ n > 0
     /\ InPlace(b, [x EXCEPT !.data = Moved(x.data, 0, 1, n - 1), !.length = n - 1])
     /\ Notes(b, Tail(contents))

Unshift(v) ==
  \E e \in Storable :
    LET b == Resolving(v)
        n == body[b].length
        x == Grown(body[b], n + 1)
    IN /\ ~fixed /\ n < MaxLength
       /\ Rewrite(v, b, n + 1, [x EXCEPT !.data = Filled(Moved(x.data, 1, 0, n), 0, <<e>>),
                                        !.length = n + 1])
       /\ Notes(b, <<e>> \o contents)

\* Mutant: the elements between the end and the index keep what was there.
SetFastUnzeroed(v) ==
  \E e \in Storable, i \in 0..MaxLength - 1 :
    LET b == Resolving(v)
        n == body[b].length
        x == Grown(body[b], i + 1)
    IN /\ i >= n /\ ~fixed
       /\ Rewrite(v, b, i + 1, [x EXCEPT !.data[i] = e, !.length = i + 1])
       /\ Notes(b, [j \in 1..i + 1 |-> IF j = i + 1 THEN e
                                       ELSE IF j <= n THEN contents[j] ELSE 0])

\* A store beyond the length zeroes the elements in between: a pop left values
\* there.
SetFast(v) ==
  \E e \in Storable, i \in 0..MaxLength - 1 :
    LET b == Resolving(v)
        n == body[b].length
        x == Grown(body[b], i + 1)
        zeroed == Filled(x.data, n, [j \in 1..i + 1 - n |-> 0])
    IN IF i < n THEN /\ Rewrite(v, b, i + 1, [x EXCEPT !.data[i] = e])
                     /\ Notes(b, [contents EXCEPT ![i + 1] = e])
       ELSE /\ ~fixed
            /\ Rewrite(v, b, i + 1, [x EXCEPT !.data = Filled(zeroed, i, <<e>>), !.length = i + 1])
            /\ Notes(b, [j \in 1..i + 1 |-> IF j = i + 1 THEN e
                                            ELSE IF j <= n THEN contents[j] ELSE 0])

\* slice's bounds; splice clamps its start the same way.
ClampIndex(i, n) ==
  IF i < 0 THEN (IF n + i < 0 THEN 0 ELSE n + i) ELSE IF i > n THEN n ELSE i

\* What slice(start, end) returns of an array: the length is that of the body in
\* use, the elements are those where the variable points.
Slice(v, start, end) ==
  LET n == body[Resolving(v)].length
      s == ClampIndex(start, n)
      e == ClampIndex(end, n)
  IN IF s >= e THEN <<>> ELSE [i \in 1..e - s |-> body[Blindly(v)].data[s + i - 1]]

SpliceAt(v, start, del, items) ==
  LET b == Blindly(v)
      n == body[b].length
      s == ClampIndex(start, n)
      d == IF del < 0 THEN 0 ELSE IF del < n - s THEN del ELSE n - s
      m == Len(items)
      required == IF m > d THEN n + m - d ELSE 0
      x == Grown(body[b], required)
      parted == IF m # d /\ s + d < n THEN Moved(x.data, s + m, s + d, n - (s + d)) ELSE x.data
  IN /\ ~fixed /\ n + m - d <= MaxLength
     /\ Rewrite(v, b, required, [x EXCEPT !.data = Filled(parted, s, items),
                                         !.length = n + m - d])
     /\ Notes(b, SubSeq(contents, 1, s) \o items \o SubSeq(contents, s + d + 1, Len(contents)))

Splice(v) ==
  \E start \in -1..MaxLength, del \in -1..MaxLength, items \in SeqOf(Storable, 2) :
    SpliceAt(v, start, del, items)

\* The swaps of the two ends, inwards.
Reversed(x) ==
  LET n == x.length
  IN [x EXCEPT !.data = [i \in DOMAIN @ |-> IF i < n THEN @[n - 1 - i] ELSE @[i]]]

ReverseArray(v) ==
  LET b == Blindly(v) IN InPlace(b, Reversed(body[b])) /\ Notes(b, Reverse(contents))

\* The elements of s in ascending order.
Sorted(s) ==
  LET p == CHOOSE p \in Permutations(DOMAIN s) :
             \A i, j \in DOMAIN s : i < j => s[p[i]] <= s[p[j]]
  IN [i \in DOMAIN s |-> s[p[i]]]

SortArray(v) ==
  LET b == Blindly(v)
      x == body[b]
  IN /\ InPlace(b, [x EXCEPT !.data = Filled(x.data, 0, Sorted(Elements(x)))])
     /\ Notes(b, Sorted(contents))

FillArray(v) ==
  \E e \in Storable \cup {0} :
    LET b == Blindly(v)
        x == body[b]
    IN /\ InPlace(b, [x EXCEPT !.data = Filled(x.data, 0, [i \in 1..x.length |-> e])])
       /\ Notes(b, [i \in 1..Len(contents) |-> e])

\* Reads through variable v: an index outside the array gives 0.
GetFast(v, i) ==
  LET x == body[Resolving(v)] IN IF i < 0 \/ i >= x.length THEN 0 ELSE x.data[i]

IndexOf(v, e) ==
  LET x == body[Resolving(v)]
      hits == {i \in 0..x.length - 1 : x.data[i] = e}
  IN IF hits = {} THEN -1 ELSE CHOOSE i \in hits : \A j \in hits : i <= j

\* Nothing is claimed, and no step modelled, once an operation went astray.
ArrayNext ==
  \E v \in ArrayVar :
    /\ ~astray
    /\ \/ Push(v) \/ PopLast(v) \/ Shift(v) \/ Unshift(v) \/ SetFast(v) \/ Splice(v)
       \/ ReverseArray(v) \/ SortArray(v) \/ FillArray(v)

ArraySpec == ArrayInit /\ [][ArrayNext]_arrayVars

---------------------------------------------------------------------------
(* Properties. *)

\* Every variable reads the array the program has built, whichever of them made
\* it grow, until an operation that does not resolve its array is called through
\* an address that was left behind: no edit reads what a shorter array left
\* beyond its length.
AliasesAgree ==
  ~astray => \A v \in ArrayVar :
    /\ Elements(body[Resolving(v)]) = contents
    /\ \A i \in -1..MaxLength :
         GetFast(v, i) = IF i + 1 \in DOMAIN contents THEN contents[i + 1] ELSE 0
    /\ \A e \in Storable : IndexOf(v, e) = IF e \in ToSet(contents)
                                          THEN SelectInSeq(contents, LAMBDA x : x = e) - 1 ELSE -1

\* Negative bounds count from the end, and bounds outside the array are cut, when
\* the slice is taken through an address that is in use.
SliceCountsFromEnd ==
  ~astray => \A v \in ArrayVar, s, e \in -MaxLength - 1..MaxLength + 1 :
    body[Blindly(v)].forward = 0 =>
      LET n == Len(contents)
          At(i) == IF i < 0 THEN i + n ELSE i
          inside == {i \in 0..n - 1 : At(s) <= i /\ i < At(e)}
      IN Slice(v, s, e) = [k \in 1..Cardinality(inside) |-> contents[Min(inside) + k]]

\* Reads and slices of the array are those of what was stored in it.
ArrayAsStored == AliasesAgree /\ SliceCountsFromEnd

=============================================================================
