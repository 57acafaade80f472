----------------------------- MODULE AbstractHeap -----------------------------
(***************************************************************************)
(* What a program may see of the heap: variables and objects that refer to *)
(* objects.  No step here frees or moves anything: to the program a        *)
(* collection is a step that changes nothing it can reach.                 *)
(***************************************************************************)
EXTENDS Naturals, FiniteSets

CONSTANTS Object, Root, Nil

VARIABLE view  \* var: what each variable refers to; ref: what each object the
               \* program can reach refers to, Nil for the others

\* The objects that the variables v lead to, along f.
Reached(v, f) ==
  LET R[n \in Nat] ==
        IF n = 0 THEN {v[r] : r \in Root} \ {Nil}
        ELSE LET S == R[n - 1] IN S \cup ({f[o] : o \in S} \ {Nil})
  IN R[Cardinality(Object)]

\* The program can no longer tell what an object it cannot reach refers to.
View(v, f) ==
  LET S == Reached(v, f)
  IN [var |-> v, ref |-> [o \in Object |-> IF o \in S THEN f[o] ELSE Nil]]

\* A variable is set to what a variable's object refers to, or to nothing.
Copies(w) ==
  LET seen == {Nil} \cup {w.ref[w.var[q]] : q \in {p \in Root : w.var[p] # Nil}}
  IN {View([w.var EXCEPT ![r] = x], w.ref) : r \in Root, x \in seen}

News(w) ==
  {View([w.var EXCEPT ![r] = o], [w.ref EXCEPT ![o] = Nil]) :
     r \in Root, o \in Object \ Reached(w.var, w.ref)}

Assigns(w) ==
  {View(w.var, [w.ref EXCEPT ![w.var[r]] = w.var[q]]) :
     r \in {p \in Root : w.var[p] # Nil}, q \in Root}

\* Array a outgrows its storage: every reference to it finds b instead.
Regrown(w, a, b) ==
  LET Now(x) == IF x = a THEN b ELSE x
  IN View([q \in Root |-> Now(w.var[q])],
          [o \in Object |-> Now(w.ref[IF o = b THEN a ELSE o])])

Regrows(w) ==
  {Regrown(w, w.var[r], b) :
     r \in {p \in Root : w.var[p] # Nil}, b \in Object \ Reached(w.var, w.ref)}

AbsInit == view = View([r \in Root |-> Nil], [o \in Object |-> Nil])

Collection == UNCHANGED view

AbsNext ==
  \/ Collection
  \/ view' \in Copies(view)
  \/ view' \in News(view)
  \/ view' \in Assigns(view)
  \/ view' \in Regrows(view)

AbsSpec == AbsInit /\ [][AbsNext]_view

=============================================================================
