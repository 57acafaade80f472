---------------------------- MODULE MCTryFinally ----------------------------
\* Bodies of functions for TryFinally.
EXTENDS TryFinally

Printing(k) == [is |-> "print", val |-> k]
MayThrow(k) == [is |-> "call", val |-> k]
Throwing(k) == [is |-> "throw", val |-> k]
Returning(k) == [is |-> "return", val |-> k]
Breaking == [is |-> "break"]
Continuing == [is |-> "continue"]
Sq(s) == [is |-> "seq", stmts |-> s]
Branching(a, b) == [is |-> "if", then |-> a, else |-> b]
Looping(b, i) == [is |-> "loop", body |-> b, inc |-> i]
Labelled(b) == [default |-> FALSE, body |-> b]
Otherwise(b) == [default |-> TRUE, body |-> b]
Switching(c) == [is |-> "switch", cases |-> c]
Trying(b, c, f) == [is |-> "try", body |-> b, catch |-> c, final |-> f]

Sequels == {None, Printing(1), MayThrow(2), Throwing(3), Branching(MayThrow(2), Printing(1)), Sq(<<Printing(1), MayThrow(2)>>)}
Finals == {None, Printing(4), MayThrow(5)}
Tries == {Trying(b, c, f) : b \in Sequels, c \in Sequels, f \in Finals}

\* Bodies that leave a try by its end, by an exception, or by one transfer of a
\* try with a catch and no finally.
MCTame ==
  Tries
  \cup {Sq(<<t, Printing(6), Returning(7)>>) : t \in Tries}
  \cup {Looping(t, None) : t \in Tries}
  \cup {Trying(Trying(MayThrow(1), Printing(2), Printing(4)), c, f) : c \in {Printing(3), Throwing(3)}, f \in Finals}
  \cup {Trying(MayThrow(1), Printing(2), Trying(Printing(3), MayThrow(4), Printing(5))),
        Looping(Switching(<<Labelled(Printing(1)), Otherwise(Sq(<<MayThrow(2), Continuing>>)), Labelled(Breaking)>>), Printing(8)),
        Looping(Branching(Breaking, Branching(Continuing, Returning(1))), Printing(8)),
        Trying(MayThrow(1), Returning(3), None),
        Trying(MayThrow(1), Printing(3), Returning(4)),
        Switching(<<Labelled(Returning(1)), Labelled(Breaking), Labelled(Printing(2))>>),
        Looping(Trying(Branching(Breaking, Printing(1)), MayThrow(2), Printing(4)), None),
        Looping(Trying(Branching(Continuing, Printing(1)), MayThrow(2), Printing(4)), Printing(5))}

\* A try with finally that has more than one way out.
MCWild ==
  {Trying(b, c, f) : b \in {Branching(Returning(1), Returning(2))}, c \in Sequels, f \in {Printing(4), MayThrow(5)}}

=============================================================================
