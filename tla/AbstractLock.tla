----------------------------- MODULE AbstractLock -----------------------------
(***************************************************************************)
(* What a mutex promises a program: a thread enters when nobody is inside, *)
(* and the thread inside is the only one that leaves.                      *)
(***************************************************************************)
CONSTANT Threads

VARIABLE inside   \* threads that hold the lock

Init == inside = {}

Enter(t) == inside = {} /\ inside' = {t}

Leave(t) == inside = {t} /\ inside' = {}

Next == \E t \in Threads : Enter(t) \/ Leave(t)

Spec == Init /\ [][Next]_inside

=============================================================================
