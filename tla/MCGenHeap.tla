------------------------------ MODULE MCGenHeap ------------------------------
\* Instances of GenHeap for TLC.
EXTENDS GenHeap, TLC

MCSymmetry == Permutations(Object \ Finalizable) \cup Permutations(Root)

=============================================================================
