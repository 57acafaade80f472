--------------------------- MODULE MCTejxCondition ---------------------------
\* Instances of TejxCondition for TLC: a token per virtual thread for its
\* lock() and one for its wait().
EXTENDS TejxCondition

MCTokens == 1 .. 3
MCCondTokens == 11 .. 13
MCNoToken == 0

=============================================================================
