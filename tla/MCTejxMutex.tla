----------------------------- MODULE MCTejxMutex -----------------------------
\* Instances of TejxMutex for TLC.  Three tokens are enough for three virtual
\* threads: each has one token at a time, and a withdrawn one is reused.
EXTENDS TejxMutex

MCTokens == 1 .. 4
MCNoToken == 0

=============================================================================
