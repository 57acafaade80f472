----------------------------- MODULE MCSafepoint -----------------------------
\* Instances of Safepoint for TLC: the constants are given in the configurations.
EXTENDS Safepoint

=============================================================================
