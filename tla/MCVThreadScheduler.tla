-------------------------- MODULE MCVThreadScheduler --------------------------
\* Instances of VThreadScheduler for TLC: which of the threads v1, v2, v3 does I/O,
\* which joins, sleeps or parks.
EXTENDS VThreadScheduler

CONSTANTS v1, v2, v3, readable

MCUsesOne == {<<v1, readable>>}
MCUsesTwo == {<<v1, readable>>, <<v2, readable>>}
MCJoins == {<<v1, v2>>}

=============================================================================
