\* Two workers, and threads that sleep, park and do I/O in any order.
SPECIFICATION Spec
CONSTANTS
  v1 = v1
  v2 = v2
  v3 = v3
  readable = readable
  VThreads = {v1, v2, v3}
  Workers = {w1, w2}
  NoVThread = none
  Channels = {readable}
  NoChannel = none
  Uses <- MCUsesOne
  Joins = {}
  Sleepers = {v2, v3}
  Parkers = {v3}
  Period = 2
  MaxBatch = 1
  MaxSleep = 1
  MaxNow = 2
INVARIANTS OnePlace RootsInOnePlace NoLostReadiness
PROPERTIES SleepsLongEnough ParkedUntilReady
\* All threads may end.
CHECK_DEADLOCK FALSE
