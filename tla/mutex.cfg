\* Two virtual threads and a thread outside the scheduler share one mutex, under
\* fairness; the last one also unlocks it when another one holds it.
SPECIFICATION FairSpec
CONSTANTS
  VThreads = {v1, v2}
  OsThreads = {o1}
  Tokens <- MCTokens
  NoToken <- MCNoToken
  NoThread = none
  Nested = {}
  Rogue = {o1}
INVARIANT NoLostToken
PROPERTY QueuedServed
\* A thread may stay parked on a free mutex: see mutex_stranded.cfg.
CHECK_DEADLOCK FALSE
