\* One worker; v1 does I/O and joins v2, v2 sleeps, v3 only yields, under fairness.
SPECIFICATION FairSpec
CONSTANTS
  v1 = v1
  v2 = v2
  v3 = v3
  readable = readable
  VThreads = {v1, v2, v3}
  Workers = {w1}
  NoVThread = none
  Channels = {readable}
  NoChannel = none
  Uses <- MCUsesOne
  Joins <- MCJoins
  Sleepers = {v2}
  Parkers = {}
  Period = 3
  MaxBatch = 1
  MaxSleep = 1
  MaxNow = 1
PROPERTIES  JoinReturns QueuedRuns 
\* All threads may end.
CHECK_DEADLOCK FALSE
