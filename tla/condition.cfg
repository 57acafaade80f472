\* Two virtual threads and one OS thread wait on and notify one condition, under
\* fairness.
SPECIFICATION FairCondSpec
CONSTANTS
  VThreads = {v1, v2}
  OsThreads = {o1}
  Tokens <- MCTokens
  CondTokens <- MCCondTokens
  NoToken <- MCNoToken
  NoThread = none
  Nested = {}
  Rogue = {}
INVARIANTS WaiterAccounted OwnershipConserved
PROPERTIES WakesOnlyWhenNotified NotifiedWakes ImplementsLock HandoffArrives
\* All threads may wait with nobody left to notify.
CHECK_DEADLOCK FALSE
