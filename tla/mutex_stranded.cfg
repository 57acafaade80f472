\* A thread that queues between unlock's look at the queue and its store.
SPECIFICATION Spec
CONSTANTS
  VThreads = {v1, v2}
  OsThreads = {}
  Tokens <- MCTokens
  NoToken <- MCNoToken
  NoThread = none
  Nested = {}
  Rogue = {}
INVARIANTS NoStrandedWaiter
CHECK_DEADLOCK FALSE
