\* Three objects and two roots; one major collection, minor ones at any time.
SPECIFICATION Spec
CONSTANTS
  Object = {v1, v2, v3}
  Root = {r1, r2}
  Finalizable = {v3}
  Leaf = {v3}
  GrowFrom = {"eden", "survivor"}
  Nil = nil
  Lost = lost
  EdenSize = 2
  SurvivorSize = 1
  LosLimit = 1
  OldThreshold = 1
  MaxMajors = 1
SYMMETRY MCSymmetry
INVARIANTS NoDangling OldToYoungRemembered SweepSparesLive
PROPERTIES FinalizesGarbage HeapRefines
\* The program may stop with no object left to allocate.
CHECK_DEADLOCK FALSE
