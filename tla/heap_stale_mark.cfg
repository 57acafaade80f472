\* A second major collection meets the mark bits that the first one left.
SPECIFICATION Spec
CONSTANTS
  Object = {v1, v2, v3}
  Root = {r1, r2}
  Finalizable = {v3}
  Leaf = {v3}
  GrowFrom = {"eden", "survivor"}
  Nil = nil
  Lost = lost
  EdenSize = 2
  SurvivorSize = 1
  LosLimit = 1
  OldThreshold = 1
  MaxMajors = 2
SYMMETRY MCSymmetry
INVARIANT NoDangling
\* The program may stop with no object left to allocate.
CHECK_DEADLOCK FALSE
