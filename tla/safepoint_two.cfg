\* A second pause requested while a thread is still leaving the first.
SPECIFICATION Spec
CONSTANTS
  Threads = {t1, t2}
  NoThread = none
  MaxPauses = 2
INVARIANTS StopTheWorld
CHECK_DEADLOCK FALSE
