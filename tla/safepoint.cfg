\* Two threads and two pauses, under fairness: a pause meets the stragglers of the
\* one before, and the threads contend for GC_LOCK.
SPECIFICATION FairSpec
CONSTANTS
  Threads = {t1, t2}
  NoThread = none
  MaxPauses = 2
INVARIANTS OnlyLateThreadsRun FirstPauseStopsWorld
PROPERTIES PauseEnds WaiterLeaves
\* Every thread may end, and a collector with all pauses used stops.
CHECK_DEADLOCK FALSE
