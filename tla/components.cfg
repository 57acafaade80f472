\* The components that share no state, each on instances of its own.
SPECIFICATION SuiteSpec
CONSTANTS
  ArrayVar = {v1, v2}
  Storable = {1, 2}
  MaxLength = 3
  MaxBodies = 2
  MaxTimers = 2
  MaxClock = 3
  Delays = {0, 1}
  Callers = {c1, c2, c3}
  Literals <- MCLiterals
  Contents <- MCContents
  CacheIndex <- MCCacheIndex
  Readers = {r1, r2}
  Bodies <- MCTame
  MaxChoices = 3
  Functions <- MCFunctions
  Temps <- MCTemps
  Width = 3
  Fuel = 24
  Names <- MCNames
  Sources <- MCSources
  Trees <- MCTrees
  Scope <- MCScope
  ParentClass = "Base"
  ClassTable <- MCClassTable
  Signatures <- MCSignatures
  Globals <- MCGlobals
  Cells <- MCCells
  CheckedPrograms <- TypingPrograms
  ShortNames <- TypingShort
  MaxLooks = 3
  MaxTurns = 8
INVARIANTS
  ArrayAsStored TimersAccounted RootInStep LiteralsAgree  PassesKeepMeaning
  OptimizerStops ParsesAsSpecified  
PROPERTIES SparesOtherRoots ParserAdvances
\* Arrays, timers and threads may be at their bounds, and programs end.
CHECK_DEADLOCK FALSE
