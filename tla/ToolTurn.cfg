CONSTANTS
  t1 = t1
  t2 = t2
  x1 = x1
  x2 = x2
  Turns = {t1, t2}
  Inputs = {x1, x2}
  MaxIterations = 2
  MaxBatch = 2
  WindowSize = 2
  RepeatThreshold = 2
  KeepRecent = 1
  Concurrent = TRUE
  Speaks = FALSE
  Compacts = TRUE
  Crashes = TRUE
SPECIFICATION TSpec
INVARIANTS
  AnsweredOnce
  EndedIsAnswered
  EndIsTold
  ChainIsWellFormed
  CompactionsAreDisjoint
PROPERTIES
  LiveTurnEnds
CHECK_DEADLOCK FALSE
