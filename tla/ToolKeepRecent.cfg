SPECIFICATION Spec

CONSTANTS
  t1 = t1
  t2 = t2
  x1 = x1
  Turns = {t1, t2}
  Inputs = {x1}
  MaxIterations = 2
  MaxBatch = 1
  WindowSize = 2
  RepeatThreshold = 3
  KeepRecent = 1
  Concurrent = FALSE
  Speaks = FALSE
  Compacts = TRUE
  Crashes = FALSE

SYMMETRY Symmetry

INVARIANT OwnPromptIsSent
CHECK_DEADLOCK FALSE
