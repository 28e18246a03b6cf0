CONSTANTS
  MaxEvents = 3
  MaxLives = 3
  AsyncHooks = FALSE
  Tear = TRUE
  Clears = FALSE
  Fails = TRUE
  MaxIndex = 1
SPECIFICATION PSpec
INVARIANTS
  PromptLinesInOrder
  PromptReadable
  LogIsSafe
PROPERTIES
  DiskCatchesUp
CHECK_DEADLOCK FALSE
