CONSTANTS
  Clients = {c1,c2}
  Turns = {t1,t2}
  Local = Local
  NoOwner = NoOwner
  MaxEvents = 3
  AsyncHooks = FALSE
  ClearMirrors = FALSE

SPECIFICATION Spec
INVARIANTS
  CaughtUp
  AskNotLost
  EndedStreamIsWhole
CONSTRAINT Small
SYMMETRY Symmetry
CHECK_DEADLOCK FALSE
