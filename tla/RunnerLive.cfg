CONSTANTS
  Clients = {c1}
  Turns = {t1}
  Local = Local
  NoOwner = NoOwner
  MaxEvents = 3
  AsyncHooks = TRUE
  ClearMirrors = TRUE
SPECIFICATION FairSpec
PROPERTIES
  ImplementsSharedLog
  StreamInOrder
  OrphanEnds
  CallEnds
  EventReachesMirrors
CHECK_DEADLOCK FALSE
