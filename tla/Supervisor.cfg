CONSTANTS
  MaxProcs = 6
  MaxFaults = 1
SPECIFICATION FairSpec
INVARIANTS
  OwnsWorkspace
  SparesOthers
PROPERTIES
  StopKillsChild
  Heals
CHECK_DEADLOCK FALSE
