CONSTANTS
  Procs = {p1, p2}
  Skills = {s1}
  NoSkill = NoSkill
  Period = 1
  MaxTime = 2
  MaxEntries = 2
  MaxOps = 2
  MaxFaults = 1
  MaxBeside = 1
  w1 = w1
  w2 = w2
  w3 = w3
  NumCalls = 3
  MaxAsks = 2
SPECIFICATION ASpec
INVARIANTS
  OneShotOnce
  DeletedStaysDeleted
  InFlightIsExact
PROPERTIES
  DueIsRun
  CascadeEnds
CHECK_DEADLOCK FALSE
