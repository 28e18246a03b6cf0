CONSTANTS
  Procs = {p1}
  Skills = {s1}
  NoSkill = NoSkill
  Period = 1
  MaxTime = 2
  MaxEntries = 2
  MaxOps = 1
  MaxFaults = 0
SPECIFICATION FairSpec
INVARIANTS
  SingleRun
CHECK_DEADLOCK FALSE
