CONSTANTS
  Pkgs = {core, sdk}
  Unbuilt = {}
  MaxTxns = 2
  MaxEdits = 2
  MaxCalls = 4
  MaxFaults = 1
SPECIFICATION Spec
INVARIANTS LiveIsTested
CHECK_DEADLOCK FALSE
