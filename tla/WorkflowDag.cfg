CONSTANTS
  NumSteps = 3
  Workflows <- MCWorkflows
SPECIFICATION FairSpec
INVARIANTS
  NeverStalls
  ErrorNamesCulprit
PROPERTIES
  ImplementsTaskGraph
  RunEnds
CHECK_DEADLOCK FALSE
