SPECIFICATION Spec
CONSTANTS
  Sentinels = {"A", "B", "C"}
  Instances = {1, 2, 3}
  parallel_syncs = 1
  Attributes <- MCAttributes
  Scenarios <- MCScenarios
INVARIANTS  OneMasterPerConfig
 
CHECK_DEADLOCK FALSE
