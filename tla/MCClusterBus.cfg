CONSTANTS
  Node <- Five
  Temp <- Names
  Slot = {1, 2, 3}
  None = 0
  Environments <- Scenarios
SPECIFICATION FairSpec
INVARIANTS FailNeedsMajority NoStrangers HandoverLosesNothing
PROPERTY CrashIsNoticed OrphanIsAdopted
CHECK_DEADLOCK FALSE
