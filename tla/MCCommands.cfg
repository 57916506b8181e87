SPECIFICATION Spec
CONSTANTS
  Proc <- redisCommandTable
  Dbs = {0, 1}
  Names = {"x", "y"}
  SecMs = 2
  W = 5
  MaxBulk = 3
  Word = Word
  GeoStep = 2
  IdMax = 9
  NodeMaxEntries <- MCNodeMax
  HllRegisters = 6
  HllValMax = 2
  HllValLen = 2
  HllZeroLen = 2
  HllSparseBytes <- MCHllBytes
  ItemsPerCmd = 2
  Scenarios <- MCScenarios
  LoadDelay = 7
INVARIANTS CopiesFollow AnswersAreRight
PROPERTY ChangesAreSignalled
CHECK_DEADLOCK FALSE
