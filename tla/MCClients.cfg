SPECIFICATION Spec
CONSTANTS
  Proc <- redisCommandTable
  ItemsPerCmd = 2
  ClientProc <- callQueued
  ServeKey <- serveClientsBlockedOnKey
  Dbs = {0, 1}
  Names = {"x", "y"}
  SecMs = 2
  W = 5
  MaxBulk = 3
  Word = Word
  GeoStep = 2
  IdMax = 9
  NodeMaxEntries <- MCNodeMax
  HllRegisters = 6
  HllValMax = 2
  HllValLen = 2
  HllZeroLen = 2
  HllSparseBytes <- MCHllBytes
  Client = {"a", "b", "c"}
  Replicas = {"p", "q"}
  Channels = {"h", "i"}
  MaxTracked = 1
  Scripts <- MCScripts
  ScriptCacheSize = 1
  Plays <- MCPlays
INVARIANTS ExecIsIsolated NobodyMissesAKey  FollowersAgree
PROPERTIES WaitIsHonest NobodyWaitsForever
CHECK_DEADLOCK FALSE
