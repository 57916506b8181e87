SPECIFICATION FairSpec
CONSTANTS
  a = a
  b = b
  Client = {a, b}
  IoThreadsNum = 2
  PendingPerThread = 1
  Environments <- MCEnvironments
INVARIANTS OneThreadPerClient RepliesInOrder NoDanglingClient
PROPERTY EveryCommandAnswered
