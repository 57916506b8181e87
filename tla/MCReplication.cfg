SPECIFICATION FairSpec
CONSTANTS
  n1 = n1
  n2 = n2
  n3 = n3
  None = None
  Node <- Three
  Db = {0, 1}
  BacklogSize = 2
  Environments <- Deployments
INVARIANTS StreamComplete IdAndOffsetNameTheData SlavesHaveBacklog
PROPERTY ReplicasCatchUp
CHECK_DEADLOCK FALSE
