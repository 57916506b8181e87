SPECIFICATION FairSpec
CONSTANTS
  None = None
  Node <- Nodes3
  Slot <- Slots2
  Environments <- Clusters
INVARIANT NobodyKnowsBetter
PROPERTIES LostToGreaterEpoch ViewsAgree
