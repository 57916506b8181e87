CONSTANTS
  k1 = k1
  k2 = k2
  k3 = k3
  v1 = v1
  i1 = i1
  sc = sc
  NULL = NULL
  Key = {k1, k2, k3}
  Val = {v1}
  Hash <- Hash3
  Sizes = {1, 2, 4}
  InitialSize = 1
  EmptyVisits = 1
  CronBuckets = 2
  ForceRatio = 1
  MinFill = 60
  ExpandHints = {4}
  MaxPause = 1
  Width = 2
  Iterators = {i1}
  Scanner = sc
SPECIFICATION FairWalkSpec
INVARIANTS UsedIsExact WalksMissNothing
PROPERTIES RefinesMap RehashEnds
VIEW View
