SPECIFICATION FairSpec
CONSTANTS
    c1 = c1
    Client <- One
    Db = {0, 1}
    Environments <- All
    MaxWrites = 2
    MaxForks = 1
INVARIANTS AofHoldsTheDataset  FsyncOffsetIsDurable
PROPERTY WritesReachTheDisk
