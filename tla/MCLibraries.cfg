CONSTANTS
  p1 = p1
  p2 = p2
  k1 = k1
  k2 = k2
  MaxNodes = 4
  MaxEdges = 4
  MaxKeep = 2
  Others <- MCOthers
  Key = {k1, k2}
  NoKey = NoKey
  Thread = {p1, p2}
  MaxVersion = 2
  Capacity <- MCCapacity
  TierBytes <- MCTierBytes
  Names = 3
  DepLists <- MCDepLists
  Weights = {0, 1, 2}
  File = {"f", "g", "h"}
  NoFile = NoFile
  Artifact = {x}
  NoHash = NoHash
  Directory <- MCDirectory
  TaskLists <- MCTaskLists
  Indexer = {p1, p2}
  MaxDeps = 2
  GcFile = {k1, k2, "f3"}
  Sizes = {1, 2}
  Ages = {1, 2, 3}
  Ttl = 3
  HighWatermark = 3
  LowWatermark = 2
  MaxTouched = 1
  Policies = {"Lru", "SmallestFirst", "TtlOnly"}
SPECIFICATION MCSpec
SYMMETRY Symmetry
INVARIANTS
  GraphIsSound TieredIsSound LocklessIsSound FileCacheIsSound InterruptedMeansPanic CollectionIsExact
