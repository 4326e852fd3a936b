CONSTANTS
  p1 = p1
  p2 = p2
  k1 = k1
  k2 = k2
  N = 2
  Task = {k1, k2}
  Threshold = 1
  MaxCrashes = 1
  Configs <- MCConfigs
  Path <- MCPath
  Content = {1, 2}
  Reader = {p1, p2}
  MaxCacheBytes = 3
  Node = {"n1", "n2", "n3"}
  NoNode = NoNode
  Tool = {"x", "y"}
  AnyTool = "*"
  MaxLoad = 1
  JobId = {"j1", "j2"}
  Rank <- MCRank
  JobTool <- MCJobTool
  MaxRetries <- MCMaxRetries
  MaxPushes = 2
  NodeTool <- MCNodeTool
  RetryBound = 1
  Target = {k1, k2, "t"}
  Request = {p1, p2}
  Capacity_ = 3
  Rate_ = 2
  MaxTime = 4
  Source = {k1, k2}
  Other = {o}
  MaxEdits = 2
  Tracked = {k1, k2}
  Ignored = {o}
  MaxChanges = 2
  MaxProcesses = 4
  PipeSize = 1
  MaxOutput = 2
SPECIFICATION MCSpec
SYMMETRY Symmetry
INVARIANTS
  ActiveJobsAreAccounted VfsIsSound TasksAreConserved GatewayCounts QuietMeansBuilt NoChangeIsLost ExecuteIsSound
PROPERTIES
  GivesUpAfterAll AnswersAreBest
