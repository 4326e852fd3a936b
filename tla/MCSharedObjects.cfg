CONSTANTS
  Key = {k1, k2}
  Fingerprint = {f1}
  Object = {o1}
  None = None
  Client = {c1}
  Process = {p1, p2}
  Home <- OneClient
  PruneHome = p2
  PruneOptions <- ByAge
  Age = 1
  MaxTime = 2
  MaxPrunes = 1
  Faults = FALSE
  Crashes = FALSE
  PartialOutputs = FALSE
  Scopes <- Everything
  p1 = p1
  p2 = p2
  c1 = c1
  c2 = c2
SPECIFICATION MCSpec
PROPERTY SharedObjectsAreKept
