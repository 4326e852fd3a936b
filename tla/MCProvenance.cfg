CONSTANTS
  Key = {k1}
  Fingerprint = {f1, f2}
  Object = {o1}
  None = None
  Client = {c1, c2}
  Process = {p1, p2}
  Home <- TwoProcesses
  PruneHome = p2
  PruneOptions <- ByAge
  Age = 1
  MaxTime = 0
  MaxPrunes = 0
  Faults = TRUE
  Crashes = TRUE
  PartialOutputs = TRUE
  Scopes <- Everything
  p1 = p1
  p2 = p2
  c1 = c1
  c2 = c2
  Machine = {m1, m2}
  Version = {v1}
  Nothing = Nothing
  OneAtATime = FALSE
  Unreliable = TRUE
  Killable = TRUE
  Storage = TRUE
SPECIFICATION CachesSpec
SYMMETRY CachesSymmetry
INVARIANTS
  NothingUnbuiltIsServed NothingUnbuiltIsShared
