CONSTANTS
  Key = {k1, k2}
  Fingerprint = {f1, f2}
  Object = {o1, o2}
  None = None
  Client = {c1}
  Process = {p1, p2}
  Home <- OneClient
  PruneHome = p2
  PruneOptions <- AnyPrune
  Age = 1
  MaxTime = 2
  MaxPrunes = 1
  Faults = FALSE
  Crashes = FALSE
  PartialOutputs = FALSE
  Scopes <- OneKeyOrOneFingerprint
  p1 = p1
  p2 = p2
  c1 = c1
  c2 = c2
  Machine = {m1, m2}
  Version = {v1, v2, v3}
  Nothing = Nothing
  OneAtATime = TRUE
  Unreliable = FALSE
  Killable = FALSE
  Storage = TRUE
SPECIFICATION CachesSpec
SYMMETRY CachesSymmetry
INVARIANTS
  TypeOK HitIsCurrent PruneIsExact HitRestores RemoteAgrees
