CONSTANTS
  Machine = {m1, m2}
  Version = {v1, v2}
  Nothing = Nothing
  OneAtATime = TRUE
  Unreliable = FALSE
  Killable = FALSE
  Storage = TRUE
SPECIFICATION CompositeSpec
INVARIANT CachedMeansRestored
