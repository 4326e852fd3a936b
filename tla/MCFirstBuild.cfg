CONSTANTS
  Source = {s1, s2}
  Other = {o}
  MaxEdits = 2
SPECIFICATION WatchSpec
CHECK_DEADLOCK FALSE
INVARIANT EveryEditIsBuilt
