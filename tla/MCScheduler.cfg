CONSTANTS
  N = 4
  Worker = {w1, w2}
  W = 2
  CriticalPath = TRUE
  RamThreshold = TRUE
  RamFloor = 0
  Graphs <- NumberedGraphs
SPECIFICATION FairSpec
INVARIANTS
  TypeOK
  DependenciesFirst
  ReadyListIsFresh
  InFlightIsExact
  SlotsAreExclusive
  CascadeIsExact
  NeverStalls
  SummaryAccountsForAll
PROPERTIES
  ThrottleHolds Terminates
  ImplementsBuild
