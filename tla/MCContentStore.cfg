CONSTANTS
  Hash = {h1, h2}
  None = None
  Client = {c1, c2}
  MaxSize = 2
  Faults = TRUE
  Crashes = TRUE
SPECIFICATION Spec
SYMMETRY Symmetry
INVARIANTS TypeOK StoredSurvives
PROPERTY NoFalseAbsence
