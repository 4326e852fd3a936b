CONSTANTS
  N = 4
  Graphs <- NumberedGraphs
  Worker = {w1, w2}
SPECIFICATION FairSpec
INVARIANTS OkMeansComplete
PROPERTIES NoOutcomeIsDropped ImplementsBuild Terminates
