CONSTANTS
  MaxProcesses = 4
  PipeSize = 1
  MaxOutput = 1
SPECIFICATION ExecutorSpec
CHECK_DEADLOCK FALSE
INVARIANT NoOrphans
