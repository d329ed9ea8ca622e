CONSTANTS
  Tracks = {repositories, skills}
  MaxPasses = 2
  MaxEpoch = 1
  MaxFaults = 1
  DiskFaults = FALSE
  None = None
SPECIFICATION Spec
INVARIANT ResetDropsScores
