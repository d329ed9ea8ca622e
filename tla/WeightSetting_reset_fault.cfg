CONSTANTS
  Tracks = {repositories, skills}
  MaxPasses = 1
  MaxEpoch = 1
  MaxFaults = 1
  DiskFaults = TRUE
  None = None
SPECIFICATION Spec
PROPERTY AcknowledgedWhenCleared
