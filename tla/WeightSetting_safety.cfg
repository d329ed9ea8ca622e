CONSTANTS
  Tracks = {repositories}
  MaxPasses = 1
  MaxEpoch = 1
  MaxFaults = 1
  DiskFaults = FALSE
  None = None
SPECIFICATION FairSpec
INVARIANTS TypeOK ResetHolds WipesAccountedFor
PROPERTIES PauseHonoured VoteRetried ResetSeen
