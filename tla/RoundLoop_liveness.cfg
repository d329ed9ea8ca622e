CONSTANTS
  Order <- MCOrder
  Behavioural = {"skills"}
  LocalCorpus = {"repositories"}
  Agents = {a1}
  Workers = 1
  WallShortage = FALSE
  MaxRound = 1
  WindowsRecur = TRUE
  MaxCrashes = 1
SPECIFICATION FairSpec
PROPERTY OpenRoundDone
