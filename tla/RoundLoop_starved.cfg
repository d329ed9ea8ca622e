CONSTANTS
  Order <- MCOrderOfThree
  Behavioural = {"skills"}
  LocalCorpus = {}
  Agents = {}
  Workers = 1
  WallShortage = FALSE
  MaxRound = 1
  WindowsRecur = TRUE
  MaxCrashes = 0
SPECIFICATION FairSpec
PROPERTY WindowsStarveNone
