CONSTANTS
  Order <- MCOrder
  Behavioural = {"skills"}
  LocalCorpus = {}
  Agents = {a1}
  Workers = 1
  WallShortage = TRUE
  MaxRound = 1
  WindowsRecur = TRUE
  MaxCrashes = 0
SPECIFICATION FairSpec
PROPERTY WallCapScores
