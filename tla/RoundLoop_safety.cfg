CONSTANTS
  Order <- MCOrder
  Behavioural = {"skills"}
  LocalCorpus = {}
  Agents = {a1, a2}
  Workers = 2
  WallShortage = TRUE
  MaxRound = 1
  WindowsRecur = FALSE
  MaxCrashes = 1
SPECIFICATION Spec
SYMMETRY AgentSymmetry
INVARIANTS TypeOK DoneMeansEvaluated
PROPERTY KeepsLedger
