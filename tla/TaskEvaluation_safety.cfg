CONSTANTS
  n1 = n1
  n2 = n2
  NoNonce = NoNonce
  Nonces <- MCNonces
  TaskOrder <- MCTaskOrder
  Malicious <- MCMalicious
  Threads = {h1}
  MaxRequests = 1
  MaxTokens = 1
  MaxAnswer = 0
  Repetitions = 3
  RequireInference = TRUE
  MaxPasses = 1
SPECIFICATION FairSpec
INVARIANTS TypeOK AttestedIffTallied UnreadableNeverRefuses
PROPERTIES VerdictIsMajority EvaluationEnds
