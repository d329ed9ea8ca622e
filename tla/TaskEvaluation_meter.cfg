CONSTANTS
  n1 = n1
  n2 = n2
  NoNonce = NoNonce
  Nonces <- MCNonces
  TaskOrder <- MCTaskOrder
  Malicious <- MCMalicious
  Threads = {h1}
  MaxRequests = 1
  MaxTokens = 1
  MaxAnswer = 0
  Repetitions = 2
  RequireInference = TRUE
  MaxPasses = 2
SPECIFICATION Spec
PROPERTY RefusedOnlyWithoutCalls
