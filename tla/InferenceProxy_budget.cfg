CONSTANTS
  Nonces = {n1, n2}
  Threads = {h1, h2, h3}
  MaxRequests = 2
  MaxTokens = 2
  MaxAnswer = 1
  NoNonce = NoNonce
SPECIFICATION ProxySpec
INVARIANT BudgetEnforced
