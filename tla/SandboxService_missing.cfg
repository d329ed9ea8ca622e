SPECIFICATION Spec
CONSTANTS
  Requests = {q1, q2}
  WORKERS = 1
  MaxVersion = 2
  MaxRestarts = 1
  NoOne = NoOne
INVARIANT MissingMeansMissing
