SPECIFICATION Spec
CONSTANTS
  d1 = d1
  k1 = k1
  w1 = w1
  w2 = w2
  Dispatches = {d1}
  Keys = {k1}
  Workers = {w1, w2}
  None = None
  MaxAttempts = 2
  BaseRetry = 1
  MaxRetry = 1
  LeaseSeconds = 1
  PromptWorkers = FALSE
  MaxCrashes = 0
  MaxRedrives = 0
  ClaimBound = 9
INVARIANTS
  NoUnauditedRedrive
CHECK_DEADLOCK FALSE
