SPECIFICATION Spec
CONSTANTS
  d1 = d1
  d2 = d2
  k1 = k1
  k2 = k2
  w1 = w1
  w2 = w2
  Dispatches = {d1, d2}
  Keys = {k1, k2}
  Workers = {w1, w2}
  None = None
  MaxAttempts = 2
  BaseRetry = 1
  MaxRetry = 1
  LeaseSeconds = 1
  PromptWorkers = FALSE
  MaxCrashes = 1
  MaxRedrives = 1
  ClaimBound = 3
SYMMETRY Symmetry
INVARIANTS
  SettledWasAcknowledged
  OneKeyPerEffect
  ClaimIsLeased
CHECK_DEADLOCK FALSE
