SPECIFICATION FairSpec
CONSTANTS
  d1 = d1
  d2 = d2
  k1 = k1
  k2 = k2
  w1 = w1
  w2 = w2
  Dispatches = {d1, d2}
  Keys = {k1, k2}
  Workers = {w1, w2}
  None = None
  MaxAttempts = 3
  BaseRetry = 2
  MaxRetry = 3
  LeaseSeconds = 2
  PromptWorkers = TRUE
  MaxCrashes = 1
  MaxRedrives = 1
  ClaimBound = 9
INVARIANTS
  TypeOK
  RowsAgree
  AuditExplainsRows
  OverrunNeedsCrash
PROPERTIES
  DeliveryConcludes
  ImplementsLifecycle
CHECK_DEADLOCK FALSE
