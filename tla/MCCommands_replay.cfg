SPECIFICATION Spec
CONSTANTS
  r1 = r1
  r2 = r2
  o1 = o1
  k1 = k1
  a1 = a1
  Requests = {r1, r2}
  Offers = {o1}
  Keys = {k1}
  Actors = {a1}
  RowLocks = TRUE
PROPERTIES
  ReplayNeverRefused
CHECK_DEADLOCK FALSE
