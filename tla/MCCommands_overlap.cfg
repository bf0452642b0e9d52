SPECIFICATION Spec
CONSTANTS
  r1 = r1
  r2 = r2
  r3 = r3
  r4 = r4
  o1 = o1
  o2 = o2
  k1 = k1
  k2 = k2
  a1 = a1
  a2 = a2
  Requests = {r1, r2, r3, r4}
  Offers = {o1, o2}
  Keys = {k1, k2}
  Actors = {a1, a2}
  RowLocks = FALSE
SYMMETRY Symmetry
INVARIANTS
  TypeOK
  OneEffectPerKey
  NoDoubleUse
  SettledByAnother
  RetryIsAnswered
PROPERTIES
  ImplementsLedger
CHECK_DEADLOCK FALSE
