SPECIFICATION Spec
CONSTANTS
  s1 = s1
  s2 = s2
  s3 = s3
  o1 = o1
  d1 = d1
  d2 = d2
  NoDetails = NoDetails
  Submissions = {s1, s2, s3}
  Offers = {o1}
  Details = {d1, d2}
  Horizon = 2
  Zones = {0, 1}
  SteadyMeters = TRUE
SYMMETRY Symmetry
INVARIANTS
  TypeOK
  ReadingOnce
  PaidInsideOffer
  EvidenceIsComplete
CHECK_DEADLOCK FALSE
