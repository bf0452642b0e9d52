SPECIFICATION CopySpec
CONSTANTS
  w1 = w1
  w2 = w2
  w3 = w3
  Writers = {w1, w2, w3}
  Backends = {"sqlite", "postgresql"}
  MaxSequence = 3
  MaxFaults = 1
INVARIANTS
  TypeOK
  LinksAreCommitted
  SerialChainValid
  CheckpointIsPrefix
  UndetectedIsTruncation
  MatchedCopyIsComplete
PROPERTIES
  ImplementsLog
