SPECIFICATION CopySpec
CONSTANTS
  w1 = w1
  w2 = w2
  Writers = {w1, w2}
  Backends = {"postgresql"}
  MaxSequence = 3
  MaxFaults = 0
SYMMETRY Symmetry
INVARIANTS
  ChainValid
