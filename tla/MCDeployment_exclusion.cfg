SPECIFICATION Spec
CONSTANTS
  Kinds <- MCKinds
INVARIANTS
  ExcludedIsImpossible
