SPECIFICATION Spec
CONSTANTS
  Kinds <- MCKinds
INVARIANTS
  RolesSuffice
