SPECIFICATION Spec
CONSTANTS
  Kinds <- MCKinds
INVARIANTS
  TypeOK
  SchemaIsVersioned
  ConstraintsComplete
  OthersAreExcluded
PROPERTIES
  AdmittedFindsSchema
