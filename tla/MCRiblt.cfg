CONSTANTS
  Symbols = {s1, s2, s3, s4}
  MaxCells = 4
  Mappings <- MCMappings
SYMMETRY Symmetry
SPECIFICATION Spec
INVARIANTS
  PendingExact
  PeelsAll
PROPERTIES
  ImplementsReconcile
