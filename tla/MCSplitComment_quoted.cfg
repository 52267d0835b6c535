SPECIFICATION Spec
CONSTANTS
  MaxManifest = 4
  Bodies <- QuotingBodies
  Limit = 8
  Reserve = 3
CHECK_DEADLOCK FALSE
INVARIANTS
  PartsWellFormed
