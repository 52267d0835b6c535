SPECIFICATION Spec
CONSTANTS
  MaxManifest = 4
  Bodies <- MCBodies
  Limit = 8
  Reserve = 3
CHECK_DEADLOCK FALSE
INVARIANTS
  PartsFit
  NothingLost
  PartsWellFormed
