SPECIFICATION Spec
CONSTANTS
  Apps = {a1, a2}
  Texts = {t1, t2}
  NoApp = NoApp
  Reports <- MCReports
CHECK_DEADLOCK FALSE
INVARIANTS
  DuplicatesAreShown
  EqualDiffsShownOnce
