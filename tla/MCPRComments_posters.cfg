SPECIFICATION Spec
CONSTANTS
  p1 = p1
  p2 = p2
  p3 = p3
  A = A
  B = B
  Posters = {p1, p2, p3}
  Workflows = {A, B}
  Workflow <- MCWorkflow
  Parts <- MCParts
  PageSize = 3
  OldThread <- OneOldReport
  UserMarks = {B}
  User = User
  Earlier = Earlier
  NoWorkflow = NoWorkflow
  MaxUser = 1
CHECK_DEADLOCK FALSE
INVARIANTS
  SoleReport
  SurvivingReport
  ReportsNotMixed
PROPERTIES
  OnlyOwnRemoved
  PostReturns
