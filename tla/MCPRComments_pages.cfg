SPECIFICATION Spec
CONSTANTS
  p1 = p1
  p2 = p2
  p3 = p3
  A = A
  B = B
  Posters = {p1}
  Workflows = {A, B}
  Workflow <- MCWorkflow
  Parts <- MCParts
  PageSize = 2
  OldThread <- ThreePartReport
  UserMarks = {}
  User = User
  Earlier = Earlier
  NoWorkflow = NoWorkflow
  MaxUser = 0
CHECK_DEADLOCK FALSE
INVARIANTS
  OldReportsDeleted
