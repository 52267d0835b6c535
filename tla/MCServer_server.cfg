SPECIFICATION Spec
CONSTANTS
  Requests = {r1, r2, r3}
  WorkerCount = 1
  QueueSize = 1
CHECK_DEADLOCK FALSE
INVARIANTS
  TypeOK
  SlotsBoundJobs
  AnswersAreTrue
  CleanExit
PROPERTIES
  RequestAnswered
  SignalEnds
