SPECIFICATION Spec
CONSTANTS
  Jobs = {j1, j2, j3}
  Workers = {w1, w2}
  Stoppers = {s1, s2}
  QueueSize = 1
  NoJob = NoJob
INVARIANTS
  TypeOK
  NoPanic
  JobConserved
  GracefulMeansDrained
  CountersExact
PROPERTIES
  SubmitReturns
  StopReturns
  ImplementsService
