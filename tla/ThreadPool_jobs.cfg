\* Two workers, two callers, jobs that may shut the pool down from inside.
SPECIFICATION FairSpec
CONSTANTS
  WorkerCount = 2
  Callers = {c1, c2}
  Owner = c1
  Jobs = {j1, j2, j3}
  None = None
INVARIANTS
  TypeOK
  StartedInOrder
  JoinedMeansFinished
PROPERTIES
  EveryAcceptedJobFinishes
  ImplementsJobService
CHECK_DEADLOCK FALSE
