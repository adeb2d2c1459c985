CONSTANTS
  ServiceThreads = {s1, s2}
  Delta = 2
  MaxTime = 2
  MaxTasks = 2
  None = None
SPECIFICATION FairSchedulerSpec
INVARIANTS
    NotEarly
PROPERTIES
    TasksRun
    StopReturns
