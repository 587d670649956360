SPECIFICATION FairSpec
CONSTANTS
    Worker = {w1, w2, w3}
    NoWorker = NoWorker
    Task = {t1, t2, t3}
    MaxPoolSizes = {0, 1, 2}
INVARIANTS
  EachTaskRunsOnce
  NoLostWakeup
  JoinedByOne
PROPERTIES
  ShutdownReturns
  AcceptedTasksRun
