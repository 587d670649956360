SPECIFICATION FairSpec
CONSTANTS
    t1 = t1
    t2 = t2
    Thread = {t1, t2}
    NoThread = NoThread
    MaxOps = 3
INVARIANTS
  CheckInsAreExact
  OperationsAreExclusive
PROPERTIES
  OperationsRun
  ParkedThreadsResume
