SPECIFICATION FairSpec
CONSTANTS
  main = main
  a = a
  b = b
  c = c
  compiler = compiler
  worker = worker
  Mutator = {main, a, b, c}
  Thread <- MCThread
  Lock <- MCLock
  Main = main
  MaySpawn = {main}
  MayFail = {a}
  Compiler = compiler
  IdleWorker = worker
  MaxActiveMutators = 2
  Calls <- MCCalls
  Starts <- MCStarts
INVARIANTS
  WaitersAreServed
  StoppedMutators
  FieldTablesAgree
  QueueIsServed
  GroupOutlivesItsIsolates
PROPERTIES
  OperationsComplete
CHECK_DEADLOCK FALSE
