SPECIFICATION FairSpec
CONSTANTS
  main = main
  a = a
  b = b
  c = c
  compiler = compiler
  worker = worker
  Mutator = {main, a, b, c}
  Thread <- MCThread
  Lock <- MCLock
  Main = main
  MaySpawn = {main, a}
  MayFail = {}
  Compiler = compiler
  IdleWorker = worker
  MaxActiveMutators = 2
  Calls <- MCCallsSpawn
  Starts <- MCStartsSpawn
CHECK_DEADLOCK FALSE
PROPERTIES
  SpawnsComplete
