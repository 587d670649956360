CONSTANTS
  NumTasks = 3
  BlockSize = 1
  Obj <- MCObj
  Heaps <- MCHeaps
  WeakSlots <- MCWeakSlots
  Builds = {TRUE, FALSE}
SPECIFICATION FairSpec
INVARIANTS
  NumBusyIsExact
  WeakObjectsCleared
  DelayedOnce
  WorkersStopTogether
PROPERTIES
  Implements
CHECK_DEADLOCK FALSE
