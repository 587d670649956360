CONSTANTS
  NumTasks = 2
  BlockSize = 1
  PageSize = 1
  Young <- MCYoung
  Old <- MCOld
  Root <- MCRoot
  Starts <- WeakStarts
SPECIFICATION Spec
INVARIANT AbortsInScope
CHECK_DEADLOCK FALSE
