CONSTANTS
  NumTasks = 3
  BlockSize = 1
  PageSize = 2
  Young <- MCYoung
  Old <- MCOld
  Root <- MCRoot
  Starts <- MCStarts
SPECIFICATION FairSpec
INVARIANTS
  ReachableSurvive
  NoPointerToFromSpace
  RememberedExactly
  PromiseKept
PROPERTIES
  EndsOrAborts
CHECK_DEADLOCK FALSE
