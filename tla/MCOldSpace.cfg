SPECIFICATION FairSpec
CONSTANTS
  t1 = t1
  t2 = t2
  large = large
  regular = regular
  Thread <- MCThread
  NumMarkers = 2
  RootSlices = 2
  Large <- MCLarge
  Regular <- MCRegular
  Calls <- MCCalls
  MaxOps = 2
INVARIANTS
  PagesInPlace
  TasksAreExact
  PhasesAsAsserted
  MarkerOutlivesItsUsers
PROPERTIES
  OperationsEnd
CHECK_DEADLOCK FALSE
