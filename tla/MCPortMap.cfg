SPECIFICATION FairSpec
CONSTANTS
  Isolate = {i1}
  Native = {n1, n2}
  IsolatePort = {p1, p2}
  MaxQueue = 2
  None = None
INVARIANTS
  HandlersAgree
  NoUseAfterDelete
PROPERTIES
  ClosedIsDeleted
CHECK_DEADLOCK FALSE
