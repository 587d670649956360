SPECIFICATION FairSpec
CONSTANTS
  Posted = {"pause", "resume", "kill", "vm_kill", "service_resume", "pause_on_exit", "before", "late", "event"}
  MaxMessages = 3
  MaxDepth = 3
INVARIANTS
  MessagesInOrder
  NoMissedMessage
PROPERTIES
  ShutdownIsFinal
  VmKillEnds
  EventsHandled
CHECK_DEADLOCK FALSE
