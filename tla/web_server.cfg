CONSTANTS
  MaxSessions = 2
  Pinger = TRUE
SPECIFICATION Spec
INVARIANTS
  OneMirror
  FinishedWhenOver
PROPERTIES
  RequestServed
  MirrorOver
CHECK_DEADLOCK FALSE
