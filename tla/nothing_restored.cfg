CONSTANTS
  Links = {"root", "file", "page"}
  Root = "root"
  Files = {"file"}
  Changed <- MCChanged
  Outlinks <- MCOutlinks
  MaxVersion = 2
  MaxSessions = 2
  Faults = {"error"}
CHECK_DEADLOCK FALSE
SPECIFICATION Spec
INVARIANT PreviousRestored
