CONSTANTS
  Links = {"root", "file", "page"}
  Root = "root"
  Files = {"file"}
  Changed <- MCChanged
  Outlinks <- MCOutlinks
  MaxVersion = 2
  MaxSessions = 4
  Faults = {"crash", "abort", "stop", "error", "full"}
CHECK_DEADLOCK FALSE
SPECIFICATION Spec
INVARIANTS TypeOK  UpToDate
PROPERTIES  PurgeKeepsFound
