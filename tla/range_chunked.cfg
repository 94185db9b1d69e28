CONSTANTS
  Exchanges <- ChunkedRanges
  Faults <- NoFaults
SPECIFICATION Spec
INVARIANTS
  ChunkedRestCompletes
CHECK_DEADLOCK FALSE
