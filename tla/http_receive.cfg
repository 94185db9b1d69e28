CONSTANTS
  Exchanges <- MCExchanges
  Faults <- MCFaults
SPECIFICATION Spec
INVARIANTS
  
  ParkedInSync
  Continuable
  GoodMeansStored
PROPERTIES
  EveryTransferEnds
CHECK_DEADLOCK FALSE
