SPECIFICATION FairSpec
CONSTANTS
  Calls = {c1, c2}
  MaxRequests = 1
  MaxWritten = 2
CHECK_DEADLOCK FALSE
INVARIANTS TypeOK WorkIsAborted
PROPERTIES RequestsAreCurrent EveryCallEnds
