SPECIFICATION FairSpec
CONSTANTS
  MaxEvents = 3
  ReplayCapacity = 2
  MaxRequests = 2
  MaxMoves = 3
CHECK_DEADLOCK FALSE
INVARIANTS TypeOK
PROPERTIES FeedIsOrdered CatchesUp
