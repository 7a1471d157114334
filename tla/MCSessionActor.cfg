CONSTANTS
  Requests = {r1, r2, r3}
  Kinds = {"prompt", "update", "pause", "resume", "close"}
  MaxActors = 4
  MaxFaults = 1
  MaxCrashes = 1
SPECIFICATION MCSpec
INVARIANTS TypeOK CompletedIsDurable SequencesIncrease RefusedAfterFault
PROPERTIES SnapshotNeverRegresses EveryRequestEnds
