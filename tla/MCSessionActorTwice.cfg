CONSTANTS
  Requests = {r1, r2, r3}
  Kinds = {"prompt"}
  MaxActors = 4
  MaxFaults = 0
  MaxCrashes = 1
SPECIFICATION RacingSpec
INVARIANTS OneActor
