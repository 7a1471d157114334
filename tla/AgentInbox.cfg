CONSTANTS
  Messages = {m1, m2}
  MaxPending = 2
  MaxIterations = 2
  Faults = TRUE
SPECIFICATION FairSpec
INVARIANTS TypeOK StateTellsContext NeverTwice
PROPERTIES OutcomeIsFinal 
