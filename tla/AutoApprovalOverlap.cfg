CONSTANTS
    Rules = {r1}
    Reviews = {a1, a2, a3}
    Edits = {e1}
    Budget = 1
    Faults = FALSE
    MaxCrashes = 0
    NoState = NoState
SPECIFICATION Spec
INVARIANTS WithdrawnStaysWithdrawn
CHECK_DEADLOCK FALSE
