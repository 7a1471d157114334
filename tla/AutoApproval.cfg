CONSTANTS
    Rules = {r1}
    Reviews = {a1, a2}
    Edits = {e1, e2}
    Budget = 1
    Faults = TRUE
    MaxCrashes = 1
    NoState = NoState
SPECIFICATION FairSpec
INVARIANTS TypeOK AnswersAreCounted AnswersAreLogged OnlyOverwritingRestores
PROPERTIES EveryReviewIsAnswered
CHECK_DEADLOCK FALSE
