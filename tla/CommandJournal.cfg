CONSTANTS
  Keys = {k1, k2}
  Callers = {c1, c2, c3}
  Results = {r1, r2}
SPECIFICATION FairSpec
INVARIANTS TypeOK AtMostOnce ToldResultIsDurable
PROPERTIES UncertainIsNotReplayed ImplementsOnceOnly EveryCallEnds
