SPECIFICATION FairSpec
CONSTANTS
  Keys = {k1}
  Callers = {c1, c2}
  Results = {ok}
  Scopes = {read, write}
  SideEffects = {write}
  LowRisk = {}
INVARIANTS TypeOK RunsAreConsented EffectOnce
PROPERTIES ImplementsOnceOnly EveryCallEnds
