CONSTANTS
  p1 = p1  p2 = p2  c1 = c1  c2 = c2  c3 = c3
  Keys = {k1, k2}
  Results = {r1, r2}
  Runtimes = {p1, p2}
  Callers = {c1, c2, c3}
  Home <- MCHome
SPECIFICATION Spec
INVARIANTS TypeOK AtMostOnce CacheIsDurable
PROPERTIES ImplementsOnceOnly
