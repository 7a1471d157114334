CONSTANT Processes = {p1, p2}
SPECIFICATION LeaseSpec
INVARIANTS MutualExclusion
