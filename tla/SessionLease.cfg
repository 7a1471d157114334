CONSTANT Processes = {p1, p2, p3}
SPECIFICATION LeaseSpec
INVARIANTS LeaseTypeOK LoneAcquireSucceeds
