CONSTANTS
    r1 = r1
    r2 = r2
    r3 = r3
    r4 = r4
    Requests = {r1, r2, r3, r4}
    NoRequest = NoRequest
    MaxFaults = 2
SPECIFICATION Spec
SYMMETRY Symmetric
INVARIANT TypeOK
INVARIANT SummariesFaithful
CHECK_DEADLOCK FALSE
