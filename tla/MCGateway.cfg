CONSTANTS
    c1 = c1
    c2 = c2
    c3 = c3
    p1 = p1
    Callers = {c1, c2, c3}
    Probes = {p1}
    MaxConcurrent = 2
    FailureLimit = 2
    PreStreamRetry = 1
SPECIFICATION Spec
INVARIANT TypeOK
INVARIANT SlotsAreHeld
INVARIANT CircuitMatchesCount
PROPERTY EventuallyServed
