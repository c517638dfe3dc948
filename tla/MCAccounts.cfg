CONSTANTS
    u1 = u1
    u2 = u2
    l1 = l1
    l2 = l2
    f1 = f1
    f2 = f2
    f3 = f3
    w1 = w1
    w2 = w2
    NoUser = NoUser
    Nobody = Nobody
    Users = {u1}
    Logins = {l1}
    Refreshes = {f1, f2, f3}
    Workers = {w1, w2}
    MaxFaults = 1
SPECIFICATION FairSpec
INVARIANT TypeOK
INVARIANT OneLiveToken
INVARIANT NoFalseReuse
INVARIANT ClosedAccountHasNoSession
PROPERTY RevocationIsFinal
PROPERTY EventuallyPurged
CHECK_DEADLOCK FALSE
