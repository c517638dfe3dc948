CONSTANTS
    u1 = u1
    g1 = g1
    q1 = q1
    q2 = q2
    q3 = q3
    Users = {u1}
    Guests = {g1}
    Global = Global
    Requests = {q1, q2, q3}
    ActorOf <- MCActorOf
    NoRequest = NoRequest
    MaxDay = 2
    ModelMaxOutput = 2
    UserMessageLimit = 2
    UserOutputLimit = 3
    GuestMessageLimit = 1
    GuestOutputLimit = 1
    GlobalMessageCap = 2
    GlobalOutputCap = 3
    GlobalConcurrentLimit = 2
SPECIFICATION Spec
INVARIANT TypeOK
INVARIANT BudgetsRespected
INVARIANT GlobalConcurrency
INVARIANT LeaseExcludes
INVARIANT LedgerBalanced
SYMMETRY Symmetry
CHECK_DEADLOCK FALSE
