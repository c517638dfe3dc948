CONSTANTS
    page = page
    g1 = g1
    g2 = g2
    Clients = {page}
    Sources = {g1, g2}
    ReplayLimit = 2
    QueueSize = 1
    MaxSequence = 3
SPECIFICATION FairSpec
INVARIANT TypeOK
INVARIANT ReplayHasNoHoles
INVARIANT ReplayIsComplete
PROPERTY EventuallyShown
CHECK_DEADLOCK FALSE
