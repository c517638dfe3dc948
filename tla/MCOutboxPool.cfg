CONSTANTS
    e1 = e1
    e2 = e2
    w1 = w1
    w2 = w2
    Events = {e1, e2}
    Workers = {w1, w2}
    NoWorker = NoWorker
    Former = Former
    BatchSize = 2
    MaxAttempts = 2
    Connections = 2
    MaxFaults = 0
SPECIFICATION FairSpec
PROPERTY EventuallySettled
CHECK_DEADLOCK FALSE
