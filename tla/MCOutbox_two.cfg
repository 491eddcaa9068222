CONSTANTS
    Workers = {w1, w2}
    BatchSize = 2
    MaxRows = 2
    MaxFaults = 1
    MaxDrops = 1
SPECIFICATION FairSpec
CHECK_DEADLOCK FALSE
INVARIANT MarkedWasSent
PROPERTY EventsArrive
