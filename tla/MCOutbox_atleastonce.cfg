CONSTANTS
    Workers = {w1}
    BatchSize = 2
    MaxRows = 1
    MaxFaults = 0
    MaxDrops = 1
SPECIFICATION Spec
CHECK_DEADLOCK FALSE
INVARIANT AtLeastOnce
