CONSTANTS
    Workers = {w1}
    BatchSize = 2
    MaxRows = 3
    MaxFaults = 2
    MaxDrops = 1
SPECIFICATION Spec
CHECK_DEADLOCK FALSE
INVARIANTS
    TypeOK
    FirstSendsInOrder
    RepeatsNeedFaults
