CONSTANTS
    Refs = {pay1}
    Procs = {p1, p2}
    MaxFaults = 1
    MaxRepeats = 1
    None = None
SPECIFICATION FairSpec
CHECK_DEADLOCK FALSE
INVARIANTS
    TypeOK
    StatusFollowsGateway
    LastEventIsStatus
PROPERTIES
    QrisOutcomeIsFinal
    PaymentsRecorded
