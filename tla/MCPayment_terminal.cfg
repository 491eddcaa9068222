CONSTANTS
    Refs = {pay1}
    Procs = {p1, p2}
    MaxFaults = 0
    MaxRepeats = 1
    None = None
SPECIFICATION FairSpec
CHECK_DEADLOCK FALSE
PROPERTY SuccessIsTerminal
