SPECIFICATION FairSpec
CONSTANTS
    A = A
    B = B
    NoJob = NoJob
    Jobs = {A, B}
    Pollers = {}
    Cancellers = {}
    Unpublishable = {}
    MaxProgress = 0
    MaxClients = 1
    MaxFaults = 1
    MaxCrashes = 0
PROPERTIES
    EveryJobEnds
CHECK_DEADLOCK FALSE
