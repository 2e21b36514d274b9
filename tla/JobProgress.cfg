SPECIFICATION FairSpec
CONSTANTS
    A = A
    B = B
    NoJob = NoJob
    Jobs = {A, B}
    Pollers = {B}
    Cancellers = {A}
    Unpublishable = {A}
    MaxProgress = 0
    MaxClients = 1
    MaxFaults = 1
    MaxCrashes = 1
PROPERTIES
    EveryJobEndsOrStuck
CHECK_DEADLOCK FALSE
