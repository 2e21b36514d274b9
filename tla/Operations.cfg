SPECIFICATION Spec
CONSTANTS
    S1 = S1
    S2 = S2
    NoSession = NoSession
    Sessions = {S1, S2}
    Services <- ServiceChain
    MaxStarts = 2
    MaxCrashes = 1
    MaxStops = 1
SYMMETRY SessionSymmetry
INVARIANTS
    TypeOK
    OneTunnel
    TunnelIsRecorded
    PassedMeansRunning
PROPERTIES
    RollbackIsComplete
CHECK_DEADLOCK FALSE
