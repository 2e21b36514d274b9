SPECIFICATION FairSpec
CONSTANTS
    A = A
    B = B
    NoJob = NoJob
    Jobs = {A, B}
    MaxReloads = 1
    MaxFaults = 1
ACTION_CONSTRAINT FirstIsA
INVARIANTS
    TypeOK
    StaleViewIsPolled
    LiveModelIsShown
PROPERTIES
    ViewMovesOn
    EndIsShown
CHECK_DEADLOCK FALSE
