SPECIFICATION FairSpec
CONSTANTS
    A = A
    B = B
    NoJob = NoJob
    Jobs = {A, B}
    Readable = {A}
    SameInput = {A, B}
    Grace = 1
    Retention = 3
    Window = 2
    MaxDelay = 1
    Settings <- RoomySettings
    MaxCrashes = 0
    MaxFaults = 0
    MaxLosses = 0
PROPERTIES
    ExpiredGoes
