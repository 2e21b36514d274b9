SPECIFICATION FairSpec
CONSTANTS
    A = A
    B = B
    NoJob = NoJob
    Jobs = {A, B}
    Readable = {A}
    SameInput = {A, B}
    Grace = 1
    Retention = 3
    Window = 2
    MaxDelay = 1
    Settings <- TightSettings
    MaxCrashes = 1
    MaxFaults = 1
    MaxLosses = 1
CONSTRAINT OneTrouble
INVARIANTS
    TypeOK
    PendingBounded
    RateBounded
    LiveFilesKept
    FilesHaveRows
    MissingIsReal
PROPERTIES
    NothingStays
