SPECIFICATION FairSpec
CONSTANTS
    A = A
    B = B
    NoJob = NoJob
    Jobs = {A, B}
    Endings = {"success", "error", "interrupted", "odd"}
INVARIANTS
    TypeOK
    EndIsEngineTruth
    StrayWorkIsUnsure
PROPERTIES
    LedgerKept
    EveryJobEnds
