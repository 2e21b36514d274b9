SPECIFICATION Spec
CONSTANTS
    A = A
    B = B
    NoJob = NoJob
    Jobs = {A, B}
    Pollers = {B}
    Cancellers = {A, B}
    Unpublishable = {A}
    MaxProgress = 0
    MaxClients = 1
    MaxFaults = 1
    MaxCrashes = 2
INVARIANTS
    TypeOK
    AtMostOneSubmission
    SerialExecution
    NoJobForgotten
    QueueIsClaimable
    EventsNeverCollide
    HandleOwnsSlot
PROPERTIES
    NoOvertaking
    ToldEndHolds
    LedgerKept
    LifecycleFollowed
    CancelledIsNeverSent
CHECK_DEADLOCK FALSE
