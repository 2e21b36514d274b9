SPECIFICATION Spec
CONSTANTS
    A = A
    B = B
    NoJob = NoJob
    Jobs = {A, B}
    Endings = {"success", "error", "interrupted", "odd"}
PROPERTIES
    FinishedWorkIsNotUnknown
