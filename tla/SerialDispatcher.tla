--------------------------- MODULE SerialDispatcher ---------------------------
(***************************************************************************)
(* The in-process FIFO gate in front of the single GPU                     *)
(* (services/serial_dispatcher.py).  Its state is a queue of waiting jobs  *)
(* and at most one active job; it lives in the API process's memory only.  *)
(* Each method is synchronous, so each is one atomic action on             *)
(* <<queue, active>>; the module that composes them says when they run.    *)
(***************************************************************************)
EXTENDS JobDomain, SequencesExt

CONSTANT
    NoJob   \* stands for Python's None

ASSUME NoJobAssumption == NoJob \notin Jobs

VARIABLES
    queue,  \* jobs waiting for the GPU, oldest first
    active  \* the job that owns the GPU slot, or NoJob

dispatcherVars == <<queue, active>>

DispatcherTypeOK ==
    /\ queue \in Seq(Jobs)
    /\ active \in Jobs \cup {NoJob}

DispatcherInit ==
    /\ queue = <<>>
    /\ active = NoJob

\* Mutant: the newest job is served first.
EnqueueFirst(j) ==
    /\ queue' = IF j = active \/ j \in ToSet(queue) THEN queue ELSE <<j>> \o queue
    /\ UNCHANGED active

\* A second enqueue of a job that is waiting or active is refused.
Enqueue(j) ==
    /\ queue' = IF j = active \/ j \in ToSet(queue) THEN queue ELSE Append(queue, j)
    /\ UNCHANGED active

\* claim_next returns None in this case, and changes nothing.
NothingToClaim == active # NoJob \/ queue = <<>>

\* claim_next pops the head whichever job its caller came for.
ClaimNext ==
    /\ ~NothingToClaim
    /\ active' = Head(queue)
    /\ queue' = Tail(queue)

\* Raises ValueError (a caller's error) unless j is the active job.
Complete(j) ==
    /\ active = j
    /\ active' = NoJob
    /\ UNCHANGED queue

\* Mutant: nothing leaves the queue while a job is active.
CancelPendingWhenIdle(j) ==
    /\ queue' = IF active # NoJob THEN queue ELSE RemoveFirst(queue, j)
    /\ UNCHANGED active

CancelPending(j) ==
    /\ queue' = IF j = active THEN queue ELSE RemoveFirst(queue, j)
    /\ UNCHANGED active

===============================================================================
