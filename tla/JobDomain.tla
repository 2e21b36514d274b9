------------------------------- MODULE JobDomain -------------------------------
(***************************************************************************)
(* The public job state machine (domain/jobs.py) and the map from engine   *)
(* observations to it (services/generation_coordinator.py).  A job is a    *)
(* record of the fields that decide behaviour; tokens, times and messages  *)
(* are left out.  The same shape serves the row in SQLite and the object   *)
(* the service keeps in memory; "absent" is no row, or no object.          *)
(***************************************************************************)
EXTENDS Naturals

CONSTANT
    Jobs    \* job identifiers

NonTerminal == {"queued", "processing"}

Terminal == {"completed", "failed", "cancelled"}

JobState == NonTerminal \cup Terminal

AllowedTransitions ==
    [queued     |-> {"processing", "failed", "cancelled"},
     processing |-> {"completed", "failed", "cancelled"},
     completed  |-> {},
     failed     |-> {},
     cancelled  |-> {}]

\* attempts: attempt_count; engine: whether engine_job_id is recorded;
\* progress: progress_percent; seq: the number of the job's last event.
Job == [status   : JobState \cup {"absent"},
        attempts : Nat,
        engine   : BOOLEAN,
        progress : Nat,
        seq      : Nat]

Absent == [status |-> "absent", attempts |-> 0, engine |-> FALSE,
           progress |-> 0, seq |-> 0]

\* A new job; its "accepted" event has sequence number 1.
Accepted == [Absent EXCEPT !.status = "queued", !.seq = 1]

IsTerminal(job) == job.status \in Terminal

CanTransition(job, target) ==
    /\ job.status \in JobState
    /\ target \in AllowedTransitions[job.status]

\* GenerationJob.transition: the new status, numbered as the next event.
Transitioned(job, target) ==
    [job EXCEPT !.status = target, !.seq = @ + 1]

\* GenerationJob.record_progress: only a processing job has progress.
WithProgress(job, p) ==
    [job EXCEPT !.progress = p, !.seq = @ + 1]

\* GenerationCoordinator.decide, on the status of one engine observation.
Decide(observed) ==
    CASE observed = "queued"     -> "queued"
      [] observed = "processing" -> "processing"
      [] observed = "succeeded"  -> "completed"
      [] observed = "cancelled"  -> "cancelled"
      [] OTHER                   -> "failed"   \* "failed" and "unknown"

===============================================================================
