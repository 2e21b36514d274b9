-------------------------------- MODULE Admission --------------------------------
(***************************************************************************)
(* The durable side of an upload: accept_job counts and inserts in one     *)
(* BEGIN IMMEDIATE transaction (persistence/jobs.py), under the limits of  *)
(* the settings (config.py).  A row is the status of the job, and the      *)
(* time since created_at, which create_job took before it wrote the       *)
(* files and waited for the database.                                      *)
(***************************************************************************)
EXTENDS JobDomain, FiniteSets

CONSTANTS
    SameInput,   \* the jobs whose uploads have the same sha256
    Retention,   \* retention_hours
    Window,      \* the rolling minute of the two rate limits
    MaxDelay,    \* bound: how long an upload waits between its time and its commit
    Settings     \* the limits a deployment may run with

ASSUME AdmissionAssumption ==
    /\ SameInput \subseteq Jobs
    /\ Retention \in Nat /\ Window \in Nat /\ MaxDelay \in Nat
    /\ MaxDelay <= Window /\ Window < Retention
    /\ Settings \subseteq
           [pending : Nat \ {0}, recent : Nat \ {0}, identical : Nat \ {0}]

VARIABLES
    limits,     \* max_pending_jobs, max_submissions_per_minute, max_identical_per_minute
    rows,       \* generation_jobs: the status of each job
    age,        \* time since the job's created_at, up to Retention
    accepted    \* time since the row was committed, up to Window + 1

Rows == {j \in Jobs : rows[j] # "absent"}

Expired(j) == age[j] = Retention

Pending == {j \in Jobs : rows[j] \in NonTerminal}

\* created_at >= cutoff
Recent == {j \in Rows : age[j] <= Window}

Identical(j) == IF j \in SameInput THEN Recent \cap SameInput ELSE {}

\* Mutants: the limits are compared one too high; only waiting jobs are counted.
WithinOneMore(j) ==
    /\ Cardinality(Pending) <= limits.pending
    /\ Cardinality(Recent) <= limits.recent
    /\ Cardinality(Identical(j)) <= limits.identical

QueuedWithinLimits(j) ==
    /\ Cardinality({k \in Jobs : rows[k] = "queued"}) < limits.pending
    /\ Cardinality(Recent) < limits.recent
    /\ Cardinality(Identical(j)) < limits.identical

WithinLimits(j) ==
    /\ Cardinality(Pending) < limits.pending
    /\ Cardinality(Recent) < limits.recent
    /\ Cardinality(Identical(j)) < limits.identical

\* accept_job commits.
AcceptJob(j) ==
    /\ rows[j] = "absent"
    /\ WithinLimits(j)
    /\ rows' = [rows EXCEPT ![j] = "queued"]
    /\ accepted' = [accepted EXCEPT ![j] = 0]

SetStatus(j, status) == rows' = [rows EXCEPT ![j] = status]

\* delete_job; assets and events go with the row (ON DELETE CASCADE).
DeleteJob(j) == rows' = [rows EXCEPT ![j] = "absent"]

\* list_expired_terminal
ExpiredTerminal == {j \in Jobs : rows[j] \in Terminal /\ Expired(j)}

\* The queue is bounded, whoever uploads at the same time and whatever recovery
\* put back into it.
PendingBounded == Cardinality(Pending) <= limits.pending

\* What was committed within one minute, less the time an upload may wait between
\* its created_at and its commit, never exceeds the submission limits, although the
\* counts go by created_at, rows are deleted, and jobs end in between.
RateBounded ==
    LET committed == {j \in Jobs : accepted[j] <= Window - MaxDelay} IN
    /\ Cardinality(committed) <= limits.recent
    /\ Cardinality(committed \cap SameInput) <= limits.identical

===============================================================================
