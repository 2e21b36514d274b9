-------------------------------- MODULE JobStore --------------------------------
(***************************************************************************)
(* The durable state of a job: its row and its event log in SQLite         *)
(* (persistence/jobs.py, persistence/database.py, persistence/schema.sql). *)
(* Every method opens a connection, runs one transaction and commits it,   *)
(* or rolls everything back and raises; so a method is one atomic action   *)
(* that either takes effect or leaves the store alone.  The log is         *)
(* abstracted to the number of its last event, row[j].seq, and to the set  *)
(* of jobs that have an "orphan_engine_work" event.                        *)
(***************************************************************************)
EXTENDS JobDomain

VARIABLES
    row,     \* row[j]: the durable job, Absent when there is no row
    orphans  \* jobs whose log holds an orphan_engine_work event

storeVars == <<row, orphans>>

StoreTypeOK ==
    /\ row \in [Jobs -> Job]
    /\ orphans \subseteq Jobs

StoreInit ==
    /\ row = [j \in Jobs |-> Absent]
    /\ orphans = {}

\* accept_job: the row, its input asset and event 1, in one transaction.
AcceptJob(j) ==
    /\ row[j].status = "absent"
    /\ row' = [row EXCEPT ![j] = Accepted]
    /\ UNCHANGED orphans

\* reserve_submission matches no row, and returns False, outside this guard.
Reservable(j) == row[j].status = "queued" /\ row[j].attempts = 0

\* Mutant: the attempt is not counted.
ReserveUncounted(j) ==
    /\ Reservable(j)
    /\ UNCHANGED storeVars

ReserveSubmission(j) ==
    /\ Reservable(j)
    /\ row' = [row EXCEPT ![j].attempts = @ + 1]
    /\ UNCHANGED orphans

\* update_job writes every column of the job and no event.
UpdateJob(j, job) ==
    /\ row' = [row EXCEPT ![j] = [job EXCEPT !.seq = row[j].seq]]
    /\ UNCHANGED orphans

\* UNIQUE(job_id, sequence): an event number is used once.
FreshEvent(j, job) == job.seq > row[j].seq

\* persist_transition: the job and its event (and its output asset) together.
PersistTransition(j, job) ==
    /\ FreshEvent(j, job)
    /\ row' = [row EXCEPT ![j] = job]
    /\ UNCHANGED orphans

\* append_event, as recovery calls it for engine work it cannot follow.
AppendOrphanEvent(j) ==
    /\ row' = [row EXCEPT ![j].seq = @ + 1]
    /\ orphans' = orphans \cup {j}

\* What get_job and list_nonterminal build: the event counter starts at 0.
Loaded(j) == [row[j] EXCEPT !.seq = 0]

\* list_events(j)[-1].sequence
LastSequence(j) == row[j].seq

===============================================================================
