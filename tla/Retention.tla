-------------------------------- MODULE Retention --------------------------------
(***************************************************************************)
(* What the service keeps of a job, and for how long: the files of an      *)
(* upload are written before its row is accepted, a model is published     *)
(* before its job is committed as completed, downloads read the model, and *)
(* a cleanup pass removes the files of an expired job, then its row, then  *)
(* the directories no row accounts for (services/job_service.py).  The     *)
(* pass runs at startup, before recovery, and then from a maintenance task *)
(* that ends with the first exception.  The process may crash anywhere.    *)
(*                                                                         *)
(* The queue and the engine are JobSystem's: here a job starts, ends, and  *)
(* is published when JobService would do it.                               *)
(***************************************************************************)
EXTENDS JobFiles, Admission

CONSTANTS
    NoJob,       \* no job is being published
    Readable,    \* jobs whose client reads the result
    MaxCrashes,  \* bound: crashes of the process
    MaxFaults,   \* bound: exceptions of the database during a pass
    MaxLosses    \* bound: trees that are lost behind the service's back

ASSUME RetentionAssumption ==
    /\ NoJob \notin Jobs
    /\ Readable \subseteq Jobs
    /\ MaxCrashes \in Nat /\ MaxFaults \in Nat /\ MaxLosses \in Nat
    /\ MaxDelay <= Grace

VARIABLES
    phase,      \* down, cleaning and recovering (lifespan startup), or up
    upload,     \* create_job: new, stored (not yet accepted), or done
    publishing, \* the job whose model is published and not yet committed
    reader,     \* read_result and the download of each job's model
    pass,       \* the cleanup pass: where it is and what it read
    todo,       \* jobs recovery has still to look at
    reports,    \* output_missing events of each job
    crashes, faults, lost

passVars == <<pass, faults>>
processVars == <<upload, publishing, reader>>
recoveryVars == <<phase, todo, reports, crashes, lost>>
rowVars == <<limits, rows, age, accepted>>
vars == <<trees, rowVars, processVars, passVars, recoveryVars>>

Readers == {"none", "wants", "granted", "open"}

\* elapsed: time since the pass began (it ends before the second tick); jobs: the
\* expired jobs it has still to remove; known: the rows it listed for the scan.
Pass == [at : {"asleep", "files", "row", "scan", "dead"}, elapsed : 0..1,
         jobs : SUBSET Jobs, job : Jobs \cup {NoJob}, known : SUBSET Jobs]

Asleep == [at |-> "asleep", elapsed |-> 0, jobs |-> {}, job |-> NoJob, known |-> {}]

\* The task has ended with an exception nobody looks at.
Dead == [Asleep EXCEPT !.at = "dead"]

\* _cleanup_lock is held from the pass's first query to its end.
Cleaning == pass.at \in {"files", "row", "scan"}

TypeOK ==
    /\ trees \in [Jobs -> Tree]
    /\ limits \in Settings
    /\ rows \in [Jobs -> JobState \cup {"absent"}]
    /\ age \in [Jobs -> 0..Retention]
    /\ accepted \in [Jobs -> 0..Window + 1]
    /\ phase \in {"down", "cleaning", "recovering", "up"}
    /\ upload \in [Jobs -> {"new", "stored", "done"}]
    /\ publishing \in Jobs \cup {NoJob}
    /\ reader \in [Jobs -> Readers]
    /\ pass \in Pass
    /\ todo \subseteq Jobs
    /\ reports \in [Jobs -> Nat]
    /\ crashes \in Nat /\ faults \in Nat
    /\ lost \subseteq Jobs

Init ==
    /\ trees = [j \in Jobs |-> NoTree]
    /\ limits \in Settings
    /\ rows = [j \in Jobs |-> "absent"]
    /\ age = [j \in Jobs |-> 0]
    /\ accepted = [j \in Jobs |-> Window + 1]
    /\ phase = "down"
    /\ upload = [j \in Jobs |-> "new"]
    /\ publishing = NoJob
    /\ reader = [j \in Jobs |-> "none"]
    /\ pass = Asleep
    /\ todo = {}
    /\ reports = [j \in Jobs |-> 0]
    /\ crashes = 0 /\ faults = 0
    /\ lost = {}

-------------------------------------------------------------------------------
(* Uploads: create_job *)

\* created_at is taken, the directory made and the image written, before any await.
StoreUpload(j) ==
    /\ phase = "up"
    /\ upload[j] = "new"
    /\ upload' = [upload EXCEPT ![j] = "stored"]
    /\ WriteUpload(j)
    /\ UNCHANGED <<rowVars, publishing, reader, passVars, recoveryVars>>

Answered(j) == upload' = [upload EXCEPT ![j] = "done"]

AcceptUpload(j) ==
    /\ phase = "up"
    /\ upload[j] = "stored"
    /\ AcceptJob(j)
    /\ Answered(j)
    /\ UNCHANGED <<trees, limits, age, publishing, reader, passVars, recoveryVars>>

\* Mutant: a refused upload leaves its files behind.
RefuseKeepingFiles(j) ==
    /\ phase = "up"
    /\ upload[j] = "stored"
    /\ Answered(j)
    /\ UNCHANGED <<trees, rowVars, publishing, reader, passVars, recoveryVars>>

\* accept_job raises, over a limit or because the database does: only this job's
\* files are removed.
RefuseUpload(j) ==
    /\ phase = "up"
    /\ upload[j] = "stored"
    /\ RemoveJob(j)
    /\ Answered(j)
    /\ UNCHANGED <<rowVars, publishing, reader, passVars, recoveryVars>>

-------------------------------------------------------------------------------
(* Jobs *)

StartJob(j) ==
    /\ phase = "up"
    /\ rows[j] = "queued"
    /\ \A k \in Jobs : rows[k] # "processing"
    /\ SetStatus(j, "processing")
    /\ UNCHANGED <<trees, limits, age, accepted, processVars, passVars, recoveryVars>>

\* Failed, or cancelled, which is kept and removed in the same way.
EndJob(j) ==
    /\ phase = "up"
    /\ rows[j] \in NonTerminal
    /\ publishing # j
    /\ SetStatus(j, "failed")
    /\ UNCHANGED <<trees, limits, age, accepted, processVars, passVars, recoveryVars>>

\* publish_glb into ensure_job's output directory, before the rows are touched.
PublishModel(j) ==
    /\ phase = "up"
    /\ rows[j] = "processing"
    /\ publishing = NoJob
    /\ publishing' = j
    /\ WriteModel(j)
    /\ UNCHANGED <<rowVars, upload, reader, passVars, recoveryVars>>

CompleteJob(j) ==
    /\ phase = "up"
    /\ publishing = j
    /\ publishing' = NoJob
    /\ SetStatus(j, "completed")
    /\ UNCHANGED <<trees, limits, age, accepted, upload, reader, passVars, recoveryVars>>

-------------------------------------------------------------------------------
(* Reads *)

\* get_job of a completed job: result_available resolves the path of the model,
\* which makes the job's directories.
ReadStatus(j) ==
    /\ phase = "up"
    /\ rows[j] = "completed"
    /\ ~Expired(j)
    /\ EnsureJob(j)
    /\ UNCHANGED <<rowVars, processVars, passVars, recoveryVars>>

\* read_result, up to the cleanup lock: read_job found the job, not expired.
AskResult(j) ==
    /\ phase = "up"
    /\ reader[j] = "none"
    /\ rows[j] = "completed"
    /\ ~Expired(j)
    /\ reader' = [reader EXCEPT ![j] = "wants"]
    /\ UNCHANGED <<trees, rowVars, upload, publishing, passVars, recoveryVars>>

\* Under the lock: resolve_path makes the directories again, whatever a pass that
\* ran in between removed; without the file the answer is 409.
GetResult(j) ==
    /\ reader[j] = "wants"
    /\ ~Cleaning
    /\ EnsureJob(j)
    /\ reader' = [reader EXCEPT ![j] = IF trees[j].model THEN "granted" ELSE "none"]
    /\ UNCHANGED <<rowVars, upload, publishing, passVars, recoveryVars>>

\* The response opens the path after the handler has returned it.
OpenResult(j) ==
    /\ reader[j] = "granted"
    /\ reader' = [reader EXCEPT ![j] = IF trees[j].model THEN "open" ELSE "none"]
    /\ UNCHANGED <<trees, rowVars, upload, publishing, passVars, recoveryVars>>

CloseResult(j) ==
    /\ reader[j] = "open"
    /\ reader' = [reader EXCEPT ![j] = "none"]
    /\ UNCHANGED <<trees, rowVars, upload, publishing, passVars, recoveryVars>>

-------------------------------------------------------------------------------
(* The cleanup pass: cleanup_expired *)

Step(next) == pass' = next

\* Mutant: the maintenance task is not started.
StartPassAtStartup ==
    /\ phase = "cleaning"
    /\ pass.at = "asleep"
    /\ Step([Asleep EXCEPT !.at = "files", !.jobs = ExpiredTerminal])
    /\ UNCHANGED <<trees, rowVars, processVars, faults, recoveryVars>>

\* The maintenance interval, or the startup; list_expired_terminal.
StartPass ==
    /\ phase \in {"cleaning", "up"}
    /\ pass.at = "asleep"
    /\ Step([Asleep EXCEPT !.at = "files", !.jobs = ExpiredTerminal])
    /\ UNCHANGED <<trees, rowVars, processVars, faults, recoveryVars>>

\* remove_job: on Windows a file that a download has open cannot be removed.
CleanFiles(j) ==
    /\ pass.at = "files"
    /\ j \in pass.jobs
    /\ ~(reader[j] = "open" /\ trees[j].model)
    /\ RemoveJob(j)
    /\ Step([pass EXCEPT !.at = "row", !.job = j])
    /\ UNCHANGED <<rowVars, processVars, faults, recoveryVars>>

CleanRow ==
    /\ pass.at = "row"
    /\ DeleteJob(pass.job)
    /\ Step([pass EXCEPT !.at = "files", !.job = NoJob, !.jobs = @ \ {pass.job}])
    /\ UNCHANGED <<trees, limits, age, accepted, processVars, faults, recoveryVars>>

\* list_job_ids
ListRows ==
    /\ pass.at = "files"
    /\ pass.jobs = {}
    /\ Step([pass EXCEPT !.at = "scan", !.known = Rows])
    /\ UNCHANGED <<trees, rowVars, processVars, faults, recoveryVars>>

\* The scan ends the pass; at startup recovery follows.
ScanOrphans ==
    /\ pass.at = "scan"
    /\ RemoveOrphanedJobs(pass.known, pass.elapsed)
    /\ Step(Asleep)
    /\ phase' = IF phase = "cleaning" THEN "recovering" ELSE phase
    /\ todo' = IF phase = "cleaning"
               THEN {j \in Jobs : rows[j] \in NonTerminal \cup {"completed"}} ELSE todo
    /\ UNCHANGED <<rowVars, processVars, faults, reports, crashes, lost>>

\* An exception ends the pass: during startup it ends the process, afterwards the
\* maintenance task, and nothing starts it again.
Abandon ==
    /\ IF phase = "cleaning" THEN phase' = "down" /\ Step(Asleep)
                             ELSE phase' = phase /\ Step(Dead)
    /\ UNCHANGED <<rowVars, processVars, todo, reports, crashes, lost>>

\* remove_job meets the open file; what rmtree came to before it is gone.
FailFiles(j) ==
    /\ pass.at = "files"
    /\ j \in pass.jobs
    /\ reader[j] = "open"
    /\ trees[j].model
    /\ \E tree \in {trees[j], [trees[j] EXCEPT !.upload = FALSE]} :
           trees' = [trees EXCEPT ![j] = tree]
    /\ UNCHANGED faults
    /\ Abandon

\* A query or the deletion of a row raises (a locked or full database).
FailPass ==
    /\ Cleaning
    /\ faults < MaxFaults
    /\ faults' = faults + 1
    /\ UNCHANGED trees
    /\ Abandon

-------------------------------------------------------------------------------
(* Crash, restart and recovery *)

Crash ==
    /\ phase # "down"
    /\ crashes < MaxCrashes
    /\ crashes' = crashes + 1
    /\ phase' = "down"
    /\ upload' = [j \in Jobs |-> IF upload[j] = "stored" THEN "done" ELSE upload[j]]
    /\ publishing' = NoJob
    /\ reader' = [j \in Jobs |-> "none"]
    /\ Step(Asleep)
    /\ todo' = {}
    /\ UNCHANGED <<trees, rowVars, faults, reports, lost>>

\* Mutant: recovery looks at the rows before the startup pass has run.
RestartUncleaned ==
    /\ phase = "down"
    /\ phase' = "recovering"
    /\ todo' = {j \in Jobs : rows[j] \in NonTerminal \cup {"completed"}}
    /\ UNCHANGED <<trees, rowVars, processVars, passVars, reports, crashes, lost>>

\* The lifespan runs startup, which cleans, before reconcile.
Restart ==
    /\ phase = "down"
    /\ phase' = "cleaning"
    /\ UNCHANGED <<trees, rowVars, processVars, passVars, todo, reports, crashes, lost>>

Recovered(j) ==
    /\ phase = "recovering"
    /\ j \in todo
    /\ todo' = todo \ {j}
    /\ UNCHANGED <<limits, age, accepted, processVars, passVars, phase, crashes, lost>>

\* rehydrate_queued, which needs the input file.
RecoverQueued(j) ==
    /\ Recovered(j)
    /\ rows[j] = "queued"
    /\ trees[j].upload
    /\ EnsureJob(j)
    /\ UNCHANGED <<rows, reports>>

\* Mutant: the failure code is written as the status.
RecoverCode(j) ==
    /\ Recovered(j)
    /\ rows[j] \in NonTerminal
    /\ SetStatus(j, "restart_recovery")
    /\ UNCHANGED <<trees, reports>>

\* _mark_restart_failure: the input is gone, the job was sent to the engine, or,
\* with its row still queued, had been reserved.
RecoverFailed(j) ==
    /\ Recovered(j)
    /\ rows[j] \in NonTerminal
    /\ SetStatus(j, "failed")
    /\ UNCHANGED <<trees, reports>>

\* _record_missing_output: once per job.
RecordMissingOutput(j) ==
    /\ Recovered(j)
    /\ rows[j] = "completed"
    /\ reports' = [reports EXCEPT ![j] = IF trees[j].model \/ @ > 0 THEN @ ELSE @ + 1]
    /\ UNCHANGED <<trees, rows>>

Recover(j) == RecoverQueued(j) \/ RecoverFailed(j) \/ RecordMissingOutput(j)

Serve ==
    /\ phase = "recovering"
    /\ todo = {}
    /\ phase' = "up"
    /\ UNCHANGED <<trees, rowVars, processVars, passVars, todo, reports, crashes, lost>>

-------------------------------------------------------------------------------
(* The outside *)

\* An operator, or the disk, loses a job's directory.
LoseTree(j) ==
    /\ trees[j].exists
    /\ reader[j] # "open"
    /\ j \notin lost
    /\ Cardinality(lost) < MaxLosses
    /\ lost' = lost \cup {j}
    /\ RemoveJob(j)
    /\ UNCHANGED <<rowVars, processVars, passVars, phase, todo, reports, crashes>>

Aged(n, limit) == IF n < limit THEN n + 1 ELSE n

\* Time passes.  No upload waits longer than MaxDelay for its commit, and a pass
\* ends before the second tick after its start.
Tick ==
    /\ \A j \in Jobs : upload[j] = "stored" => age[j] < MaxDelay
    /\ Cleaning => pass.elapsed = 0
    /\ trees' = [j \in Jobs |-> Older(trees[j])]
    /\ age' = [j \in Jobs |-> IF upload[j] = "new" THEN 0 ELSE Aged(age[j], Retention)]
    /\ accepted' = [j \in Jobs |-> Aged(accepted[j], Window + 1)]
    /\ pass' = IF Cleaning THEN [pass EXCEPT !.elapsed = 1] ELSE pass
    /\ UNCHANGED <<limits, rows, processVars, faults, recoveryVars>>

-------------------------------------------------------------------------------

Uploads(j) == StoreUpload(j) \/ AcceptUpload(j) \/ RefuseUpload(j)

Progress(j) == StartJob(j) \/ EndJob(j) \/ PublishModel(j) \/ CompleteJob(j)

Reading(j) == ReadStatus(j) \/ AskResult(j) \/ GetResult(j) \/ OpenResult(j) \/ CloseResult(j)

CleanStep ==
    \/ StartPass \/ CleanRow \/ ListRows \/ ScanOrphans
    \/ \E j \in Jobs : CleanFiles(j) \/ FailFiles(j)

Next ==
    \/ \E j \in Jobs :
           Uploads(j) \/ Progress(j) \/ Recover(j) \/ LoseTree(j)
    \/ \E j \in Readable : Reading(j)
    \/ CleanStep \/ FailPass
    \/ Crash \/ Restart \/ Serve \/ Tick

Spec == Init /\ [][Next]_vars

\* Time passes, an upload waits for the database only for so long, the maintenance
\* timer fires, and the service manager restarts the process.  Nothing obliges a
\* client to read, or a job to end.
Fairness ==
    /\ WF_vars(Tick)
    /\ \A j \in Jobs : WF_vars(AcceptUpload(j) \/ RefuseUpload(j))
    /\ \A j \in Jobs : WF_vars(CompleteJob(j))
    /\ WF_vars(CleanStep)
    /\ WF_vars(Restart)
    /\ WF_vars(\E j \in Jobs : Recover(j))
    /\ WF_vars(Serve)

FairSpec == Spec /\ Fairness

-------------------------------------------------------------------------------
(* Safety *)

\* No cleanup removes what is still needed: a job that has not ended has its image,
\* even after its expiry, and a completed job has its model until it expires.  Only
\* the grace period protects an upload that is accepted between the pass's list of
\* rows and its scan, and only the order of publication and commit the model.
LiveFilesKept ==
    \A j \in Jobs \ lost :
        /\ rows[j] \in NonTerminal => trees[j].upload
        /\ rows[j] = "completed" /\ ~Expired(j) => trees[j].model

\* Files without a row are what a crash left of an unanswered upload: a refused
\* upload leaves none, and no model outlives its row.
FilesHaveRows ==
    \A j \in Jobs : rows[j] = "absent" =>
        /\ ~trees[j].model
        /\ trees[j].upload /\ upload[j] = "done" => crashes > 0

\* Recovery reports a missing model once, and only if it was lost: never because a
\* pass was cut short between the files of a job and its row.
MissingIsReal ==
    \A j \in Jobs : reports[j] <= 1 /\ (reports[j] > 0 => j \in lost)

-------------------------------------------------------------------------------
(* Why they hold: the inductive invariants *)

\* Only finitely many rows are ever there, and the limits hold for what they count.
LimitsInv ==
    /\ IsFiniteSet(Rows)
    /\ PendingBounded
    /\ Cardinality(Recent) <= limits.recent
    /\ Cardinality(Recent \cap SameInput) <= limits.identical

\* The clocks of a job: its row is committed at most MaxDelay after its created_at,
\* its directory is not older than that time until then, and a row that was
\* committed a short time ago is there.
Clocks(j) ==
    /\ upload[j] = "new" =>
           rows[j] = "absent" /\ trees[j] = NoTree /\ age[j] = 0 /\ reader[j] = "none"
    /\ upload[j] = "stored" =>
           /\ rows[j] = "absent" /\ phase = "up"
           /\ trees[j].age <= age[j] /\ age[j] <= MaxDelay
    /\ accepted[j] <= Window - MaxDelay =>
           rows[j] # "absent" /\ age[j] <= accepted[j] + MaxDelay

\* A completed job whose model is not there, although nobody lost it: a pass has
\* removed its files, and not yet its row.
Torn(j) == j \notin lost /\ rows[j] = "completed" /\ ~trees[j].model

\* The files of a job: what has not ended has its image, what has no row has no model,
\* and where a torn job can be found.
Files(j) ==
    /\ j \notin lost /\ (upload[j] = "stored" \/ rows[j] \in NonTerminal) => trees[j].upload
    /\ rows[j] = "absent" => ~trees[j].model
    /\ rows[j] = "absent" /\ trees[j].upload /\ upload[j] = "done" => crashes > 0
    /\ Torn(j) =>
           /\ Expired(j)
           /\ phase # "recovering" /\ pass.at # "scan"
           /\ pass.at \in {"files", "row"} => j \in pass.jobs

\* What the pass may assume of what it read before, and where it can be.
PassInv ==
    /\ Cleaning => phase \in {"cleaning", "up"}
    /\ pass.at = "dead" => phase = "up"
    /\ pass.jobs \subseteq ExpiredTerminal
    /\ pass.at = "row" =>
           pass.job \in pass.jobs /\ ~trees[pass.job].upload /\ ~trees[pass.job].model
    /\ pass.at = "scan" =>
           \A j \in Jobs : j \notin pass.known /\ rows[j] # "absent" =>
               trees[j].age <= Grace + pass.elapsed

\* The job being published is the one that is processing, and its model is there.
PublishInv ==
    publishing # NoJob =>
        /\ phase = "up"
        /\ rows[publishing] = "processing"
        /\ publishing \notin lost => trees[publishing].model

RetentionInv ==
    /\ \A j \in Jobs : Clocks(j) /\ Files(j)
    /\ LimitsInv /\ PassInv /\ PublishInv /\ MissingIsReal

-------------------------------------------------------------------------------
(* Liveness *)

Gone(j) == rows[j] = "absent" /\ ~trees[j].exists

\* What is over goes: an expired job with its files, the files of an upload that was
\* never accepted, and the directories a late read made again, unless the
\* maintenance task has ended.
NothingStays ==
    \A j \in Jobs :
        (upload[j] = "done" /\ (rows[j] = "absent" \/ rows[j] \in Terminal))
            ~> (Gone(j) \/ pass.at = "dead")

\* An expired job is removed.
ExpiredGoes ==
    \A j \in Jobs : (rows[j] \in Terminal /\ Expired(j)) ~> rows[j] = "absent"

===============================================================================
