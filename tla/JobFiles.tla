-------------------------------- MODULE JobFiles --------------------------------
(***************************************************************************)
(* The directory of each job below the storage root                        *)
(* (storage/job_storage.py).  A tree is known by the two files that        *)
(* matter, the uploaded image and the published model, and by the time     *)
(* since the directory was made.  Every operation is synchronous code on   *)
(* the event loop, so each is one step.                                    *)
(***************************************************************************)
EXTENDS JobDomain

CONSTANT
    Grace   \* orphan_grace_hours, in the units of time of the model

ASSUME GraceAssumption == Grace \in Nat \ {0}

VARIABLE
    trees   \* the storage root: one tree for each job

\* Beyond this age the orphan scan does not care, whenever its pass began.
OldAge == Grace + 2

Tree == [exists : BOOLEAN, upload : BOOLEAN, model : BOOLEAN, age : 0..OldAge]

NoTree == [exists |-> FALSE, upload |-> FALSE, model |-> FALSE, age |-> 0]

\* ensure_job: mkdir(parents=True, exist_ok=True); an old directory keeps its age.
Ensured(tree) == [tree EXCEPT !.exists = TRUE]

EnsureJob(j) == trees' = [trees EXCEPT ![j] = Ensured(@)]

\* atomic_write of the upload, and of the model by publish_glb: the bytes go to a
\* temporary file that replaces the target, so a file is whole or absent.
WriteUpload(j) == trees' = [trees EXCEPT ![j] = [Ensured(@) EXCEPT !.upload = TRUE]]

WriteModel(j) == trees' = [trees EXCEPT ![j] = [Ensured(@) EXCEPT !.model = TRUE]]

\* remove_job
RemoveJob(j) == trees' = [trees EXCEPT ![j] = NoTree]

\* Mutant: the scan trusts the list of rows alone.
RemoveUnknown(known, elapsed) ==
    trees' = [j \in Jobs |-> IF j \notin known THEN NoTree ELSE trees[j]]

\* remove_orphaned_jobs: directories without a row that were older than the grace
\* period when the pass began, `elapsed` units of time ago.
RemoveOrphanedJobs(known, elapsed) ==
    trees' = [j \in Jobs |->
        IF j \notin known /\ trees[j].age > Grace + elapsed THEN NoTree ELSE trees[j]]

\* Time passes.
Older(tree) ==
    IF tree.exists /\ tree.age < OldAge THEN [tree EXCEPT !.age = @ + 1] ELSE tree

===============================================================================
