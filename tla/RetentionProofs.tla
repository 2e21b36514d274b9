----------------------------- MODULE RetentionProofs -----------------------------
(***************************************************************************)
(* Theorems about Retention for every set of jobs, every setting of the    *)
(* limits, every choice of the periods, and any number of crashes, faults  *)
(* and losses: its types; the limits of accept_job (PendingBounded,        *)
(* RateBounded); and what a cleanup keeps, leaves and reports              *)
(* (LiveFilesKept, FilesHaveRows, MissingIsReal).  All follow from         *)
(* RetentionInv.                                                           *)
(***************************************************************************)
EXTENDS Retention, FiniteSetTheorems, TLAPS

-------------------------------------------------------------------------------
(* Trees *)

\* The tree of no job is a tree without files, made now.
LEMMA NoTreeFields ==
    /\ NoTree \in Tree
    /\ NoTree.exists = FALSE /\ NoTree.upload = FALSE /\ NoTree.model = FALSE
    /\ NoTree.age = 0
BY GraceAssumption DEF NoTree, Tree, OldAge

\* The types of a tree's fields.
LEMMA TreeFields ==
    ASSUME NEW tree \in Tree
    PROVE  /\ tree.exists \in BOOLEAN /\ tree.upload \in BOOLEAN /\ tree.model \in BOOLEAN
           /\ tree.age \in Nat /\ tree.age <= OldAge
BY GraceAssumption DEF Tree, OldAge

\* ensure_job changes no file and not the age.
LEMMA EnsuredFields ==
    ASSUME NEW tree \in Tree
    PROVE  /\ Ensured(tree) \in Tree
           /\ Ensured(tree).upload = tree.upload /\ Ensured(tree).model = tree.model
           /\ Ensured(tree).age = tree.age
BY DEF Ensured, Tree

\* Time makes a directory at most one unit older, and changes nothing else.
LEMMA OlderFields ==
    ASSUME NEW tree \in Tree
    PROVE  /\ Older(tree) \in Tree
           /\ Older(tree).upload = tree.upload /\ Older(tree).model = tree.model
           /\ Older(tree).age <= tree.age + 1
           /\ tree = NoTree => Older(tree) = NoTree
<1>1. tree.age \in Nat /\ OldAge \in Nat
    BY TreeFields, GraceAssumption DEF OldAge
<1>2. CASE tree.exists /\ tree.age < OldAge
    <2>1. Older(tree) = [tree EXCEPT !.age = tree.age + 1]
        BY <1>2 DEF Older
    <2>2. tree.age + 1 \in 0..OldAge
        BY <1>1, <1>2
    <2>3. tree # NoTree
        BY <1>2, NoTreeFields
    <2> QED BY <2>1, <2>2, <2>3, <1>1 DEF Tree
<1>3. CASE ~(tree.exists /\ tree.age < OldAge)
    BY <1>1, <1>3 DEF Older
<1> QED BY <1>2, <1>3

\* What each operation of the storage does to the trees.
LEMMA EnsureJobStep ==
    ASSUME trees \in [Jobs -> Tree], NEW j \in Jobs, EnsureJob(j)
    PROVE  /\ trees' \in [Jobs -> Tree]
           /\ \A k \in Jobs : /\ trees'[k].upload = trees[k].upload
                              /\ trees'[k].model = trees[k].model
                              /\ trees'[k].age = trees[k].age
                              /\ k # j => trees'[k] = trees[k]
BY EnsuredFields DEF EnsureJob

LEMMA WriteUploadStep ==
    ASSUME trees \in [Jobs -> Tree], NEW j \in Jobs, WriteUpload(j)
    PROVE  /\ trees' \in [Jobs -> Tree]
           /\ \A k \in Jobs : k # j => trees'[k] = trees[k]
           /\ trees'[j].upload = TRUE
           /\ trees'[j].model = trees[j].model /\ trees'[j].age = trees[j].age
<1>1. PICK tree \in Tree : tree = Ensured(trees[j])
    BY EnsuredFields
<1>2. tree.model = trees[j].model /\ tree.age = trees[j].age
    BY <1>1, EnsuredFields
<1>3. trees' = [trees EXCEPT ![j] = [tree EXCEPT !.upload = TRUE]]
    BY <1>1 DEF WriteUpload
<1>4. /\ [tree EXCEPT !.upload = TRUE] \in Tree
      /\ [tree EXCEPT !.upload = TRUE].upload = TRUE
      /\ [tree EXCEPT !.upload = TRUE].model = tree.model
      /\ [tree EXCEPT !.upload = TRUE].age = tree.age
    BY DEF Tree
<1> QED BY <1>2, <1>3, <1>4

LEMMA WriteModelStep ==
    ASSUME trees \in [Jobs -> Tree], NEW j \in Jobs, WriteModel(j)
    PROVE  /\ trees' \in [Jobs -> Tree]
           /\ \A k \in Jobs : k # j => trees'[k] = trees[k]
           /\ trees'[j].model = TRUE
           /\ trees'[j].upload = trees[j].upload /\ trees'[j].age = trees[j].age
<1>1. PICK tree \in Tree : tree = Ensured(trees[j])
    BY EnsuredFields
<1>2. tree.upload = trees[j].upload /\ tree.age = trees[j].age
    BY <1>1, EnsuredFields
<1>3. trees' = [trees EXCEPT ![j] = [tree EXCEPT !.model = TRUE]]
    BY <1>1 DEF WriteModel
<1>4. /\ [tree EXCEPT !.model = TRUE] \in Tree
      /\ [tree EXCEPT !.model = TRUE].model = TRUE
      /\ [tree EXCEPT !.model = TRUE].upload = tree.upload
      /\ [tree EXCEPT !.model = TRUE].age = tree.age
    BY DEF Tree
<1> QED BY <1>2, <1>3, <1>4

LEMMA RemoveJobStep ==
    ASSUME trees \in [Jobs -> Tree], NEW j \in Jobs, RemoveJob(j)
    PROVE  /\ trees' \in [Jobs -> Tree]
           /\ \A k \in Jobs : k # j => trees'[k] = trees[k]
           /\ trees'[j] = NoTree
BY NoTreeFields DEF RemoveJob

LEMMA RemoveOrphanedJobsStep ==
    ASSUME trees \in [Jobs -> Tree], NEW known, NEW elapsed,
           RemoveOrphanedJobs(known, elapsed)
    PROVE  /\ trees' \in [Jobs -> Tree]
           /\ \A k \in Jobs : trees'[k] = trees[k] \/ trees'[k] = NoTree
           /\ \A k \in Jobs : k \in known \/ ~(trees[k].age > Grace + elapsed)
                                  => trees'[k] = trees[k]
BY NoTreeFields DEF RemoveOrphanedJobs

-------------------------------------------------------------------------------
(* Types *)

\* The fields of a pass, and what each step of the pass makes of them.
LEMMA PassFields ==
    ASSUME NEW p \in Pass
    PROVE  /\ p.at \in {"asleep", "files", "row", "scan", "dead"}
           /\ p.elapsed \in 0..1 /\ p.jobs \subseteq Jobs
           /\ p.job \in Jobs \cup {NoJob} /\ p.known \subseteq Jobs
BY DEF Pass

LEMMA AsleepFields ==
    /\ Asleep \in Pass /\ Asleep.at = "asleep" /\ Asleep.jobs = {}
    /\ Dead \in Pass /\ Dead.at = "dead" /\ Dead.jobs = {}
BY DEF Asleep, Dead, Pass

LEMMA PassStarts ==
    ASSUME NEW jobs \in SUBSET Jobs
    PROVE  LET p == [Asleep EXCEPT !.at = "files", !.jobs = jobs]
           IN  p \in Pass /\ p.at = "files" /\ p.jobs = jobs /\ p.elapsed = 0
<1>1. ASSUME NEW p \in Pass
      PROVE  LET q == [p EXCEPT !.at = "files", !.jobs = jobs]
             IN  q \in Pass /\ q.at = "files" /\ q.jobs = jobs /\ q.elapsed = p.elapsed
    BY DEF Pass
<1>2. Asleep \in Pass /\ Asleep.elapsed = 0
    BY DEF Asleep, Pass
<1> QED BY <1>1, <1>2

LEMMA PassToRow ==
    ASSUME NEW p \in Pass, NEW j \in Jobs, NEW q, q = [p EXCEPT !.at = "row", !.job = j]
    PROVE  q \in Pass /\ q.at = "row" /\ q.job = j /\ q.jobs = p.jobs
BY DEF Pass

LEMMA PassToFiles ==
    ASSUME NEW p \in Pass, NEW jobs \in SUBSET Jobs,
           NEW q, q = [p EXCEPT !.at = "files", !.job = NoJob, !.jobs = jobs]
    PROVE  q \in Pass /\ q.at = "files" /\ q.jobs = jobs
BY DEF Pass

LEMMA PassToScan ==
    ASSUME NEW p \in Pass, NEW known \in SUBSET Jobs,
           NEW q, q = [p EXCEPT !.at = "scan", !.known = known]
    PROVE  q \in Pass /\ q.at = "scan" /\ q.known = known /\ q.jobs = p.jobs
BY DEF Pass

LEMMA PassTicks ==
    ASSUME NEW p \in Pass, NEW q, q = [p EXCEPT !.elapsed = 1]
    PROVE  /\ q \in Pass /\ q.elapsed = 1 /\ q.at = p.at /\ q.job = p.job
           /\ q.jobs = p.jobs /\ q.known = p.known
BY DEF Pass

\* A step keeps the types.
LEMMA RetentionTypesStep ==
    ASSUME TypeOK, [Next]_vars
    PROVE  TypeOK'
<1> USE AdmissionAssumption DEF TypeOK, passVars, processVars, recoveryVars, rowVars
<1>1. ASSUME NEW j \in Jobs, StoreUpload(j) PROVE TypeOK'
    BY <1>1, WriteUploadStep DEF StoreUpload
<1>2. ASSUME NEW j \in Jobs, AcceptUpload(j) PROVE TypeOK'
    BY <1>2 DEF AcceptUpload, AcceptJob, Answered, JobState, NonTerminal
<1>3. ASSUME NEW j \in Jobs, RefuseUpload(j) PROVE TypeOK'
    BY <1>3, RemoveJobStep DEF RefuseUpload, Answered
<1>4. ASSUME NEW j \in Jobs, StartJob(j) PROVE TypeOK'
    BY <1>4 DEF StartJob, SetStatus, JobState, NonTerminal
<1>5. ASSUME NEW j \in Jobs, EndJob(j) PROVE TypeOK'
    BY <1>5 DEF EndJob, SetStatus, JobState, Terminal
<1>6. ASSUME NEW j \in Jobs, PublishModel(j) PROVE TypeOK'
    BY <1>6, WriteModelStep DEF PublishModel
<1>7. ASSUME NEW j \in Jobs, CompleteJob(j) PROVE TypeOK'
    BY <1>7 DEF CompleteJob, SetStatus, JobState, Terminal
<1>8. ASSUME NEW j \in Jobs, ReadStatus(j) PROVE TypeOK'
    BY <1>8, EnsureJobStep DEF ReadStatus
<1>9. ASSUME NEW j \in Jobs, AskResult(j) PROVE TypeOK'
    BY <1>9 DEF AskResult, Readers
<1>10. ASSUME NEW j \in Jobs, GetResult(j) PROVE TypeOK'
    BY <1>10, EnsureJobStep DEF GetResult, Readers
<1>11. ASSUME NEW j \in Jobs, OpenResult(j) PROVE TypeOK'
    BY <1>11 DEF OpenResult, Readers
<1>12. ASSUME NEW j \in Jobs, CloseResult(j) PROVE TypeOK'
    BY <1>12 DEF CloseResult, Readers
<1>13. ASSUME StartPass PROVE TypeOK'
    BY <1>13, PassStarts DEF StartPass, Step, ExpiredTerminal
<1>14. ASSUME NEW j \in Jobs, CleanFiles(j) PROVE TypeOK'
    BY <1>14, RemoveJobStep, PassToRow DEF CleanFiles, Step
<1>15. ASSUME CleanRow PROVE TypeOK'
    <2>1. PICK jobs \in SUBSET Jobs : jobs = pass.jobs \ {pass.job}
        BY PassFields
    <2>2. pass' = [pass EXCEPT !.at = "files", !.job = NoJob, !.jobs = jobs]
        BY <1>15, <2>1 DEF CleanRow, Step
    <2>3. pass' \in Pass
        BY <2>2, PassToFiles
    <2> QED BY <1>15, <2>3 DEF CleanRow, DeleteJob
<1>16. ASSUME ListRows PROVE TypeOK'
    BY <1>16, PassToScan DEF ListRows, Step, Rows
<1>17. ASSUME ScanOrphans PROVE TypeOK'
    BY <1>17, RemoveOrphanedJobsStep, AsleepFields DEF ScanOrphans, Step
<1>18. ASSUME Abandon, trees' \in [Jobs -> Tree], faults' \in Nat PROVE TypeOK'
    BY <1>18, AsleepFields DEF Abandon, Step
<1>19. ASSUME NEW j \in Jobs, FailFiles(j) PROVE TypeOK'
    <2>1. [trees[j] EXCEPT !.upload = FALSE] \in Tree
        BY DEF Tree
    <2>2. PICK tree \in {trees[j], [trees[j] EXCEPT !.upload = FALSE]} :
              trees' = [trees EXCEPT ![j] = tree]
        BY <1>19 DEF FailFiles
    <2>3. trees' \in [Jobs -> Tree]
        BY <2>1, <2>2
    <2> QED BY <1>18, <1>19, <2>3 DEF FailFiles
<1>20. ASSUME FailPass PROVE TypeOK'
    BY <1>18, <1>20 DEF FailPass
<1>21. ASSUME Crash PROVE TypeOK'
    BY <1>21, AsleepFields DEF Crash, Step, Readers
<1>22. ASSUME Restart PROVE TypeOK'
    BY <1>22 DEF Restart
<1>23. ASSUME NEW j \in Jobs, Recover(j) PROVE TypeOK'
    <2>1. CASE RecoverQueued(j)
        BY <2>1, EnsureJobStep DEF RecoverQueued, Recovered
    <2>2. CASE RecoverFailed(j)
        BY <2>2 DEF RecoverFailed, Recovered, SetStatus, JobState, Terminal
    <2>3. CASE RecordMissingOutput(j)
        BY <2>3 DEF RecordMissingOutput, Recovered
    <2> QED BY <1>23, <2>1, <2>2, <2>3 DEF Recover
<1>24. ASSUME Serve PROVE TypeOK'
    BY <1>24 DEF Serve
<1>25. ASSUME NEW j \in Jobs, LoseTree(j) PROVE TypeOK'
    BY <1>25, RemoveJobStep DEF LoseTree
<1>26. ASSUME Tick PROVE TypeOK'
    <2>1. trees' \in [Jobs -> Tree]
        BY <1>26, OlderFields DEF Tick
    <2>2. pass' \in Pass
        BY <1>26, PassTicks DEF Tick
    <2>3. age' \in [Jobs -> 0..Retention] /\ accepted' \in [Jobs -> 0..Window + 1]
        BY <1>26 DEF Tick, Aged
    <2> QED BY <1>26, <2>1, <2>2, <2>3 DEF Tick
<1>27. CASE UNCHANGED vars
    BY <1>27 DEF vars
<1> QED
    BY <1>1, <1>2, <1>3, <1>4, <1>5, <1>6, <1>7, <1>8, <1>9, <1>10, <1>11, <1>12,
       <1>13, <1>14, <1>15, <1>16, <1>17, <1>19, <1>20, <1>21, <1>22, <1>23, <1>24,
       <1>25, <1>26, <1>27, RetentionAssumption
    DEF Next, Uploads, Progress, Reading, CleanStep

\* TypeOK is an invariant: every step keeps the types of the variables it changes.
THEOREM RetentionTypeCorrect == Spec => []TypeOK
<1>1. Init => TypeOK
    <2> SUFFICES ASSUME Init PROVE TypeOK
        OBVIOUS
    <2>1. trees \in [Jobs -> Tree] /\ pass \in Pass
        BY NoTreeFields, AsleepFields DEF Init
    <2> QED BY <2>1, AdmissionAssumption DEF Init, TypeOK, Readers
<1>2. TypeOK /\ [Next]_vars => TypeOK'
    BY RetentionTypesStep
<1> QED BY <1>1, <1>2, PTL DEF Spec

-------------------------------------------------------------------------------
(* The limits *)

\* One more element counts one more.
LEMMA OneMoreCounts ==
    ASSUME NEW S, IsFiniteSet(S), NEW j
    PROVE  /\ IsFiniteSet(S \cup {j})
           /\ Cardinality(S) \in Nat
           /\ Cardinality(S \cup {j}) \in Nat
           /\ Cardinality(S \cup {j}) <= Cardinality(S) + 1
BY FS_AddElement, FS_CardinalityType

\* A part counts no more than the whole.
LEMMA PartCountsLess ==
    ASSUME NEW T, IsFiniteSet(T), NEW S \in SUBSET T
    PROVE  /\ IsFiniteSet(S)
           /\ Cardinality(S) \in Nat /\ Cardinality(T) \in Nat
           /\ Cardinality(S) <= Cardinality(T)
BY FS_Subset, FS_CardinalityType

\* What a deployment's limits are, and that the counts are of finite sets.
LEMMA LimitFields ==
    ASSUME TypeOK
    PROVE  limits.pending \in Nat /\ limits.recent \in Nat /\ limits.identical \in Nat
<1>1. limits \in [pending : Nat \ {0}, recent : Nat \ {0}, identical : Nat \ {0}]
    BY AdmissionAssumption DEF TypeOK
<1> QED BY <1>1

LEMMA CountedSets ==
    Pending \subseteq Rows /\ Recent \subseteq Rows
BY DEF Pending, Recent, Rows, NonTerminal

\* A step that adds nothing to what is counted keeps the limits.
LEMMA NothingMoreCounted ==
    ASSUME TypeOK, LimitsInv, limits' = limits,
           Rows' \subseteq Rows, Pending' \subseteq Pending, Recent' \subseteq Recent
    PROVE  LimitsInv'
<1>1. IsFiniteSet(Rows) /\ IsFiniteSet(Pending) /\ IsFiniteSet(Recent)
    BY CountedSets, PartCountsLess DEF LimitsInv
<1>2. IsFiniteSet(Recent \cap SameInput)
    BY <1>1, PartCountsLess
<1>3. IsFiniteSet(Rows')
    BY <1>1, PartCountsLess
<1>4. /\ Cardinality(Pending') <= Cardinality(Pending)
      /\ Cardinality(Pending') \in Nat /\ Cardinality(Pending) \in Nat
    BY <1>1, PartCountsLess
<1>5. /\ Cardinality(Recent') <= Cardinality(Recent)
      /\ Cardinality(Recent') \in Nat /\ Cardinality(Recent) \in Nat
    BY <1>1, PartCountsLess
<1>6. Recent' \cap SameInput \in SUBSET (Recent \cap SameInput)
    OBVIOUS
<1>7. /\ Cardinality(Recent' \cap SameInput) <= Cardinality(Recent \cap SameInput)
      /\ Cardinality(Recent' \cap SameInput) \in Nat
      /\ Cardinality(Recent \cap SameInput) \in Nat
    BY <1>2, <1>6, PartCountsLess
<1>8. Cardinality(Pending') <= limits.pending
    BY <1>4, LimitFields DEF LimitsInv, PendingBounded
<1>9. /\ Cardinality(Recent') <= limits.recent
      /\ Cardinality(Recent' \cap SameInput) <= limits.identical
    BY <1>5, <1>7, LimitFields DEF LimitsInv
<1> QED BY <1>3, <1>8, <1>9 DEF LimitsInv, PendingBounded

\* The same, job by job: no row appears, no ended job is pending again, and a row
\* only gets older.
LEMMA RowsOnlyLeave ==
    ASSUME TypeOK, LimitsInv, limits' = limits, age' \in [Jobs -> 0..Retention],
           \A k \in Jobs : rows'[k] # "absent" => rows[k] # "absent",
           \A k \in Jobs : rows'[k] \in NonTerminal => rows[k] \in NonTerminal,
           \A k \in Jobs : rows[k] # "absent" => age[k] <= age'[k]
    PROVE  LimitsInv'
<1>1. Rows' \subseteq Rows
    BY DEF Rows
<1>2. Pending' \subseteq Pending
    BY DEF Pending
<1>3. Recent' \subseteq Recent
    <2> SUFFICES ASSUME NEW k \in Jobs, k \in Recent' PROVE k \in Recent
        BY DEF Recent, Rows
    <2>1. age[k] <= age'[k] /\ age'[k] <= Window /\ k \in Rows
        BY DEF Recent, Rows
    <2>2. age[k] \in Nat /\ age'[k] \in Nat /\ Window \in Nat
        BY AdmissionAssumption DEF TypeOK
    <2> QED BY <2>1, <2>2 DEF Recent
<1> QED BY <1>1, <1>2, <1>3, NothingMoreCounted

\* accept_job counts before it inserts.
LEMMA AcceptKeepsLimits ==
    ASSUME TypeOK, LimitsInv, NEW j \in Jobs, AcceptJob(j), limits' = limits, age' = age
    PROVE  LimitsInv'
<1>1. IsFiniteSet(Rows) /\ IsFiniteSet(Pending) /\ IsFiniteSet(Recent)
    BY CountedSets, PartCountsLess DEF LimitsInv
<1>2. /\ Rows' = Rows \cup {j}
      /\ Pending' = Pending \cup {j}
      /\ Recent' \subseteq Recent \cup {j}
    BY DEF AcceptJob, TypeOK, Rows, Pending, Recent, NonTerminal
<1>3. IsFiniteSet(Rows')
    BY <1>1, <1>2, OneMoreCounts
<1>4. Cardinality(Pending') <= limits.pending
    BY <1>1, <1>2, OneMoreCounts, LimitFields DEF AcceptJob, WithinLimits
<1>5. IsFiniteSet(Recent \cup {j})
    BY <1>1, OneMoreCounts
<1>6. Cardinality(Recent') <= limits.recent
    <2>1. /\ Cardinality(Recent') <= Cardinality(Recent \cup {j})
          /\ Cardinality(Recent') \in Nat /\ Cardinality(Recent \cup {j}) \in Nat
        BY <1>2, <1>5, PartCountsLess
    <2>2. /\ Cardinality(Recent \cup {j}) <= Cardinality(Recent) + 1
          /\ Cardinality(Recent) \in Nat
        BY <1>1, OneMoreCounts
    <2> QED BY <2>1, <2>2, LimitFields DEF AcceptJob, WithinLimits
<1>7. Cardinality(Recent' \cap SameInput) <= limits.identical
    <2>1. CASE j \in SameInput
        <3> DEFINE same == Recent \cap SameInput
        <3>1. IsFiniteSet(same)
            BY <1>1, PartCountsLess
        <3>2. Recent' \cap SameInput \in SUBSET (same \cup {j})
            BY <1>2
        <3>3. /\ IsFiniteSet(same \cup {j}) /\ Cardinality(same) \in Nat
              /\ Cardinality(same \cup {j}) \in Nat
              /\ Cardinality(same \cup {j}) <= Cardinality(same) + 1
            BY <3>1, OneMoreCounts
        <3>4. /\ Cardinality(Recent' \cap SameInput) <= Cardinality(same \cup {j})
              /\ Cardinality(Recent' \cap SameInput) \in Nat
            BY <3>2, <3>3, PartCountsLess
        <3>5. Cardinality(same) < limits.identical
            BY <2>1 DEF AcceptJob, WithinLimits, Identical
        <3> HIDE DEF same
        <3> QED BY <3>3, <3>4, <3>5, LimitFields
    <2>2. CASE j \notin SameInput
        <3>1. Recent' \cap SameInput \in SUBSET (Recent \cap SameInput)
            BY <1>2, <2>2
        <3>2. IsFiniteSet(Recent \cap SameInput)
            BY <1>1, PartCountsLess
        <3>3. /\ Cardinality(Recent' \cap SameInput) <= Cardinality(Recent \cap SameInput)
              /\ Cardinality(Recent' \cap SameInput) \in Nat
              /\ Cardinality(Recent \cap SameInput) \in Nat
            BY <3>1, <3>2, PartCountsLess
        <3> QED BY <3>3, LimitFields DEF LimitsInv
    <2> QED BY <2>1, <2>2
<1> QED BY <1>3, <1>4, <1>6, <1>7 DEF LimitsInv, PendingBounded

-------------------------------------------------------------------------------
(* The steps *)

\* An exception while files are removed leaves the model, and no directory older.
LEMMA FailFilesStep ==
    ASSUME trees \in [Jobs -> Tree], NEW j \in Jobs, FailFiles(j)
    PROVE  \A k \in Jobs : /\ k # j => trees'[k] = trees[k]
                           /\ trees'[k].model = trees[k].model
                           /\ trees'[k].age = trees[k].age
<1>1. PICK tree \in {trees[j], [trees[j] EXCEPT !.upload = FALSE]} :
          trees' = [trees EXCEPT ![j] = tree]
    BY DEF FailFiles
<1>2. tree.model = trees[j].model /\ tree.age = trees[j].age
    BY DEF Tree
<1> QED BY <1>1, <1>2

\* The steps of the system, one by one.
LEMMA NextSteps ==
    ASSUME [Next]_vars
    PROVE  \/ \E j \in Jobs :
                  \/ StoreUpload(j) \/ AcceptUpload(j) \/ RefuseUpload(j)
                  \/ StartJob(j) \/ EndJob(j) \/ PublishModel(j) \/ CompleteJob(j)
                  \/ ReadStatus(j) \/ AskResult(j) \/ GetResult(j) \/ OpenResult(j)
                  \/ CloseResult(j) \/ CleanFiles(j) \/ FailFiles(j) \/ RecoverQueued(j)
                  \/ RecoverFailed(j) \/ RecordMissingOutput(j) \/ LoseTree(j)
           \/ StartPass \/ CleanRow \/ ListRows \/ ScanOrphans \/ FailPass
           \/ Crash \/ Restart \/ Serve \/ Tick \/ UNCHANGED vars
BY RetentionAssumption
    DEF Next, Uploads, Progress, Reading, CleanStep, Recover

\* The clocks of a job.
LEMMA ClocksStep ==
    ASSUME TypeOK, RetentionInv, [Next]_vars, NEW k \in Jobs
    PROVE  Clocks(k)'
<1> USE AdmissionAssumption, NoTreeFields DEF RetentionInv, Clocks, TypeOK, passVars, processVars, recoveryVars, rowVars
<1>1. ASSUME NEW j \in Jobs, StoreUpload(j) PROVE Clocks(k)'
    <2>1. trees'[j].age = 0 /\ age[j] = 0 /\ rows[j] = "absent"
        BY <1>1, WriteUploadStep DEF StoreUpload
    <2>2. k # j => trees'[k] = trees[k]
        BY <1>1, WriteUploadStep DEF StoreUpload
    <2>3. CASE k = j
        BY <1>1, <2>1, <2>3 DEF StoreUpload
    <2>4. CASE k # j
        BY <1>1, <2>2, <2>4 DEF StoreUpload
    <2> QED BY <2>3, <2>4
<1>2. ASSUME NEW j \in Jobs, AcceptUpload(j) PROVE Clocks(k)'
    BY <1>2 DEF AcceptUpload, AcceptJob, Answered
<1>3. ASSUME NEW j \in Jobs, RefuseUpload(j) PROVE Clocks(k)'
    BY <1>3, RemoveJobStep DEF RefuseUpload, Answered
<1>4. ASSUME NEW j \in Jobs, StartJob(j) PROVE Clocks(k)'
    BY <1>4 DEF StartJob, SetStatus, NonTerminal
<1>5. ASSUME NEW j \in Jobs, EndJob(j) PROVE Clocks(k)'
    BY <1>5 DEF EndJob, SetStatus, NonTerminal
<1>6. ASSUME NEW j \in Jobs, PublishModel(j) PROVE Clocks(k)'
    BY <1>6, WriteModelStep DEF PublishModel
<1>7. ASSUME NEW j \in Jobs, CompleteJob(j) PROVE Clocks(k)'
    BY <1>7, RetentionAssumption DEF CompleteJob, SetStatus, PublishInv
<1>8. ASSUME NEW j \in Jobs, ReadStatus(j) PROVE Clocks(k)'
    BY <1>8, EnsureJobStep DEF ReadStatus
<1>9. ASSUME NEW j \in Jobs, AskResult(j) PROVE Clocks(k)'
    BY <1>9 DEF AskResult
<1>10. ASSUME NEW j \in Jobs, GetResult(j) PROVE Clocks(k)'
    BY <1>10, EnsureJobStep DEF GetResult
<1>11. ASSUME NEW j \in Jobs, OpenResult(j) PROVE Clocks(k)'
    BY <1>11 DEF OpenResult
<1>12. ASSUME NEW j \in Jobs, CloseResult(j) PROVE Clocks(k)'
    BY <1>12 DEF CloseResult
<1>13. ASSUME StartPass PROVE Clocks(k)'
    BY <1>13 DEF StartPass, Step
<1>14. ASSUME NEW j \in Jobs, CleanFiles(j) PROVE Clocks(k)'
    BY <1>14, RemoveJobStep DEF CleanFiles, Step
<1>15. ASSUME CleanRow PROVE Clocks(k)'
    <2>1. pass.job \in Jobs /\ rows[pass.job] \in Terminal /\ age[pass.job] = Retention
        BY <1>15 DEF CleanRow, PassInv, ExpiredTerminal, Expired
    <2>2. ~(accepted[pass.job] <= Window - MaxDelay)
        BY <2>1
    <2>3. upload[pass.job] = "done"
        BY <2>1 DEF Terminal
    <2> QED BY <1>15, <2>1, <2>2, <2>3 DEF CleanRow, DeleteJob
<1>16. ASSUME ListRows PROVE Clocks(k)'
    BY <1>16 DEF ListRows, Step
<1>17. ASSUME ScanOrphans PROVE Clocks(k)'
    BY <1>17, RemoveOrphanedJobsStep DEF ScanOrphans, Step
<1>18. ASSUME NEW j \in Jobs, FailFiles(j) PROVE Clocks(k)'
    BY <1>18, FailFilesStep DEF FailFiles, Abandon, Step
<1>19. ASSUME FailPass PROVE Clocks(k)'
    BY <1>19 DEF FailPass, Abandon, Step
<1>20. ASSUME Crash PROVE Clocks(k)'
    BY <1>20 DEF Crash, Step
<1>21. ASSUME Restart PROVE Clocks(k)'
    BY <1>21 DEF Restart
<1>22. ASSUME NEW j \in Jobs, RecoverQueued(j) PROVE Clocks(k)'
    BY <1>22, EnsureJobStep DEF RecoverQueued, Recovered
<1>23. ASSUME NEW j \in Jobs, RecoverFailed(j) PROVE Clocks(k)'
    BY <1>23 DEF RecoverFailed, Recovered, SetStatus, NonTerminal
<1>24. ASSUME NEW j \in Jobs, RecordMissingOutput(j) PROVE Clocks(k)'
    BY <1>24 DEF RecordMissingOutput, Recovered
<1>25. ASSUME Serve PROVE Clocks(k)'
    BY <1>25 DEF Serve
<1>26. ASSUME NEW j \in Jobs, LoseTree(j) PROVE Clocks(k)'
    BY <1>26, RemoveJobStep DEF LoseTree
<1>27. ASSUME Tick PROVE Clocks(k)'
    <2>1. trees'[k] = Older(trees[k]) /\ trees[k] \in Tree
        BY <1>27 DEF Tick
    <2>2. trees'[k].age <= trees[k].age + 1 /\ trees'[k].age \in Nat /\ trees[k].age \in Nat
        BY <2>1, OlderFields, TreeFields
    <2>3. trees[k] = NoTree => trees'[k] = NoTree
        BY <2>1, OlderFields
    <2>4. /\ upload' = upload /\ rows' = rows /\ phase' = phase /\ reader' = reader
          /\ upload[k] = "stored" => age[k] < MaxDelay
          /\ age'[k] = IF upload[k] = "new" THEN 0 ELSE Aged(age[k], Retention)
          /\ accepted'[k] = Aged(accepted[k], Window + 1)
        BY <1>27 DEF Tick
    <2>5. CASE upload[k] = "new"
        BY <2>3, <2>4, <2>5 DEF Aged
    <2>6. CASE upload[k] # "new"
        <3>1. /\ age'[k] \in Nat /\ age[k] <= age'[k] /\ age'[k] <= age[k] + 1
              /\ age[k] < MaxDelay => age'[k] = age[k] + 1
            BY <2>4, <2>6 DEF Aged
        <3>2. upload[k] = "stored" => trees'[k].age <= age'[k] /\ age'[k] <= MaxDelay
            BY <2>2, <2>4, <3>1
        <3>3. accepted'[k] <= Window - MaxDelay =>
                  accepted'[k] = accepted[k] + 1 /\ accepted[k] <= Window - MaxDelay
            BY <2>4 DEF Aged
        <3>4. accepted'[k] <= Window - MaxDelay =>
                  rows[k] # "absent" /\ age'[k] <= accepted'[k] + MaxDelay
            BY <3>1, <3>3
        <3> QED BY <2>4, <2>6, <3>2, <3>4
    <2> QED BY <2>5, <2>6
<1>28. CASE UNCHANGED vars
    BY <1>28 DEF vars
<1> QED
    BY <1>1, <1>2, <1>3, <1>4, <1>5, <1>6, <1>7, <1>8, <1>9, <1>10, <1>11, <1>12, <1>13,
       <1>14, <1>15, <1>16, <1>17, <1>18, <1>19, <1>20, <1>21, <1>22, <1>23, <1>24,
       <1>25, <1>26, <1>27, <1>28, NextSteps

\* A job the pass is about to remove has ended, and nobody publishes it.
LEMMA PassJobsEnded ==
    ASSUME TypeOK, RetentionInv, NEW j \in pass.jobs
    PROVE  /\ j \in Jobs /\ rows[j] \in Terminal /\ Expired(j)
           /\ rows[j] \notin NonTerminal /\ rows[j] # "absent"
           /\ upload[j] = "done" /\ publishing # j
<1>1. j \in Jobs /\ rows[j] \in Terminal /\ Expired(j)
    BY DEF RetentionInv, PassInv, ExpiredTerminal
<1>2. rows[j] \notin NonTerminal /\ rows[j] # "absent"
    BY <1>1 DEF Terminal, NonTerminal
<1>3. upload[j] = "done"
    BY <1>1, <1>2 DEF RetentionInv, Clocks, TypeOK
<1>4. publishing # j
    BY <1>1, <1>2, RetentionAssumption DEF RetentionInv, PublishInv, NonTerminal
<1> QED BY <1>1, <1>2, <1>3, <1>4

\* The pass removes files and row of a job of its list.
LEMMA CleanSteps ==
    ASSUME TypeOK, RetentionInv
    PROVE  /\ \A j \in Jobs : CleanFiles(j) =>
                  /\ j \in pass.jobs /\ pass'.at = "row" /\ pass'.job = j
                  /\ pass'.jobs = pass.jobs
           /\ CleanRow =>
                  /\ pass.job \in pass.jobs /\ pass'.at = "files"
                  /\ pass'.jobs = pass.jobs \ {pass.job}
<1>1. ASSUME NEW j \in Jobs, CleanFiles(j)
      PROVE  /\ j \in pass.jobs /\ pass'.at = "row" /\ pass'.job = j
             /\ pass'.jobs = pass.jobs
    <2>1. pass \in Pass
        BY DEF TypeOK
    <2>2. j \in pass.jobs /\ pass' = [pass EXCEPT !.at = "row", !.job = j]
        BY <1>1 DEF CleanFiles, Step
    <2> QED BY <2>1, <2>2 DEF Pass
<1>2. ASSUME CleanRow
      PROVE  /\ pass.job \in pass.jobs /\ pass'.at = "files"
             /\ pass'.jobs = pass.jobs \ {pass.job}
    <2>1. PICK jobs \in SUBSET Jobs : jobs = pass.jobs \ {pass.job}
        BY PassFields DEF TypeOK
    <2>2. pass' = [pass EXCEPT !.at = "files", !.job = NoJob, !.jobs = jobs]
        BY <1>2, <2>1 DEF CleanRow, Step
    <2>3. pass \in Pass
        BY DEF TypeOK
    <2>4. pass'.at = "files" /\ pass'.jobs = jobs
        BY <2>2, <2>3 DEF Pass
    <2> QED BY <1>2, <2>1, <2>4 DEF CleanRow, RetentionInv, PassInv
<1> QED BY <1>1, <1>2

\* The scan does not remove what has a row, or an upload that waits for one.
LEMMA ScanKeeps ==
    ASSUME TypeOK, RetentionInv, ScanOrphans, NEW k \in Jobs,
           rows[k] # "absent" \/ upload[k] = "stored"
    PROVE  trees'[k] = trees[k]
<1>1. RemoveOrphanedJobs(pass.known, pass.elapsed) /\ pass.at = "scan"
    BY DEF ScanOrphans
<1>2. trees[k].age \in Nat /\ pass.elapsed \in Nat /\ Grace \in Nat
    BY TreeFields, PassFields, GraceAssumption DEF TypeOK
<1>3. k \in pass.known \/ trees[k].age <= Grace + pass.elapsed
    <2>1. CASE rows[k] # "absent"
        BY <1>1, <2>1 DEF RetentionInv, PassInv
    <2>2. CASE upload[k] = "stored"
        <3>1. trees[k].age <= age[k] /\ age[k] <= MaxDelay /\ age[k] \in Nat
            BY <2>2, AdmissionAssumption DEF RetentionInv, Clocks, TypeOK
        <3> QED BY <1>2, <3>1, RetentionAssumption, AdmissionAssumption
    <2> QED BY <2>1, <2>2
<1>4. k \in pass.known \/ ~(trees[k].age > Grace + pass.elapsed)
    BY <1>2, <1>3
<1> QED BY <1>1, <1>4, RemoveOrphanedJobsStep DEF TypeOK

\* Time keeps the pass where it is, the files, and what has expired.
LEMMA TickKeeps ==
    ASSUME TypeOK, RetentionInv, Tick
    PROVE  /\ pass'.at = pass.at /\ pass'.jobs = pass.jobs /\ pass'.job = pass.job
           /\ pass'.known = pass.known
           /\ Cleaning => pass.elapsed = 0 /\ pass'.elapsed = 1
           /\ \A k \in Jobs : /\ trees'[k].upload = trees[k].upload
                              /\ trees'[k].model = trees[k].model
                              /\ trees'[k].age <= trees[k].age + 1
                              /\ rows[k] # "absent" => age[k] <= age'[k]
                              /\ rows[k] # "absent" /\ Expired(k) => Expired(k)'
<1>1. /\ pass'.at = pass.at /\ pass'.jobs = pass.jobs /\ pass'.job = pass.job
      /\ pass'.known = pass.known
      /\ Cleaning => pass.elapsed = 0 /\ pass'.elapsed = 1
    <2>1. CASE Cleaning
        BY <2>1, PassTicks DEF Tick, TypeOK
    <2>2. CASE ~Cleaning
        BY <2>2 DEF Tick
    <2> QED BY <2>1, <2>2
<1>2. ASSUME NEW k \in Jobs
      PROVE  /\ trees'[k].upload = trees[k].upload
             /\ trees'[k].model = trees[k].model
             /\ trees'[k].age <= trees[k].age + 1
             /\ rows[k] # "absent" => age[k] <= age'[k]
             /\ rows[k] # "absent" /\ Expired(k) => Expired(k)'
    <2>1. trees'[k] = Older(trees[k]) /\ trees[k] \in Tree
        BY DEF Tick, TypeOK
    <2>2. /\ trees'[k].upload = trees[k].upload /\ trees'[k].model = trees[k].model
          /\ trees'[k].age <= trees[k].age + 1
        BY <2>1, OlderFields
    <2>3. age'[k] = (IF upload[k] = "new" THEN 0 ELSE Aged(age[k], Retention))
          /\ (upload[k] = "new" => rows[k] = "absent") /\ age[k] \in 0..Retention
        BY DEF Tick, TypeOK, RetentionInv, Clocks
    <2>4. rows[k] # "absent" =>
              age'[k] = Aged(age[k], Retention) /\ age[k] \in Nat /\ age[k] <= Retention
        BY <2>3, AdmissionAssumption
    <2>5. rows[k] # "absent" => age[k] <= age'[k] /\ (age[k] = Retention => age'[k] = Retention)
        BY <2>4, AdmissionAssumption DEF Aged
    <2> QED BY <2>2, <2>5 DEF Expired
<1> QED BY <1>1, <1>2

\* The files of a job.
LEMMA FilesStep ==
    ASSUME TypeOK, RetentionInv, [Next]_vars, NEW k \in Jobs
    PROVE  Files(k)'
<1> USE AdmissionAssumption, NoTreeFields, AsleepFields DEF RetentionInv, Files, Torn, Expired, Terminal, TypeOK, passVars, processVars, recoveryVars, rowVars
<1>1. ASSUME NEW j \in Jobs, StoreUpload(j) PROVE Files(k)'
    BY <1>1, WriteUploadStep DEF StoreUpload
<1>2. ASSUME NEW j \in Jobs, AcceptUpload(j) PROVE Files(k)'
    BY <1>2 DEF AcceptUpload, AcceptJob, Answered
<1>3. ASSUME NEW j \in Jobs, RefuseUpload(j) PROVE Files(k)'
    <2>1. CASE k = j
        BY <1>3, <2>1, RemoveJobStep DEF RefuseUpload, Answered, NonTerminal, Clocks
    <2>2. CASE k # j
        BY <1>3, <2>2, RemoveJobStep DEF RefuseUpload, Answered
    <2> QED BY <2>1, <2>2
<1>4. ASSUME NEW j \in Jobs, StartJob(j) PROVE Files(k)'
    BY <1>4 DEF StartJob, SetStatus, NonTerminal
<1>5. ASSUME NEW j \in Jobs, EndJob(j) PROVE Files(k)'
    BY <1>5 DEF EndJob, SetStatus, NonTerminal
<1>6. ASSUME NEW j \in Jobs, PublishModel(j) PROVE Files(k)'
    BY <1>6, WriteModelStep DEF PublishModel
<1>7. ASSUME NEW j \in Jobs, CompleteJob(j) PROVE Files(k)'
    <2>1. CASE k = j
        <3>1. upload[k] # "stored" /\ (k \notin lost => trees[k].model)
            BY <1>7, <2>1, RetentionAssumption DEF CompleteJob, PublishInv, Clocks
        <3>2. trees' = trees /\ rows'[k] = "completed" /\ lost' = lost /\ upload' = upload
            BY <1>7, <2>1 DEF CompleteJob, SetStatus
        <3> QED BY <3>1, <3>2 DEF NonTerminal
    <2>2. CASE k # j
        BY <1>7, <2>2 DEF CompleteJob, SetStatus
    <2> QED BY <2>1, <2>2
<1>8. ASSUME NEW j \in Jobs, ReadStatus(j) PROVE Files(k)'
    BY <1>8, EnsureJobStep DEF ReadStatus
<1>9. ASSUME NEW j \in Jobs, AskResult(j) PROVE Files(k)'
    BY <1>9 DEF AskResult
<1>10. ASSUME NEW j \in Jobs, GetResult(j) PROVE Files(k)'
    BY <1>10, EnsureJobStep DEF GetResult
<1>11. ASSUME NEW j \in Jobs, OpenResult(j) PROVE Files(k)'
    BY <1>11 DEF OpenResult
<1>12. ASSUME NEW j \in Jobs, CloseResult(j) PROVE Files(k)'
    BY <1>12 DEF CloseResult
<1>13. ASSUME StartPass PROVE Files(k)'
    <2>1. ExpiredTerminal \in SUBSET Jobs
        BY DEF ExpiredTerminal
    <2>2. pass'.at = "files" /\ pass'.jobs = ExpiredTerminal
        BY <1>13, <2>1, PassStarts DEF StartPass, Step
    <2>3. /\ trees' = trees /\ rows' = rows /\ age' = age /\ lost' = lost
          /\ phase' = phase /\ upload' = upload /\ crashes' = crashes
        BY <1>13 DEF StartPass
    <2>4. Torn(k) => k \in ExpiredTerminal
        BY DEF ExpiredTerminal
    <2> QED BY <2>2, <2>3, <2>4
<1>14. ASSUME NEW j \in Jobs, CleanFiles(j) PROVE Files(k)'
    <2>1. j \in pass.jobs /\ pass'.at = "row" /\ pass'.jobs = pass.jobs /\ pass.at = "files"
        BY <1>14, CleanSteps DEF CleanFiles
    <2>2. /\ rows' = rows /\ age' = age /\ lost' = lost
          /\ phase' = phase /\ upload' = upload /\ crashes' = crashes
        BY <1>14 DEF CleanFiles
    <2>3. phase # "recovering"
        BY <2>1 DEF PassInv, Cleaning
    <2>4. CASE k = j
        <3>1. trees'[k] = NoTree
            BY <1>14, <2>4, RemoveJobStep DEF CleanFiles
        <3> QED BY <2>1, <2>2, <2>3, <2>4, <3>1, PassJobsEnded
    <2>5. CASE k # j
        <3>1. trees'[k] = trees[k]
            BY <1>14, <2>5, RemoveJobStep DEF CleanFiles
        <3> QED BY <2>1, <2>2, <3>1
    <2> QED BY <2>4, <2>5
<1>15. ASSUME CleanRow PROVE Files(k)'
    <2>1. /\ pass.job \in pass.jobs /\ pass'.at = "files" /\ pass.at = "row"
          /\ pass'.jobs = pass.jobs \ {pass.job}
        BY <1>15, CleanSteps DEF CleanRow
    <2>2. /\ trees' = trees /\ age' = age /\ lost' = lost
          /\ phase' = phase /\ upload' = upload /\ crashes' = crashes
        BY <1>15 DEF CleanRow
    <2>3. CASE k = pass.job
        <3>1. rows'[k] = "absent" /\ ~trees[k].upload /\ ~trees[k].model
            BY <1>15, <2>1, <2>3 DEF CleanRow, DeleteJob, PassInv
        <3> QED BY <2>1, <2>2, <2>3, <3>1, PassJobsEnded DEF NonTerminal
    <2>4. CASE k # pass.job
        <3>1. rows'[k] = rows[k]
            BY <1>15, <2>4 DEF CleanRow, DeleteJob
        <3> QED BY <2>1, <2>2, <2>4, <3>1
    <2> QED BY <2>3, <2>4
<1>16. ASSUME ListRows PROVE Files(k)'
    BY <1>16 DEF ListRows, Step
<1>17. ASSUME ScanOrphans PROVE Files(k)'
    <2>1. /\ pass.at = "scan" /\ pass'.at = "asleep" /\ rows' = rows /\ age' = age
          /\ lost' = lost /\ upload' = upload /\ crashes' = crashes
        BY <1>17 DEF ScanOrphans, Step
    <2>2. CASE trees'[k] = trees[k]
        BY <2>1, <2>2
    <2>3. CASE trees'[k] # trees[k]
        <3>1. rows[k] = "absent" /\ upload[k] # "stored" /\ trees'[k] = NoTree
            BY <1>17, <2>3, ScanKeeps, RemoveOrphanedJobsStep DEF ScanOrphans
        <3> QED BY <2>1, <3>1 DEF NonTerminal
    <2> QED BY <2>2, <2>3
<1>18. ASSUME NEW j \in Jobs, FailFiles(j) PROVE Files(k)'
    <2>1. j \in pass.jobs /\ pass'.at \in {"asleep", "dead"} /\ phase' # "recovering"
        BY <1>18 DEF FailFiles, Abandon, Step, PassInv, Cleaning
    <2>2. /\ rows' = rows /\ age' = age /\ lost' = lost
          /\ upload' = upload /\ crashes' = crashes
        BY <1>18 DEF FailFiles, Abandon
    <2>3. trees'[k].model = trees[k].model /\ (k # j => trees'[k] = trees[k])
        BY <1>18, FailFilesStep
    <2>4. CASE k = j
        BY <2>1, <2>2, <2>3, <2>4, PassJobsEnded
    <2>5. CASE k # j
        BY <2>1, <2>2, <2>3, <2>5
    <2> QED BY <2>4, <2>5
<1>19. ASSUME FailPass PROVE Files(k)'
    BY <1>19 DEF FailPass, Abandon, Step
<1>20. ASSUME Crash PROVE Files(k)'
    BY <1>20 DEF Crash, Step
<1>21. ASSUME Restart PROVE Files(k)'
    BY <1>21 DEF Restart
<1>22. ASSUME NEW j \in Jobs, RecoverQueued(j) PROVE Files(k)'
    BY <1>22, EnsureJobStep DEF RecoverQueued, Recovered
<1>23. ASSUME NEW j \in Jobs, RecoverFailed(j) PROVE Files(k)'
    BY <1>23 DEF RecoverFailed, Recovered, SetStatus, NonTerminal
<1>24. ASSUME NEW j \in Jobs, RecordMissingOutput(j) PROVE Files(k)'
    BY <1>24 DEF RecordMissingOutput, Recovered
<1>25. ASSUME Serve PROVE Files(k)'
    BY <1>25 DEF Serve
<1>26. ASSUME NEW j \in Jobs, LoseTree(j) PROVE Files(k)'
    BY <1>26, RemoveJobStep DEF LoseTree
<1>27. ASSUME Tick PROVE Files(k)'
    <2>1. /\ pass'.at = pass.at /\ pass'.jobs = pass.jobs
          /\ trees'[k].upload = trees[k].upload /\ trees'[k].model = trees[k].model
          /\ rows[k] # "absent" /\ age[k] = Retention => age'[k] = Retention
        BY <1>27, TickKeeps
    <2>2. /\ rows' = rows /\ lost' = lost /\ phase' = phase
          /\ upload' = upload /\ crashes' = crashes
        BY <1>27 DEF Tick
    <2> QED BY <2>1, <2>2
<1>28. CASE UNCHANGED vars
    BY <1>28 DEF vars
<1> QED
    BY <1>1, <1>2, <1>3, <1>4, <1>5, <1>6, <1>7, <1>8, <1>9, <1>10, <1>11, <1>12, <1>13,
       <1>14, <1>15, <1>16, <1>17, <1>18, <1>19, <1>20, <1>21, <1>22, <1>23, <1>24,
       <1>25, <1>26, <1>27, <1>28, NextSteps

\* The job being published.
LEMMA PublishStep ==
    ASSUME TypeOK, RetentionInv, [Next]_vars
    PROVE  PublishInv'
<1> USE RetentionAssumption DEF RetentionInv, PublishInv, TypeOK, passVars, processVars, recoveryVars, rowVars
<1>1. ASSUME NEW j \in Jobs, StoreUpload(j) PROVE PublishInv'
    BY <1>1, WriteUploadStep DEF StoreUpload
<1>2. ASSUME NEW j \in Jobs, AcceptUpload(j) PROVE PublishInv'
    BY <1>2 DEF AcceptUpload, AcceptJob, Answered
<1>3. ASSUME NEW j \in Jobs, RefuseUpload(j) PROVE PublishInv'
    <2>1. publishing # NoJob => publishing # j
        BY <1>3 DEF RefuseUpload, Clocks
    <2> QED BY <1>3, <2>1, RemoveJobStep DEF RefuseUpload
<1>4. ASSUME NEW j \in Jobs, StartJob(j) PROVE PublishInv'
    BY <1>4 DEF StartJob, SetStatus, NonTerminal
<1>5. ASSUME NEW j \in Jobs, EndJob(j) PROVE PublishInv'
    BY <1>5 DEF EndJob, SetStatus, NonTerminal
<1>6. ASSUME NEW j \in Jobs, PublishModel(j) PROVE PublishInv'
    BY <1>6, WriteModelStep DEF PublishModel
<1>7. ASSUME NEW j \in Jobs, CompleteJob(j) PROVE PublishInv'
    BY <1>7 DEF CompleteJob, SetStatus
<1>8. ASSUME NEW j \in Jobs, ReadStatus(j) PROVE PublishInv'
    BY <1>8, EnsureJobStep DEF ReadStatus
<1>9. ASSUME NEW j \in Jobs, AskResult(j) PROVE PublishInv'
    BY <1>9 DEF AskResult
<1>10. ASSUME NEW j \in Jobs, GetResult(j) PROVE PublishInv'
    BY <1>10, EnsureJobStep DEF GetResult
<1>11. ASSUME NEW j \in Jobs, OpenResult(j) PROVE PublishInv'
    BY <1>11 DEF OpenResult
<1>12. ASSUME NEW j \in Jobs, CloseResult(j) PROVE PublishInv'
    BY <1>12 DEF CloseResult
<1>13. ASSUME StartPass PROVE PublishInv'
    BY <1>13 DEF StartPass, Step
<1>14. ASSUME NEW j \in Jobs, CleanFiles(j) PROVE PublishInv'
    <2>1. publishing # j
        BY <1>14, CleanSteps, PassJobsEnded
    <2> QED BY <1>14, <2>1, RemoveJobStep DEF CleanFiles
<1>15. ASSUME CleanRow PROVE PublishInv'
    <2>1. publishing # pass.job
        BY <1>15, CleanSteps, PassJobsEnded
    <2> QED BY <1>15, <2>1 DEF CleanRow, DeleteJob
<1>16. ASSUME ListRows PROVE PublishInv'
    BY <1>16 DEF ListRows, Step
<1>17. ASSUME ScanOrphans PROVE PublishInv'
    <2>1. publishing # NoJob => trees'[publishing] = trees[publishing]
        BY <1>17, ScanKeeps
    <2>2. phase = "up" => phase' = "up"
        BY <1>17 DEF ScanOrphans
    <2>3. publishing' = publishing /\ rows' = rows /\ lost' = lost
        BY <1>17 DEF ScanOrphans
    <2> QED BY <2>1, <2>2, <2>3
<1>18. ASSUME NEW j \in Jobs, FailFiles(j) PROVE PublishInv'
    BY <1>18, FailFilesStep DEF FailFiles, Abandon, Step
<1>19. ASSUME FailPass PROVE PublishInv'
    BY <1>19 DEF FailPass, Abandon, Step
<1>20. ASSUME Crash PROVE PublishInv'
    BY <1>20 DEF Crash, Step
<1>21. ASSUME Restart PROVE PublishInv'
    BY <1>21 DEF Restart
<1>22. ASSUME NEW j \in Jobs, RecoverQueued(j) PROVE PublishInv'
    BY <1>22, EnsureJobStep DEF RecoverQueued, Recovered
<1>23. ASSUME NEW j \in Jobs, RecoverFailed(j) PROVE PublishInv'
    BY <1>23 DEF RecoverFailed, Recovered, SetStatus, NonTerminal
<1>24. ASSUME NEW j \in Jobs, RecordMissingOutput(j) PROVE PublishInv'
    BY <1>24 DEF RecordMissingOutput, Recovered
<1>25. ASSUME Serve PROVE PublishInv'
    BY <1>25 DEF Serve
<1>26. ASSUME NEW j \in Jobs, LoseTree(j) PROVE PublishInv'
    BY <1>26, RemoveJobStep DEF LoseTree
<1>27. ASSUME Tick PROVE PublishInv'
    BY <1>27, OlderFields DEF Tick, Aged
<1>28. CASE UNCHANGED vars
    BY <1>28 DEF vars
<1> QED
    BY <1>1, <1>2, <1>3, <1>4, <1>5, <1>6, <1>7, <1>8, <1>9, <1>10, <1>11, <1>12, <1>13,
       <1>14, <1>15, <1>16, <1>17, <1>18, <1>19, <1>20, <1>21, <1>22, <1>23, <1>24,
       <1>25, <1>26, <1>27, <1>28, NextSteps

\* What recovery reports.
LEMMA MissingStep ==
    ASSUME TypeOK, RetentionInv, [Next]_vars
    PROVE  MissingIsReal'
<1> USE RetentionAssumption DEF RetentionInv, MissingIsReal, TypeOK, passVars, processVars, recoveryVars, rowVars
<1>1. ASSUME NEW j \in Jobs, StoreUpload(j) PROVE MissingIsReal'
    BY <1>1, WriteUploadStep DEF StoreUpload
<1>2. ASSUME NEW j \in Jobs, AcceptUpload(j) PROVE MissingIsReal'
    BY <1>2 DEF AcceptUpload, AcceptJob, Answered
<1>3. ASSUME NEW j \in Jobs, RefuseUpload(j) PROVE MissingIsReal'
    BY <1>3, RemoveJobStep DEF RefuseUpload, Answered
<1>4. ASSUME NEW j \in Jobs, StartJob(j) PROVE MissingIsReal'
    BY <1>4 DEF StartJob, SetStatus, NonTerminal
<1>5. ASSUME NEW j \in Jobs, EndJob(j) PROVE MissingIsReal'
    BY <1>5 DEF EndJob, SetStatus, NonTerminal
<1>6. ASSUME NEW j \in Jobs, PublishModel(j) PROVE MissingIsReal'
    BY <1>6, WriteModelStep DEF PublishModel
<1>7. ASSUME NEW j \in Jobs, CompleteJob(j) PROVE MissingIsReal'
    BY <1>7 DEF CompleteJob, SetStatus
<1>8. ASSUME NEW j \in Jobs, ReadStatus(j) PROVE MissingIsReal'
    BY <1>8, EnsureJobStep DEF ReadStatus
<1>9. ASSUME NEW j \in Jobs, AskResult(j) PROVE MissingIsReal'
    BY <1>9 DEF AskResult
<1>10. ASSUME NEW j \in Jobs, GetResult(j) PROVE MissingIsReal'
    BY <1>10, EnsureJobStep DEF GetResult
<1>11. ASSUME NEW j \in Jobs, OpenResult(j) PROVE MissingIsReal'
    BY <1>11 DEF OpenResult
<1>12. ASSUME NEW j \in Jobs, CloseResult(j) PROVE MissingIsReal'
    BY <1>12 DEF CloseResult
<1>13. ASSUME StartPass PROVE MissingIsReal'
    BY <1>13 DEF StartPass, Step
<1>14. ASSUME NEW j \in Jobs, CleanFiles(j) PROVE MissingIsReal'
    BY <1>14, RemoveJobStep DEF CleanFiles, Step
<1>15. ASSUME CleanRow PROVE MissingIsReal'
    BY <1>15 DEF CleanRow, DeleteJob, Step
<1>16. ASSUME ListRows PROVE MissingIsReal'
    BY <1>16 DEF ListRows, Step
<1>17. ASSUME ScanOrphans PROVE MissingIsReal'
    BY <1>17, RemoveOrphanedJobsStep DEF ScanOrphans, Step
<1>18. ASSUME NEW j \in Jobs, FailFiles(j) PROVE MissingIsReal'
    BY <1>18, FailFilesStep DEF FailFiles, Abandon, Step
<1>19. ASSUME FailPass PROVE MissingIsReal'
    BY <1>19 DEF FailPass, Abandon, Step
<1>20. ASSUME Crash PROVE MissingIsReal'
    BY <1>20 DEF Crash, Step
<1>21. ASSUME Restart PROVE MissingIsReal'
    BY <1>21 DEF Restart
<1>22. ASSUME NEW j \in Jobs, RecoverQueued(j) PROVE MissingIsReal'
    BY <1>22, EnsureJobStep DEF RecoverQueued, Recovered
<1>23. ASSUME NEW j \in Jobs, RecoverFailed(j) PROVE MissingIsReal'
    BY <1>23 DEF RecoverFailed, Recovered, SetStatus, NonTerminal
<1>24. ASSUME NEW j \in Jobs, RecordMissingOutput(j) PROVE MissingIsReal'
    <2>1. trees[j].model \/ j \in lost
        BY <1>24 DEF RecordMissingOutput, Recovered, Files, Torn
    <2>2. lost' = lost /\ reports \in [Jobs -> Nat]
        BY <1>24 DEF RecordMissingOutput, Recovered
    <2>3. \A k \in Jobs : k # j => reports'[k] = reports[k]
        BY <1>24 DEF RecordMissingOutput
    <2>4. reports'[j] = reports[j] \/ (reports[j] = 0 /\ reports'[j] = 1 /\ j \in lost)
        BY <1>24, <2>1, <2>2 DEF RecordMissingOutput
    <2> QED BY <2>2, <2>3, <2>4
<1>25. ASSUME Serve PROVE MissingIsReal'
    BY <1>25 DEF Serve
<1>26. ASSUME NEW j \in Jobs, LoseTree(j) PROVE MissingIsReal'
    BY <1>26, RemoveJobStep DEF LoseTree
<1>27. ASSUME Tick PROVE MissingIsReal'
    BY <1>27, OlderFields DEF Tick, Aged
<1>28. CASE UNCHANGED vars
    BY <1>28 DEF vars
<1> QED
    BY <1>1, <1>2, <1>3, <1>4, <1>5, <1>6, <1>7, <1>8, <1>9, <1>10, <1>11, <1>12, <1>13,
       <1>14, <1>15, <1>16, <1>17, <1>18, <1>19, <1>20, <1>21, <1>22, <1>23, <1>24,
       <1>25, <1>26, <1>27, <1>28, NextSteps

\* What the pass assumes.
LEMMA PassStep ==
    ASSUME TypeOK, RetentionInv, [Next]_vars
    PROVE  PassInv'
<1> USE AsleepFields DEF RetentionInv, PassInv, Cleaning, ExpiredTerminal, Expired, Terminal, TypeOK, passVars, processVars, recoveryVars, rowVars
<1>1. ASSUME NEW j \in Jobs, StoreUpload(j) PROVE PassInv'
    <2>1. \A k \in Jobs : rows[k] # "absent" => trees'[k] = trees[k]
        <3>1. upload[j] = "new" /\ WriteUpload(j)
            BY <1>1 DEF StoreUpload
        <3>2. rows[j] = "absent"
            BY <3>1 DEF Clocks
        <3> QED BY <3>1, <3>2, WriteUploadStep
    <2>2. rows' = rows /\ age' = age /\ pass' = pass /\ phase' = phase
        BY <1>1 DEF StoreUpload
    <2>3. pass.at = "row" => rows[pass.job] # "absent" /\ pass.job \in Jobs
        BY PassJobsEnded
    <2> QED BY <2>1, <2>2, <2>3
<1>2. ASSUME NEW j \in Jobs, AcceptUpload(j) PROVE PassInv'
    <2>1. trees' = trees /\ age' = age /\ pass' = pass /\ phase' = phase
        BY <1>2 DEF AcceptUpload
    <2>2. \A k \in Jobs : k # j => rows'[k] = rows[k]
        BY <1>2 DEF AcceptUpload, AcceptJob
    <2>3. rows[j] = "absent"
        BY <1>2 DEF AcceptUpload, AcceptJob
    <2>4. trees[j].age <= Grace + pass.elapsed
        <3>1. trees[j].age <= age[j] /\ age[j] <= MaxDelay
            BY <1>2 DEF AcceptUpload, Clocks
        <3>2. trees[j].age \in Nat /\ age[j] \in Nat /\ pass.elapsed \in Nat
            BY TreeFields, PassFields, AdmissionAssumption
        <3> QED BY <3>1, <3>2, RetentionAssumption, AdmissionAssumption, GraceAssumption
    <2>5. pass.jobs \subseteq ExpiredTerminal'
        BY <2>1, <2>2, <2>3, PassJobsEnded DEF ExpiredTerminal
    <2> QED BY <2>1, <2>2, <2>4, <2>5 DEF ExpiredTerminal
<1>3. ASSUME NEW j \in Jobs, RefuseUpload(j) PROVE PassInv'
    <2>1. \A k \in Jobs : rows[k] # "absent" => trees'[k] = trees[k]
        BY <1>3, RemoveJobStep DEF RefuseUpload, Clocks
    <2>2. rows' = rows /\ age' = age /\ pass' = pass /\ phase' = phase
        BY <1>3 DEF RefuseUpload
    <2>3. pass.at = "row" => rows[pass.job] # "absent" /\ pass.job \in Jobs
        BY PassJobsEnded
    <2> QED BY <2>1, <2>2, <2>3
<1>4. ASSUME NEW j \in Jobs, StartJob(j) PROVE PassInv'
    BY <1>4 DEF StartJob, SetStatus, NonTerminal
<1>5. ASSUME NEW j \in Jobs, EndJob(j) PROVE PassInv'
    BY <1>5 DEF EndJob, SetStatus, NonTerminal
<1>6. ASSUME NEW j \in Jobs, PublishModel(j) PROVE PassInv'
    BY <1>6, WriteModelStep DEF PublishModel
<1>7. ASSUME NEW j \in Jobs, CompleteJob(j) PROVE PassInv'
    <2>1. rows[j] # "absent" /\ rows[j] \notin Terminal
        BY <1>7, RetentionAssumption DEF CompleteJob, PublishInv
    <2>2. trees' = trees /\ age' = age /\ pass' = pass /\ phase' = phase
        BY <1>7 DEF CompleteJob
    <2>3. \A k \in Jobs : k # j => rows'[k] = rows[k]
        BY <1>7 DEF CompleteJob, SetStatus
    <2> QED BY <2>1, <2>2, <2>3
<1>8. ASSUME NEW j \in Jobs, ReadStatus(j) PROVE PassInv'
    BY <1>8, EnsureJobStep DEF ReadStatus
<1>9. ASSUME NEW j \in Jobs, AskResult(j) PROVE PassInv'
    BY <1>9 DEF AskResult
<1>10. ASSUME NEW j \in Jobs, GetResult(j) PROVE PassInv'
    BY <1>10, EnsureJobStep DEF GetResult
<1>11. ASSUME NEW j \in Jobs, OpenResult(j) PROVE PassInv'
    BY <1>11 DEF OpenResult
<1>12. ASSUME NEW j \in Jobs, CloseResult(j) PROVE PassInv'
    BY <1>12 DEF CloseResult
<1>13. ASSUME StartPass PROVE PassInv'
    BY <1>13 DEF StartPass, Step
<1>14. ASSUME NEW j \in Jobs, CleanFiles(j) PROVE PassInv'
    <2>1. /\ j \in pass.jobs /\ pass'.at = "row" /\ pass'.job = j
          /\ pass'.jobs = pass.jobs
        BY <1>14, CleanSteps
    <2>2. pass.at = "files" /\ rows' = rows /\ age' = age /\ phase' = phase
        BY <1>14 DEF CleanFiles
    <2>3. trees'[j] = NoTree
        BY <1>14, RemoveJobStep DEF CleanFiles
    <2> QED BY <2>1, <2>2, <2>3, NoTreeFields
<1>15. ASSUME CleanRow PROVE PassInv'
    <2>1. /\ pass.job \in pass.jobs /\ pass'.at = "files" /\ pass.at = "row"
          /\ pass'.jobs = pass.jobs \ {pass.job}
        BY <1>15, CleanSteps DEF CleanRow
    <2>2. age' = age /\ phase' = phase /\ \A k \in Jobs : k # pass.job => rows'[k] = rows[k]
        BY <1>15 DEF CleanRow, DeleteJob
    <2> QED BY <2>1, <2>2
<1>16. ASSUME ListRows PROVE PassInv'
    <2>1. pass \in Pass /\ Rows \in SUBSET Jobs
        BY DEF Rows
    <2>2. pass' = [pass EXCEPT !.at = "scan", !.known = Rows]
        BY <1>16 DEF ListRows, Step
    <2>3. pass'.at = "scan" /\ pass'.known = Rows /\ pass'.jobs = pass.jobs
        BY <2>1, <2>2 DEF Pass
    <2>4. /\ pass.at = "files" /\ rows' = rows /\ age' = age
          /\ phase' = phase /\ trees' = trees
        BY <1>16 DEF ListRows
    <2> QED BY <2>3, <2>4 DEF Rows
<1>17. ASSUME ScanOrphans PROVE PassInv'
    BY <1>17, RemoveOrphanedJobsStep DEF ScanOrphans, Step
<1>18. ASSUME NEW j \in Jobs, FailFiles(j) PROVE PassInv'
    <2>1. age' = age /\ rows' = rows
        BY <1>18 DEF FailFiles, Abandon
    <2>2. /\ pass'.jobs = {} /\ pass'.at \in {"asleep", "dead"}
          /\ pass'.at = "dead" => phase' = "up"
        BY <1>18 DEF FailFiles, Abandon, Step
    <2> QED BY <2>1, <2>2
<1>19. ASSUME FailPass PROVE PassInv'
    BY <1>19 DEF FailPass, Abandon, Step
<1>20. ASSUME Crash PROVE PassInv'
    BY <1>20 DEF Crash, Step
<1>21. ASSUME Restart PROVE PassInv'
    BY <1>21 DEF Restart
<1>22. ASSUME NEW j \in Jobs, RecoverQueued(j) PROVE PassInv'
    BY <1>22, EnsureJobStep DEF RecoverQueued, Recovered
<1>23. ASSUME NEW j \in Jobs, RecoverFailed(j) PROVE PassInv'
    BY <1>23 DEF RecoverFailed, Recovered, SetStatus, NonTerminal
<1>24. ASSUME NEW j \in Jobs, RecordMissingOutput(j) PROVE PassInv'
    BY <1>24 DEF RecordMissingOutput, Recovered
<1>25. ASSUME Serve PROVE PassInv'
    BY <1>25 DEF Serve
<1>26. ASSUME NEW j \in Jobs, LoseTree(j) PROVE PassInv'
    <2>1. \A k \in Jobs : k # j => trees'[k] = trees[k]
        BY <1>26, RemoveJobStep DEF LoseTree
    <2>2. trees'[j] = NoTree
        BY <1>26, RemoveJobStep DEF LoseTree
    <2>3. rows' = rows /\ age' = age /\ pass' = pass /\ phase' = phase
        BY <1>26 DEF LoseTree
    <2>4. 0 <= Grace + pass.elapsed
        BY PassFields, GraceAssumption
    <2>5. pass.at = "row" => pass.job \in Jobs
        BY PassJobsEnded
    <2> QED BY <2>1, <2>2, <2>3, <2>4, <2>5, NoTreeFields
<1>27. ASSUME Tick PROVE PassInv'
    <2>1. /\ pass'.at = pass.at /\ pass'.jobs = pass.jobs /\ pass'.job = pass.job
          /\ pass'.known = pass.known
          /\ pass.at = "scan" => pass.elapsed = 0 /\ pass'.elapsed = 1
        BY <1>27, TickKeeps
    <2>2. rows' = rows /\ phase' = phase
        BY <1>27 DEF Tick
    <2>3. \A k \in Jobs : /\ trees'[k].upload = trees[k].upload
                           /\ trees'[k].model = trees[k].model
                           /\ trees'[k].age <= trees[k].age + 1
                           /\ trees'[k].age \in Nat /\ trees[k].age \in Nat
        BY <1>27, TickKeeps, RetentionTypesStep, TreeFields
    <2>4. pass.jobs \subseteq ExpiredTerminal'
        BY <1>27, <2>2, TickKeeps, PassJobsEnded DEF ExpiredTerminal
    <2>5. pass.at = "row" => pass.job \in Jobs
        BY PassJobsEnded
    <2>6. pass.at = "scan" => \A k \in Jobs : k \notin pass.known /\ rows[k] # "absent" =>
              trees'[k].age <= Grace + 1
        BY <2>1, <2>3, GraceAssumption
    <2> QED BY <2>1, <2>2, <2>3, <2>4, <2>5, <2>6
<1>28. CASE UNCHANGED vars
    BY <1>28 DEF vars
<1> QED
    BY <1>1, <1>2, <1>3, <1>4, <1>5, <1>6, <1>7, <1>8, <1>9, <1>10, <1>11, <1>12, <1>13,
       <1>14, <1>15, <1>16, <1>17, <1>18, <1>19, <1>20, <1>21, <1>22, <1>23, <1>24,
       <1>25, <1>26, <1>27, <1>28, NextSteps

\* What the limits count.
LEMMA LimitsStep ==
    ASSUME TypeOK, RetentionInv, [Next]_vars
    PROVE  LimitsInv'
<1> USE RowsOnlyLeave DEF RetentionInv, TypeOK, passVars, processVars, recoveryVars, rowVars
<1>1. ASSUME NEW j \in Jobs, StoreUpload(j) PROVE LimitsInv'
    BY <1>1, WriteUploadStep DEF StoreUpload
<1>2. ASSUME NEW j \in Jobs, AcceptUpload(j) PROVE LimitsInv'
    BY <1>2, AcceptKeepsLimits DEF AcceptUpload
<1>3. ASSUME NEW j \in Jobs, RefuseUpload(j) PROVE LimitsInv'
    BY <1>3, RemoveJobStep DEF RefuseUpload, Answered
<1>4. ASSUME NEW j \in Jobs, StartJob(j) PROVE LimitsInv'
    BY <1>4 DEF StartJob, SetStatus, NonTerminal
<1>5. ASSUME NEW j \in Jobs, EndJob(j) PROVE LimitsInv'
    BY <1>5 DEF EndJob, SetStatus, NonTerminal
<1>6. ASSUME NEW j \in Jobs, PublishModel(j) PROVE LimitsInv'
    BY <1>6, WriteModelStep DEF PublishModel
<1>7. ASSUME NEW j \in Jobs, CompleteJob(j) PROVE LimitsInv'
    <2>1. rows[j] = "processing"
        BY <1>7, RetentionAssumption DEF CompleteJob, PublishInv
    <2> QED BY <1>7, <2>1 DEF CompleteJob, SetStatus, NonTerminal
<1>8. ASSUME NEW j \in Jobs, ReadStatus(j) PROVE LimitsInv'
    BY <1>8, EnsureJobStep DEF ReadStatus
<1>9. ASSUME NEW j \in Jobs, AskResult(j) PROVE LimitsInv'
    BY <1>9 DEF AskResult
<1>10. ASSUME NEW j \in Jobs, GetResult(j) PROVE LimitsInv'
    BY <1>10, EnsureJobStep DEF GetResult
<1>11. ASSUME NEW j \in Jobs, OpenResult(j) PROVE LimitsInv'
    BY <1>11 DEF OpenResult
<1>12. ASSUME NEW j \in Jobs, CloseResult(j) PROVE LimitsInv'
    BY <1>12 DEF CloseResult
<1>13. ASSUME StartPass PROVE LimitsInv'
    BY <1>13 DEF StartPass, Step
<1>14. ASSUME NEW j \in Jobs, CleanFiles(j) PROVE LimitsInv'
    BY <1>14, RemoveJobStep DEF CleanFiles, Step
<1>15. ASSUME CleanRow PROVE LimitsInv'
    BY <1>15 DEF CleanRow, DeleteJob, NonTerminal
<1>16. ASSUME ListRows PROVE LimitsInv'
    BY <1>16 DEF ListRows, Step
<1>17. ASSUME ScanOrphans PROVE LimitsInv'
    BY <1>17, RemoveOrphanedJobsStep DEF ScanOrphans, Step
<1>18. ASSUME NEW j \in Jobs, FailFiles(j) PROVE LimitsInv'
    BY <1>18, FailFilesStep DEF FailFiles, Abandon, Step
<1>19. ASSUME FailPass PROVE LimitsInv'
    BY <1>19 DEF FailPass, Abandon, Step
<1>20. ASSUME Crash PROVE LimitsInv'
    BY <1>20 DEF Crash, Step
<1>21. ASSUME Restart PROVE LimitsInv'
    BY <1>21 DEF Restart
<1>22. ASSUME NEW j \in Jobs, RecoverQueued(j) PROVE LimitsInv'
    BY <1>22, EnsureJobStep DEF RecoverQueued, Recovered
<1>23. ASSUME NEW j \in Jobs, RecoverFailed(j) PROVE LimitsInv'
    BY <1>23 DEF RecoverFailed, Recovered, SetStatus, NonTerminal
<1>24. ASSUME NEW j \in Jobs, RecordMissingOutput(j) PROVE LimitsInv'
    BY <1>24 DEF RecordMissingOutput, Recovered
<1>25. ASSUME Serve PROVE LimitsInv'
    BY <1>25 DEF Serve
<1>26. ASSUME NEW j \in Jobs, LoseTree(j) PROVE LimitsInv'
    BY <1>26, RemoveJobStep DEF LoseTree
<1>27. ASSUME Tick PROVE LimitsInv'
    <2>1. age' \in [Jobs -> 0..Retention]
        BY <1>27, RetentionTypesStep
    <2>2. \A k \in Jobs : rows[k] # "absent" => age[k] <= age'[k]
        BY <1>27, TickKeeps
    <2> QED BY <1>27, <2>1, <2>2 DEF Tick
<1>28. CASE UNCHANGED vars
    BY <1>28 DEF vars
<1> QED
    BY <1>1, <1>2, <1>3, <1>4, <1>5, <1>6, <1>7, <1>8, <1>9, <1>10, <1>11, <1>12, <1>13,
       <1>14, <1>15, <1>16, <1>17, <1>18, <1>19, <1>20, <1>21, <1>22, <1>23, <1>24,
       <1>25, <1>26, <1>27, <1>28, NextSteps

-------------------------------------------------------------------------------
(* The theorems *)

\* Nothing is there in the beginning.
LEMMA RetentionInvInit == Init => RetentionInv
<1> SUFFICES ASSUME Init PROVE RetentionInv
    OBVIOUS
<1>1. ASSUME NEW j \in Jobs PROVE Clocks(j) /\ Files(j)
    BY NoTreeFields, AdmissionAssumption
        DEF Init, Clocks, Files, Torn, NonTerminal
<1>2. LimitsInv
    <2>1. Rows = {} /\ Pending = {} /\ Recent = {} /\ Recent \cap SameInput = {}
        BY DEF Init, Rows, Pending, Recent, NonTerminal
    <2>2. limits \in [pending : Nat \ {0}, recent : Nat \ {0}, identical : Nat \ {0}]
        BY AdmissionAssumption DEF Init
    <2>3. limits.pending >= 0 /\ limits.recent >= 0 /\ limits.identical >= 0
        BY <2>2
    <2> QED BY <2>1, <2>3, FS_EmptySet DEF LimitsInv, PendingBounded
<1>3. PassInv
    BY AsleepFields DEF Init, PassInv, Cleaning
<1>4. PublishInv /\ MissingIsReal
    BY DEF Init, PublishInv, MissingIsReal
<1> QED BY <1>1, <1>2, <1>3, <1>4 DEF RetentionInv

\* RetentionInv is inductive.
THEOREM RetentionAlways == Spec => []RetentionInv
<1>1. TypeOK /\ RetentionInv /\ [Next]_vars => RetentionInv'
    <2> SUFFICES ASSUME TypeOK, RetentionInv, [Next]_vars PROVE RetentionInv'
        OBVIOUS
    <2>1. \A j \in Jobs : Clocks(j)' /\ Files(j)'
        BY ClocksStep, FilesStep
    <2>2. LimitsInv' /\ PassInv' /\ PublishInv' /\ MissingIsReal'
        BY LimitsStep, PassStep, PublishStep, MissingStep
    <2> QED BY <2>1, <2>2 DEF RetentionInv
<1> QED BY <1>1, RetentionInvInit, RetentionTypeCorrect, PTL DEF Spec

\* PendingBounded: accept_job never admits more than max_pending_jobs, whoever
\* uploads at the same time, and whatever recovery puts back.
THEOREM PendingWithinLimit == Spec => []PendingBounded
<1>1. RetentionInv => PendingBounded
    BY DEF RetentionInv, LimitsInv
<1> QED BY <1>1, RetentionAlways, PTL

\* RateBounded: what was committed within a minute, less the time from created_at to
\* the commit, is still counted by accept_job, which counts by created_at.
THEOREM RateWithinLimits == Spec => []RateBounded
<1>1. TypeOK /\ RetentionInv => RateBounded
    <2> SUFFICES ASSUME TypeOK, RetentionInv PROVE RateBounded
        OBVIOUS
    <2> DEFINE committed == {j \in Jobs : accepted[j] <= Window - MaxDelay}
    <2>1. committed \subseteq Recent
        <3> SUFFICES ASSUME NEW j \in committed PROVE j \in Recent
            OBVIOUS
        <3>1. rows[j] # "absent" /\ age[j] <= accepted[j] + MaxDelay
            BY DEF RetentionInv, Clocks
        <3>2. accepted[j] \in Nat /\ age[j] \in Nat
            BY AdmissionAssumption DEF TypeOK
        <3>3. age[j] <= Window
            BY <3>1, <3>2, AdmissionAssumption
        <3> QED BY <3>1, <3>3 DEF Recent, Rows
    <2>2. IsFiniteSet(Recent)
        BY CountedSets, PartCountsLess DEF RetentionInv, LimitsInv
    <2>3. /\ Cardinality(committed) <= Cardinality(Recent)
          /\ Cardinality(committed) \in Nat /\ Cardinality(Recent) \in Nat
        BY <2>1, <2>2, PartCountsLess
    <2>4. /\ committed \cap SameInput \in SUBSET (Recent \cap SameInput)
          /\ IsFiniteSet(Recent \cap SameInput)
        BY <2>1, <2>2, PartCountsLess
    <2>5. /\ Cardinality(committed \cap SameInput) <= Cardinality(Recent \cap SameInput)
          /\ Cardinality(committed \cap SameInput) \in Nat
          /\ Cardinality(Recent \cap SameInput) \in Nat
        BY <2>4, PartCountsLess
    <2>6. Cardinality(committed) <= limits.recent
        BY <2>3, LimitFields DEF RetentionInv, LimitsInv
    <2>7. Cardinality(committed \cap SameInput) <= limits.identical
        BY <2>5, LimitFields DEF RetentionInv, LimitsInv
    <2> QED BY <2>6, <2>7 DEF RateBounded
<1> QED BY <1>1, RetentionAlways, RetentionTypeCorrect, PTL

\* LiveFilesKept: no cleanup, scan or late read takes what is still needed.
THEOREM NeededFilesKept == Spec => []LiveFilesKept
<1>1. RetentionInv => LiveFilesKept
    BY DEF RetentionInv, Files, Torn, LiveFilesKept
<1> QED BY <1>1, RetentionAlways, PTL

\* FilesHaveRows: only a crash leaves the files of an upload without a row, and
\* no model outlives its row.
THEOREM LeftFilesHaveRows == Spec => []FilesHaveRows
<1>1. RetentionInv => FilesHaveRows
    BY DEF RetentionInv, Files, FilesHaveRows
<1> QED BY <1>1, RetentionAlways, PTL

\* MissingIsReal: recovery reports a model as missing only if it was lost, and once.
THEOREM ReportsAreReal == Spec => []MissingIsReal
<1>1. RetentionInv => MissingIsReal
    BY DEF RetentionInv
<1> QED BY <1>1, RetentionAlways, PTL

===============================================================================
