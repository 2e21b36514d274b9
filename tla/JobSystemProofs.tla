---------------------------- MODULE JobSystemProofs ----------------------------
(***************************************************************************)
(* Theorems about JobSystem for every set of jobs, every bound, and any    *)
(* number of crashes, faults and clients.  First its types.  Then a job's  *)
(* prompt is sent at most once (AtMostOneSubmission), from SubmissionInv.  *)
(* Then the GPU slot: one job at a time is between its reservation and its *)
(* end (SerialExecution), only that job has a live engine handle           *)
(* (HandleOwnsSlot), and what waits can be claimed (QueueIsClaimable); the *)
(* three are parts of SlotInv, inductive on top of SubmissionInv.          *)
(***************************************************************************)
EXTENDS JobSystem, DispatcherProofs

-------------------------------------------------------------------------------
(* Types *)

\* The types of a job's fields.
LEMMA JobFields ==
    ASSUME NEW job \in Job
    PROVE  /\ job.status \in JobState \cup {"absent"}
           /\ job.seq \in Nat /\ job.attempts \in Nat /\ job.progress \in Nat
BY DEF Job

\* Every change of a job is again a job.
LEMMA JobUpdates ==
    ASSUME NEW job \in Job
    PROVE  /\ \A target \in JobState : Transitioned(job, target) \in Job
           /\ \A p \in Nat : WithProgress(job, p) \in Job
           /\ \A p \in Nat : [job EXCEPT !.progress = p] \in Job
           /\ \A n \in Nat : [job EXCEPT !.seq = n] \in Job
           /\ \A n \in Nat : [job EXCEPT !.attempts = n] \in Job
           /\ [job EXCEPT !.engine = TRUE] \in Job
<1>1. job.seq \in Nat
    BY JobFields
<1>2. ASSUME NEW target \in JobState PROVE Transitioned(job, target) \in Job
    <2>1. Transitioned(job, target) = [job EXCEPT !.status = target, !.seq = job.seq + 1]
        BY DEF Transitioned
    <2>2. job.seq + 1 \in Nat
        BY <1>1
    <2> QED BY <2>1, <2>2 DEF Job
<1>3. ASSUME NEW p \in Nat PROVE WithProgress(job, p) \in Job
    <2>1. WithProgress(job, p) = [job EXCEPT !.progress = p, !.seq = job.seq + 1]
        BY DEF WithProgress
    <2>2. job.seq + 1 \in Nat
        BY <1>1
    <2> QED BY <2>1, <2>2 DEF Job
<1>4. \A n \in Nat : /\ [job EXCEPT !.progress = n] \in Job
                     /\ [job EXCEPT !.seq = n] \in Job
                     /\ [job EXCEPT !.attempts = n] \in Job
    BY DEF Job
<1>5. [job EXCEPT !.engine = TRUE] \in Job
    BY DEF Job
<1> QED BY <1>1, <1>2, <1>3, <1>4, <1>5

\* The two constant jobs are jobs.
LEMMA JobConstants == Absent \in Job /\ Accepted \in Job
BY DEF Absent, Accepted, Job, JobState, NonTerminal, Terminal

\* The object a task works on is a job.
LEMMA ObjectTypes ==
    ASSUME TypeOK, NEW j \in Jobs
    PROVE  /\ mem[j] \in Job /\ row[j] \in Job
           /\ Loaded(j) \in Job /\ JobObject(j) \in Job /\ LastSequence(j) \in Nat
<1>1. mem[j] \in Job /\ row[j] \in Job
    BY DEF TypeOK, StoreTypeOK, ServiceTypeOK
<1>2. Loaded(j) \in Job /\ LastSequence(j) \in Nat
    BY <1>1, JobUpdates, JobFields DEF Loaded, LastSequence
<1> QED BY <1>1, <1>2 DEF JobObject

\* The changes the service makes to an object or to a row.
LEMMA ChangeTypes ==
    ASSUME TypeOK, NEW j \in Jobs
    PROVE  /\ \A target \in JobState : [mem EXCEPT ![j] = Transitioned(@, target)] \in [Jobs -> Job]
           /\ \A p \in Nat : [mem EXCEPT ![j] =
                  IF @.status = "processing"
                  THEN WithProgress(@, p)
                  ELSE [Transitioned(@, "processing") EXCEPT !.progress = p]] \in [Jobs -> Job]
           /\ [mem EXCEPT ![j].attempts = 1] \in [Jobs -> Job]
           /\ [row EXCEPT ![j].attempts = @ + 1] \in [Jobs -> Job]
           /\ [row EXCEPT ![j].seq = @ + 1] \in [Jobs -> Job]
           /\ [prompts EXCEPT ![j] = @ + 1] \in [Jobs -> Nat]
<1>1. mem \in [Jobs -> Job] /\ row \in [Jobs -> Job] /\ prompts \in [Jobs -> Nat]
    BY DEF TypeOK, StoreTypeOK, ServiceTypeOK
<1>2. mem[j] \in Job /\ row[j] \in Job
    BY <1>1
<1>3. \A target \in JobState : Transitioned(mem[j], target) \in Job
    BY <1>2, JobUpdates
<1>4. \A p \in Nat : WithProgress(mem[j], p) \in Job
    BY <1>2, JobUpdates
<1>5. \A p \in Nat : [Transitioned(mem[j], "processing") EXCEPT !.progress = p] \in Job
    <2>1. "processing" \in JobState
        BY DEF JobState, NonTerminal
    <2>2. Transitioned(mem[j], "processing") \in Job
        BY <1>3, <2>1
    <2> QED BY <2>2, JobUpdates
<1>6. /\ [mem[j] EXCEPT !.attempts = 1] \in Job
      /\ [row[j] EXCEPT !.attempts = row[j].attempts + 1] \in Job
      /\ [row[j] EXCEPT !.seq = row[j].seq + 1] \in Job
    <2>1. row[j].attempts + 1 \in Nat /\ row[j].seq + 1 \in Nat
        BY <1>2, JobFields
    <2> QED BY <1>2, <2>1, JobUpdates
<1>7. prompts[j] + 1 \in Nat
    BY <1>1
<1> QED BY <1>1, <1>3, <1>4, <1>5, <1>6, <1>7

\* A new task joins the line, or its holder leaves it.
LEMMA LineTypes ==
    ASSUME TypeOK
    PROVE  /\ \A by \in By, j \in Jobs : Append(line, Task(by, j)) \in Seq(LockTask)
           /\ line # <<>> => Tail(line) \in Seq(LockTask) /\ Head(line) \in LockTask
<1>1. line \in Seq(LockTask)
    BY DEF TypeOK, ServiceTypeOK
<1>2. \A by \in By, j \in Jobs : Task(by, j) \in LockTask
    BY DEF Task, LockTask
<1> QED BY <1>1, <1>2

\* What the guards of a lock step say of the holder.
LEMMA ReleaseTypes ==
    ASSUME TypeOK, NEW j, NEW by, Holds(by, j)
    PROVE  Tail(line) \in Seq(LockTask)
BY LineTypes DEF Holds

\* Every variable keeps its type (TypeOK), through crashes and recovery too.
THEOREM TypeCorrect == Spec => []TypeOK
<1>1. Init => TypeOK
    <2> SUFFICES ASSUME Init PROVE TypeOK
        OBVIOUS
    <2>1. DispatcherTypeOK
        BY DEF Init, DispatcherInit, DispatcherTypeOK
    <2>2. StoreTypeOK
        BY JobConstants DEF Init, StoreInit, StoreTypeOK
    <2>3. ServiceTypeOK
        <3>1. raised \in BOOLEAN
            BY DEF Init, ServiceInit
        <3>2. /\ told \in [Jobs -> Terminal \cup {"nothing"}] /\ prompts \in [Jobs -> Nat]
              /\ creating \in [Jobs -> {"idle", "accepting", "accepted", "known", "lost"}]
              /\ preceding \in [Jobs -> SUBSET Jobs] /\ mem \in [Jobs -> Job]
            BY JobConstants DEF Init, ServiceInit
        <3> QED BY <3>1, <3>2 DEF Init, ServiceInit, ServiceTypeOK, At
    <2> QED BY <2>1, <2>2, <2>3 DEF TypeOK
<1>2. TypeOK /\ [Next]_vars => TypeOK'
    <2> SUFFICES ASSUME TypeOK, [Next]_vars PROVE TypeOK'
        OBVIOUS
    <2>0. CASE UNCHANGED vars
        BY <2>0 DEF vars, TypeOK, DispatcherTypeOK, StoreTypeOK, ServiceTypeOK, dispatcherVars,
            storeVars, memoryVars, lockVars, uploadVars, lifeVars
    <2> USE DEF TypeOK, DispatcherTypeOK, StoreTypeOK, ServiceTypeOK, dispatcherVars,
            storeVars, memoryVars, lockVars, uploadVars, lifeVars
    <2>1. CASE WorkerTick
        <3>0. (IF active # NoJob THEN active ELSE Head(queue)) \in Jobs
            BY <2>1 DEF WorkerTick
        <3>1. PICK j \in Jobs : /\ mem' = [mem EXCEPT ![j] = JobObject(j)]
                                /\ line' = Append(line, Task("worker", j))
            BY <2>1, <3>0 DEF WorkerTick
        <3>2. mem' \in [Jobs -> Job] /\ line' \in Seq(LockTask)
            BY <3>1, ObjectTypes, LineTypes DEF By
        <3> QED BY <2>1, <3>2 DEF WorkerTick
    <2>2. ASSUME NEW j \in Jobs, Poll(j) PROVE TypeOK'
        BY <2>2, LineTypes, ObjectTypes DEF Poll, Join, By, IsTerminal
    <2>3. ASSUME NEW j \in Jobs, AskCancel(j) PROVE TypeOK'
        BY <2>3, LineTypes DEF AskCancel, Join, By
    <2>4. ASSUME NEW j \in Jobs, BeginUpload(j) PROVE TypeOK'
        BY <2>4 DEF BeginUpload
    <2>5. ASSUME NEW j \in Jobs, CommitUpload(j) PROVE TypeOK'
        BY <2>5, JobConstants DEF CommitUpload, AcceptJob
    <2>6. ASSUME NEW j \in Jobs, RefuseUpload(j) PROVE TypeOK'
        BY <2>6 DEF RefuseUpload
    <2>7. ASSUME NEW j \in Jobs, FinishUpload(j) PROVE TypeOK'
        BY <2>7, JobConstants DEF FinishUpload, Enqueue
    <2>8. ASSUME NEW j \in Jobs, AdvanceTerminal(j) PROVE TypeOK'
        BY <2>8, ReleaseTypes DEF AdvanceTerminal, Advancing, Release, At
    <2>9. ASSUME NEW j \in Jobs, ClaimNothing(j) PROVE TypeOK'
        BY <2>9, ReleaseTypes DEF ClaimNothing, Unsubmitted, Advancing, Release, At
    <2>10. ASSUME NEW j \in Jobs, ClaimOther(j) PROVE TypeOK'
        BY <2>10, ReleaseTypes DEF ClaimOther, ClaimNext, NothingToClaim, Unsubmitted, Advancing, Release, At
    <2>11. ASSUME NEW j \in Jobs, ClaimOwn(j) PROVE TypeOK'
        <3>1. Holds({"worker", "poll"}, j) /\ queue # <<>>
            BY <2>11 DEF ClaimOwn, Unsubmitted, Advancing, NothingToClaim
        <3>2. Tail(queue) \in Seq(Jobs) /\ Tail(line) \in Seq(LockTask)
            BY <3>1, ReleaseTypes
        <3> QED BY <2>11, <3>2 DEF ClaimOwn, Release, At
    <2>12. ASSUME NEW j \in Jobs, Reserve(j) PROVE TypeOK'
        <3>1. Tail(line) \in Seq(LockTask)
            BY <2>12, ReleaseTypes DEF Reserve, Advancing
        <3>2. CASE Reservable(j)
            <4>1. /\ row' = [row EXCEPT ![j].attempts = @ + 1]
                  /\ mem' = [mem EXCEPT ![j].attempts = 1]
                BY <2>12, <3>2, Zenon DEF Reserve, ReserveSubmission
            <4>2. row' \in [Jobs -> Job]
                BY <4>1, ChangeTypes, Zenon
            <4>3. mem' \in [Jobs -> Job]
                BY <4>1, ChangeTypes, Zenon
            <4> QED BY <2>12, <3>2, <4>2, <4>3 DEF Reserve, ReserveSubmission, At
        <3>3. CASE ~Reservable(j)
            BY <2>12, <3>1, <3>3 DEF Reserve, Complete, Release, At
        <3> QED BY <3>2, <3>3
    <2>13. ASSUME NEW j \in Jobs, SubmitAccepted(j) PROVE TypeOK'
        BY <2>13, ReleaseTypes, ObjectTypes, JobUpdates DEF SubmitAccepted, At
    <2>14. ASSUME NEW j \in Jobs, SaveHandle(j) PROVE TypeOK'
        <3>1. [mem[j] EXCEPT !.seq = row[j].seq] \in Job
            BY ObjectTypes, JobUpdates, JobFields
        <3> QED BY <2>14, <3>1 DEF SaveHandle, UpdateJob, At
    <2>15. ASSUME NEW j \in Jobs, FirstInspect(j) PROVE TypeOK'
        BY <2>15, ReleaseTypes DEF FirstInspect, Advancing, Release, At
    <2>16. ASSUME NEW j \in Jobs, SubmitRefused(j) PROVE TypeOK'
        BY <2>16, ObjectTypes, JobUpdates DEF SubmitRefused, GiveUp, At, JobState, Terminal
    <2>17. ASSUME NEW j \in Jobs, SubmitAnswerLost(j) PROVE TypeOK'
        BY <2>17, ReleaseTypes, ChangeTypes DEF SubmitAnswerLost, GiveUp, At, JobState, Terminal
    <2>18. ASSUME NEW j \in Jobs, SubmissionRaises(j) PROVE TypeOK'
        <3>1. mem' \in [Jobs -> Job]
            BY <2>18, ChangeTypes DEF SubmissionRaises, GiveUp, JobState, Terminal
        <3>2. faults' \in Nat
            BY <2>18 DEF SubmissionRaises, Raises
        <3> QED BY <2>18, <3>1, <3>2 DEF SubmissionRaises, GiveUp, At
    <2>19. ASSUME NEW j \in Jobs, GiveUpCommit(j) PROVE TypeOK'
        BY <2>19, ReleaseTypes, ObjectTypes, JobUpdates DEF GiveUpCommit, PersistTransition, Complete, Advancing, Release, At
    <2>20. ASSUME NEW j \in Jobs, InspectQueued(j) PROVE TypeOK'
        BY <2>20, ReleaseTypes DEF InspectQueued, Inspecting, Advancing, Release, At
    <2>21. ASSUME NEW j \in Jobs, InspectProcessing(j) PROVE TypeOK'
        <3>1. Tail(line) \in Seq(LockTask)
            BY <2>21, ReleaseTypes DEF InspectProcessing, Inspecting, Advancing
        <3>2. PICK p \in mem[j].progress .. MaxProgress :
                  \/ Release /\ UNCHANGED mem
                  \/ /\ mem' = [mem EXCEPT ![j] =
                                IF @.status = "processing"
                                THEN WithProgress(@, p)
                                ELSE [Transitioned(@, "processing") EXCEPT !.progress = p]]
                     /\ at' = "persist"
                     /\ UNCHANGED line
            BY <2>21 DEF InspectProcessing
        <3>3. p \in Nat
            <4>1. mem[j].progress \in Nat
                BY ObjectTypes, JobFields
            <4> QED BY <4>1, ServiceAssumption
        <3>4. mem' \in [Jobs -> Job]
            <4>1. CASE Release /\ UNCHANGED mem
                BY <4>1
            <4>2. CASE ~(Release /\ UNCHANGED mem)
                <5> DEFINE next(q) == [mem EXCEPT ![j] =
                                          IF @.status = "processing"
                                          THEN WithProgress(@, q)
                                          ELSE [Transitioned(@, "processing") EXCEPT !.progress = q]]
                <5>1. next(p) \in [Jobs -> Job]
                    BY <3>3, ChangeTypes
                <5>2. mem' = next(p)
                    BY <3>2, <4>2
                <5> QED BY <5>1, <5>2
            <4> QED BY <4>1, <4>2
        <3> QED BY <2>21, <3>1, <3>2, <3>4 DEF InspectProcessing, Release, At
    <2>22. ASSUME NEW j \in Jobs, InspectSucceeded(j) PROVE TypeOK'
        <3>1. PICK target \in JobState, step \in At : Change(j, target, step)
            BY <2>22 DEF InspectSucceeded, Decide, JobState, NonTerminal, Terminal, At
        <3>2. mem' \in [Jobs -> Job]
            BY <3>1, ChangeTypes DEF Change
        <3> QED BY <2>22, <3>1, <3>2 DEF InspectSucceeded, Change
    <2>23. ASSUME NEW j \in Jobs, InspectEnded(j) PROVE TypeOK'
        <3>1. PICK target \in JobState, step \in At : Change(j, target, step)
            BY <2>23 DEF InspectEnded, Decide, JobState, NonTerminal, Terminal, At
        <3>2. mem' \in [Jobs -> Job]
            BY <3>1, ChangeTypes DEF Change
        <3> QED BY <2>23, <3>1, <3>2 DEF InspectEnded, Change
    <2>24. ASSUME NEW j \in Jobs, BridgeCommit(j) PROVE TypeOK'
        BY <2>24, ReleaseTypes, ObjectTypes, JobUpdates DEF BridgeCommit, PersistTransition, Change, At, JobState, Terminal
    <2>25. ASSUME NEW j \in Jobs, PersistCommit(j) PROVE TypeOK'
        BY <2>25, ReleaseTypes, ObjectTypes, JobUpdates DEF PersistCommit, PersistTransition, Complete, Advancing, Release, At
    <2>26. ASSUME NEW j \in Jobs, InspectRaises(j) PROVE TypeOK'
        BY <2>26, ReleaseTypes DEF InspectRaises, Inspecting, Advancing, Raises, Release, At
    <2>27. ASSUME NEW j \in Jobs, PersistRaises(j) PROVE TypeOK'
        BY <2>27, ReleaseTypes DEF PersistRaises, Advancing, Raises, Release, At
    <2>28. ASSUME NEW j \in Jobs, CancelStart(j) PROVE TypeOK'
        BY <2>28, ReleaseTypes, ObjectTypes, JobUpdates DEF CancelStart, Cancelling, Release, At, Terminal
    <2>29. ASSUME NEW j \in Jobs, CancelRead(j) PROVE TypeOK'
        BY <2>29, ReleaseTypes, ObjectTypes, JobUpdates, RemoveFirstProperties DEF CancelRead, CancelPending, At, JobState, Terminal
    <2>30. ASSUME NEW j \in Jobs, CancelCommit(j) PROVE TypeOK'
        BY <2>30, ReleaseTypes, ObjectTypes, JobUpdates DEF CancelCommit, Cancelling, PersistTransition, Release, At, Terminal
    <2>31. ASSUME NEW j \in Jobs, CancelRaises(j) PROVE TypeOK'
        BY <2>31, ReleaseTypes DEF CancelRaises, Cancelling, Raises, Release, At
    <2>32. ASSUME NEW j \in Jobs, Rehydrate(j) PROVE TypeOK'
        <3>1. [Loaded(j) EXCEPT !.seq = LastSequence(j)] \in Job
            BY ObjectTypes, JobUpdates
        <3>2. mem' \in [Jobs -> Job]
            BY <2>32, <3>1 DEF Rehydrate
        <3> QED BY <2>32, <3>2 DEF Rehydrate, Enqueue
    <2>33. ASSUME NEW j \in Jobs, FailQueued(j) PROVE TypeOK'
        BY <2>33, ReleaseTypes, ObjectTypes, JobUpdates DEF FailQueued, MarkRestartFailure, WriteRecovered, PersistTransition, At, JobState, Terminal
    <2>34. ASSUME NEW j \in Jobs, ReportOrphan(j) PROVE TypeOK'
        BY <2>34, ReleaseTypes, ChangeTypes DEF ReportOrphan, AppendOrphanEvent, At
    <2>35. ASSUME NEW j \in Jobs, FailProcessing(j) PROVE TypeOK'
        BY <2>35, ReleaseTypes, ObjectTypes, JobUpdates DEF FailProcessing, MarkRestartFailure, WriteRecovered, PersistTransition, At, JobState, Terminal
    <2>36. CASE Crash
        <3>1. raised' \in BOOLEAN
            BY <2>36 DEF Crash
        <3>2. /\ creating' \in [Jobs -> {"idle", "accepting", "accepted", "known", "lost"}]
              /\ mem' \in [Jobs -> Job]
            BY <2>36, JobConstants DEF Crash
        <3> QED BY <2>36, <3>1, <3>2 DEF Crash, At
    <2>37. CASE Restart
        BY <2>37 DEF Restart
    <2>38. CASE Serve
        BY <2>38 DEF Serve
    <2> QED
        BY <2>0, <2>1, <2>2, <2>3, <2>4, <2>5, <2>6, <2>7, <2>8, <2>9, <2>10, <2>11, <2>12,
            <2>13, <2>14, <2>15, <2>16, <2>17, <2>18, <2>19, <2>20, <2>21, <2>22, <2>23,
            <2>24, <2>25, <2>26, <2>27, <2>28, <2>29, <2>30, <2>31, <2>32, <2>33, <2>34,
            <2>35, <2>36, <2>37, <2>38
        DEF Next, Upload, LockStep, Submission, Inspection, Cancellation, Recover
<1> QED BY <1>1, <1>2, PTL DEF Spec

-------------------------------------------------------------------------------
(* What the changes of a job keep *)

\* Fields of a changed job.
LEMMA ChangedFields ==
    ASSUME NEW job \in Job
    PROVE  /\ \A target \in JobState :
                  /\ Transitioned(job, target).status = target
                  /\ Transitioned(job, target).attempts = job.attempts
           /\ \A p \in Nat :
                  /\ WithProgress(job, p).status = job.status
                  /\ WithProgress(job, p).attempts = job.attempts
           /\ \A n \in Nat :
                  /\ [job EXCEPT !.seq = n].status = job.status
                  /\ [job EXCEPT !.seq = n].attempts = job.attempts
                  /\ [job EXCEPT !.progress = n].status = job.status
                  /\ [job EXCEPT !.progress = n].attempts = job.attempts
                  /\ [job EXCEPT !.attempts = n].status = job.status
                  /\ [job EXCEPT !.attempts = n].attempts = n
           /\ [job EXCEPT !.engine = TRUE].status = job.status
           /\ [job EXCEPT !.engine = TRUE].attempts = job.attempts
BY DEF Transitioned, WithProgress, Job

\* Fields of the two constant jobs.
LEMMA ConstantFields ==
    /\ Absent.status = "absent" /\ Absent.attempts = 0
    /\ Accepted.status = "queued" /\ Accepted.attempts = 0
BY DEF Absent, Accepted

\* An object a task works on agrees with its row on the count of attempts.
LEMMA ObjectAgrees ==
    ASSUME TypeOK, SubmissionInv, NEW j \in Jobs
    PROVE  /\ Loaded(j).attempts = row[j].attempts
           /\ JobObject(j).status # "absent" => JobObject(j).attempts = row[j].attempts
           /\ Held(j) => JobObject(j) = mem[j]
<1>1. Loaded(j).attempts = row[j].attempts
    BY ObjectTypes, ChangedFields DEF Loaded
<1>2. Held(j) => JobObject(j) = mem[j]
    BY ConstantFields DEF Held, JobObject
<1>3. ~Held(j) => mem[j] = Absent \/ JobObject(j) = mem[j]
    BY DEF JobObject
<1> QED BY <1>1, <1>2, <1>3 DEF JobObject, SubmissionInv, Held

\* A sequence that grows by one element or loses its first.
LEMMA GrownSequence ==
    ASSUME NEW S, NEW s \in Seq(S), NEW e \in S
    PROVE  /\ \A i \in DOMAIN Append(s, e) :
                  Append(s, e)[i] = e \/ (i \in DOMAIN s /\ Append(s, e)[i] = s[i])
           /\ Append(s, e) # <<>>
           /\ s # <<>> => Head(Append(s, e)) = Head(s)
<1> DEFINE t == Append(s, e)
<1>1. /\ t \in Seq(S) /\ t # <<>> /\ Len(t) = Len(s) + 1
      /\ \A i \in 1 .. Len(s) : t[i] = s[i]
      /\ t[Len(s) + 1] = e
    BY AppendProperties
<1> HIDE DEF t
<1>2. Len(s) \in Nat /\ DOMAIN s = 1 .. Len(s) /\ DOMAIN t = 1 .. Len(t)
    BY <1>1
<1>3. \A i \in DOMAIN t : t[i] = e \/ (i \in DOMAIN s /\ t[i] = s[i])
    BY <1>1, <1>2
<1>4. s # <<>> => Head(s) = s[1] /\ Len(s) >= 1 /\ Head(t) = t[1]
    BY <1>1
<1>5. s # <<>> => Head(t) = Head(s)
    BY <1>1, <1>2, <1>4
<1> QED BY <1>1, <1>3, <1>5 DEF t

LEMMA ShrunkSequence ==
    ASSUME NEW S, NEW s \in Seq(S), s # <<>>
    PROVE  /\ Head(s) = s[1] /\ 1 \in DOMAIN s
           /\ \A i \in DOMAIN Tail(s) : i + 1 \in DOMAIN s /\ Tail(s)[i] = s[i + 1]
OBVIOUS

\* A step that changes the object of the lock's holder, keeps its count of
\* attempts, and leaves the queue, the line and the outside alone.
LEMMA HolderChange ==
    ASSUME TypeOK, SubmissionInv,
           NEW j \in Jobs, NEW job \in Job,
           line # <<>>, Head(line).job = j,
           job.status # "absent", job.attempts = row[j].attempts,
           mem' = [mem EXCEPT ![j] = job],
           \A k \in Jobs : /\ row'[k].attempts = row[k].attempts
                           /\ row'[k].status = "absent" <=> row[k].status = "absent",
           at' # "submit",
           prompts' = prompts \/ (prompts' = [prompts EXCEPT ![j] = @ + 1] /\ prompts[j] = 0 /\ row[j].attempts = 1),
           UNCHANGED <<queue, active, line, handles, creating, phase>>
    PROVE  SubmissionInv'
<1> USE DEF SubmissionInv, Held
<1>1. /\ queue \in Seq(Jobs) /\ active \in Jobs \cup {NoJob} /\ mem \in [Jobs -> Job]
      /\ line \in Seq(LockTask) /\ prompts \in [Jobs -> Nat] /\ handles \subseteq Jobs
    BY DEF TypeOK, DispatcherTypeOK, StoreTypeOK, ServiceTypeOK
<1>2. \A k \in Jobs : mem'[k] = IF k = j THEN job ELSE mem[k]
    BY <1>1
<1>3. \A k \in Jobs : Held(k) => Held(k)'
    BY <1>2
<1>4. creating[j] \in {"known", "lost"}
    BY <1>1, ShrunkSequence
<1>5. \A k \in Jobs : prompts'[k] <= row'[k].attempts /\ row'[k].attempts <= 1
    BY <1>1
<1>6. \A i \in DOMAIN queue : queue[i] \in Jobs
    BY <1>1
<1> HIDE DEF Held
<1>7. at' \notin {"start", "orphaned"} => line' # <<>> /\ Held(Head(line).job)'
    BY <1>2 DEF Held
<1> QED BY <1>1, <1>2, <1>3, <1>4, <1>5, <1>6, <1>7 DEF Held

\* A client's task, or the worker's, joins the line.
LEMMA JoinChange ==
    ASSUME TypeOK, SubmissionInv,
           NEW by \in By, NEW j \in Jobs,
           creating[j] \in {"known", "lost"},
           line' = Append(line, Task(by, j)),
           UNCHANGED <<mem, row, queue, active, at, handles, prompts, creating, phase>>
    PROVE  SubmissionInv'
<1>1. line \in Seq(LockTask) /\ Task(by, j) \in LockTask /\ Task(by, j).job = j
    BY DEF TypeOK, ServiceTypeOK, Task, LockTask
<1>2. /\ \A i \in DOMAIN line' : line'[i].job = j \/ (i \in DOMAIN line /\ line'[i] = line[i])
      /\ line' # <<>>
      /\ line # <<>> => Head(line') = Head(line)
    BY <1>1, GrownSequence
<1> HIDE DEF Task
<1>3. \A i \in DOMAIN line' : creating[line'[i].job] \in {"known", "lost"}
    BY <1>2 DEF SubmissionInv
<1> QED BY <1>2, <1>3 DEF SubmissionInv, Held

\* Every step of the system keeps SubmissionInv.
LEMMA SubmissionStep ==
    ASSUME TypeOK, TypeOK', SubmissionInv, [Next]_vars
    PROVE  SubmissionInv'
<1> USE DEF SubmissionInv, Held, dispatcherVars, storeVars, memoryVars, lockVars, uploadVars, lifeVars
<1>T. /\ queue \in Seq(Jobs) /\ active \in Jobs \cup {NoJob} /\ mem \in [Jobs -> Job]
      /\ row \in [Jobs -> Job] /\ line \in Seq(LockTask) /\ prompts \in [Jobs -> Nat]
      /\ creating \in [Jobs -> {"idle", "accepting", "accepted", "known", "lost"}]
      /\ handles \subseteq Jobs
    BY DEF TypeOK, DispatcherTypeOK, StoreTypeOK, ServiceTypeOK
<1>0. CASE UNCHANGED vars
    BY <1>0 DEF vars
<1>1. CASE WorkerTick
    <2>0. (IF active # NoJob THEN active ELSE Head(queue)) \in Jobs
        BY <1>1, <1>T DEF WorkerTick
    <2>1. PICK j \in Jobs : /\ j = IF active # NoJob THEN active ELSE Head(queue)
                            /\ mem' = [mem EXCEPT ![j] = JobObject(j)]
                            /\ line' = Append(line, Task("worker", j))
        BY <1>1, <2>0 DEF WorkerTick
    <2>2. Held(j)
        BY <1>1, <1>T, <2>1 DEF WorkerTick
    <2>3. mem' = mem
        BY <1>T, <2>1, <2>2, ObjectAgrees
    <2>4. creating[j] \in {"known", "lost"}
        BY <1>T, <2>2
    <2> QED BY <1>1, <2>1, <2>3, <2>4, JoinChange DEF WorkerTick, By
<1>2. ASSUME NEW j \in Jobs, Poll(j) PROVE SubmissionInv'
    <2>1. CASE IsTerminal(JobObject(j))
        BY <1>2, <2>1 DEF Poll
    <2>2. CASE ~IsTerminal(JobObject(j))
        BY <1>2, <2>2, JoinChange DEF Poll, Join, By
    <2> QED BY <2>1, <2>2
<1>3. ASSUME NEW j \in Jobs, AskCancel(j) PROVE SubmissionInv'
    BY <1>3, JoinChange DEF AskCancel, Join, By
<1>4. ASSUME NEW j \in Jobs, BeginUpload(j) PROVE SubmissionInv'
    BY <1>4, <1>T DEF BeginUpload
<1>5. ASSUME NEW j \in Jobs, CommitUpload(j) PROVE SubmissionInv'
    BY <1>5, <1>T, ConstantFields DEF CommitUpload, AcceptJob
<1>6. ASSUME NEW j \in Jobs, RefuseUpload(j) PROVE SubmissionInv'
    BY <1>6, <1>T DEF RefuseUpload
<1>7. ASSUME NEW j \in Jobs, FinishUpload(j) PROVE SubmissionInv'
    BY <1>7, <1>T, ConstantFields DEF FinishUpload, Enqueue
<1>8. ASSUME NEW j \in Jobs, AdvanceTerminal(j) PROVE SubmissionInv'
    BY <1>8, <1>T DEF AdvanceTerminal, Holds, Advancing, Release
<1>9. ASSUME NEW j \in Jobs, ClaimNothing(j) PROVE SubmissionInv'
    BY <1>9, <1>T DEF ClaimNothing, Holds, Advancing, Release, Unsubmitted
<1>10. ASSUME NEW j \in Jobs, ClaimOther(j) PROVE SubmissionInv'
    BY <1>10, <1>T DEF ClaimOther, Holds, Advancing, Release, Unsubmitted, ClaimNext, NothingToClaim
<1>11. ASSUME NEW j \in Jobs, ClaimOwn(j) PROVE SubmissionInv'
    <2>1. /\ line # <<>> /\ queue # <<>> /\ Head(queue) = j /\ Head(line).job = j
          /\ queue' = Tail(queue)
          /\ UNCHANGED <<mem, row, prompts, handles, creating, phase>>
          /\ \/ active' = j /\ at' = "reserve" /\ UNCHANGED line
             \/ UNCHANGED active /\ line' = Tail(line) /\ at' = "start"
        BY <1>11 DEF ClaimOwn, Unsubmitted, NothingToClaim, Advancing, Holds, Release
    <2>2. /\ \A i \in DOMAIN queue' : i + 1 \in DOMAIN queue /\ queue'[i] = queue[i + 1]
          /\ Head(queue) = queue[1] /\ 1 \in DOMAIN queue
        BY <1>T, <2>1, ShrunkSequence
    <2>3. \A i \in DOMAIN Tail(line) : i + 1 \in DOMAIN line /\ Tail(line)[i] = line[i + 1]
        BY <1>T, <2>1, ShrunkSequence
    <2>4. Held(j) /\ \A i \in DOMAIN queue' : Held(queue'[i])
        BY <2>1, <2>2
    <2>5. \A i \in DOMAIN line' : creating[line'[i].job] \in {"known", "lost"}
        BY <2>1, <2>3
    <2> QED BY <2>1, <2>4, <2>5
<1>12. ASSUME NEW j \in Jobs, Reserve(j) PROVE SubmissionInv'
    <2>1. line # <<>> /\ Head(line).job = j /\ at = "reserve"
        BY <1>12 DEF Reserve, Advancing, Holds
    <2>2. CASE Reservable(j)
        <3>1. /\ row' = [row EXCEPT ![j].attempts = @ + 1]
              /\ mem' = [mem EXCEPT ![j].attempts = 1]
              /\ at' = "submit"
              /\ row[j].attempts = 0
              /\ UNCHANGED <<queue, active, line, prompts, handles, creating, phase>>
            BY <1>12, <2>2 DEF Reserve, ReserveSubmission, Reservable
        <3>2. \A k \in Jobs : /\ row'[k].attempts = IF k = j THEN 1 ELSE row[k].attempts
                              /\ row'[k].status = row[k].status
            BY <1>T, <3>1, ObjectTypes, ChangedFields DEF Job
        <3>3. \A k \in Jobs : /\ mem'[k].attempts = IF k = j THEN 1 ELSE mem[k].attempts
                              /\ mem'[k].status = mem[k].status
            BY <1>T, <3>1, ObjectTypes, ChangedFields DEF Job
        <3>4. creating[j] \in {"known", "lost"}
            BY <1>T, <2>1, ShrunkSequence
        <3>5. prompts[j] = 0
            BY <1>T, <3>1
        <3>6. \A i \in DOMAIN queue : queue[i] \in Jobs
            BY <1>T
        <3> QED BY <1>T, <2>1, <3>1, <3>2, <3>3, <3>4, <3>5, <3>6
    <2>3. CASE ~Reservable(j)
        <3>1. /\ active' = NoJob /\ line' = Tail(line) /\ at' = "start"
              /\ UNCHANGED <<mem, row, queue, prompts, handles, creating, phase>>
            BY <1>12, <2>3 DEF Reserve, Complete, Release
        <3>2. \A i \in DOMAIN line' : creating[line'[i].job] \in {"known", "lost"}
            BY <1>T, <2>1, <3>1, ShrunkSequence
        <3> QED BY <3>1, <3>2
    <2> QED BY <2>2, <2>3
<1>13. ASSUME NEW j \in Jobs, SubmitAccepted(j) PROVE SubmissionInv'
    BY <1>13, <1>T, ObjectTypes, JobUpdates, JobFields, ChangedFields DEF SubmitAccepted, Holds, Advancing
<1>14. ASSUME NEW j \in Jobs, SaveHandle(j) PROVE SubmissionInv'
    BY <1>14, <1>T, ObjectTypes, JobUpdates, JobFields, ChangedFields DEF SaveHandle, UpdateJob, Holds, Advancing
<1>15. ASSUME NEW j \in Jobs, FirstInspect(j) PROVE SubmissionInv'
    BY <1>15, <1>T DEF FirstInspect, Holds, Advancing, Release
<1>16. ASSUME NEW j \in Jobs, SubmitRefused(j) PROVE SubmissionInv'
    BY <1>16, <1>T, ObjectTypes, JobUpdates, JobFields, ChangedFields DEF SubmitRefused, GiveUp, Holds, Advancing, JobState, Terminal
<1>17. ASSUME NEW j \in Jobs, SubmitAnswerLost(j) PROVE SubmissionInv'
    BY <1>17, <1>T, ObjectTypes, JobUpdates, JobFields, ChangedFields DEF SubmitAnswerLost, GiveUp, Holds, Advancing, JobState, Terminal
<1>18. ASSUME NEW j \in Jobs, SubmissionRaises(j) PROVE SubmissionInv'
    BY <1>18, <1>T, ObjectTypes, JobUpdates, JobFields, ChangedFields DEF SubmissionRaises, GiveUp, Holds, Advancing, JobState, Terminal
<1>19. ASSUME NEW j \in Jobs, GiveUpCommit(j) PROVE SubmissionInv'
    BY <1>19, <1>T, ObjectTypes, JobUpdates, JobFields, ChangedFields DEF GiveUpCommit, PersistTransition, Complete, Holds, Advancing, Release
<1>20. ASSUME NEW j \in Jobs, InspectQueued(j) PROVE SubmissionInv'
    BY <1>20, <1>T DEF InspectQueued, Inspecting, Holds, Advancing, Release
<1>21. ASSUME NEW j \in Jobs, InspectProcessing(j) PROVE SubmissionInv'
    <2>1. PICK p \in mem[j].progress .. MaxProgress :
              \/ Release /\ UNCHANGED mem
              \/ /\ mem' = [mem EXCEPT ![j] =
                            IF @.status = "processing"
                            THEN WithProgress(@, p)
                            ELSE [Transitioned(@, "processing") EXCEPT !.progress = p]]
                 /\ at' = "persist"
                 /\ UNCHANGED line
        BY <1>21 DEF InspectProcessing
    <2>2. CASE Release /\ UNCHANGED mem
        BY <1>21, <2>2, <1>T, ShrunkSequence DEF InspectProcessing, Release, Inspecting, Advancing, Holds
    <2>3. CASE ~(Release /\ UNCHANGED mem)
        <3> DEFINE job == IF mem[j].status = "processing"
                          THEN WithProgress(mem[j], p)
                          ELSE [Transitioned(mem[j], "processing") EXCEPT !.progress = p]
        <3>1. p \in Nat
            BY ObjectTypes, JobFields, ServiceAssumption
        <3>2. "processing" \in JobState /\ mem[j] \in Job
            BY ObjectTypes DEF JobState, NonTerminal
        <3>3. job \in Job /\ job.status = "processing" /\ job.attempts = mem[j].attempts
            <4> DEFINE moved == Transitioned(mem[j], "processing")
            <4>1. moved \in Job /\ moved.status = "processing" /\ moved.attempts = mem[j].attempts
                BY <3>2, JobUpdates, ChangedFields
            <4> HIDE DEF moved
            <4>2. /\ [moved EXCEPT !.progress = p] \in Job
                  /\ [moved EXCEPT !.progress = p].status = "processing"
                  /\ [moved EXCEPT !.progress = p].attempts = mem[j].attempts
                BY <3>1, <4>1, JobUpdates, ChangedFields
            <4>3. /\ WithProgress(mem[j], p) \in Job
                  /\ WithProgress(mem[j], p).status = mem[j].status
                  /\ WithProgress(mem[j], p).attempts = mem[j].attempts
                BY <3>1, <3>2, JobUpdates, ChangedFields
            <4> QED BY <4>2, <4>3 DEF moved
        <3>4. /\ line # <<>> /\ Head(line).job = j /\ Held(j)
              /\ UNCHANGED <<row, queue, active, prompts, handles, creating, phase>>
            BY <1>21 DEF InspectProcessing, Inspecting, Advancing, Holds
        <3>5. mem' = [mem EXCEPT ![j] = job] /\ at' = "persist" /\ UNCHANGED line
            BY <2>1, <2>3
        <3> HIDE DEF job
        <3> QED BY <3>3, <3>4, <3>5, HolderChange
    <2> QED BY <2>2, <2>3
<1>22. ASSUME NEW j \in Jobs, InspectSucceeded(j) PROVE SubmissionInv'
    <2>1. /\ line # <<>> /\ Head(line).job = j
          /\ UNCHANGED <<row, queue, active, prompts, handles, creating, phase>>
        BY <1>22 DEF InspectSucceeded, Inspecting, Advancing, Holds
    <2>2. PICK target \in JobState, step \in {"bridge", "persist"} : Change(j, target, step)
        BY <1>22 DEF InspectSucceeded, Decide, JobState, NonTerminal, Terminal
    <2>3. Held(j) /\ mem' = [mem EXCEPT ![j] = Transitioned(mem[j], target)] /\ UNCHANGED line
        BY <2>2 DEF Change, CanTransition, JobState, NonTerminal, Terminal
    <2>4. /\ Transitioned(mem[j], target) \in Job
          /\ Transitioned(mem[j], target).status # "absent"
          /\ Transitioned(mem[j], target).attempts = row[j].attempts
        <3>1. target # "absent"
            BY DEF JobState, NonTerminal, Terminal
        <3>2. mem[j] \in Job /\ mem[j].attempts = row[j].attempts
            BY <2>3, ObjectTypes
        <3> QED BY <3>1, <3>2, JobUpdates, ChangedFields
    <2> QED BY <2>1, <2>2, <2>3, <2>4, HolderChange DEF Change
<1>23. ASSUME NEW j \in Jobs, InspectEnded(j) PROVE SubmissionInv'
    <2>1. /\ line # <<>> /\ Head(line).job = j
          /\ UNCHANGED <<row, queue, active, prompts, handles, creating, phase>>
        BY <1>23 DEF InspectEnded, Inspecting, Advancing, Holds
    <2>2. PICK target \in JobState, step \in {"bridge", "persist"} : Change(j, target, step)
        BY <1>23 DEF InspectEnded, Decide, JobState, NonTerminal, Terminal
    <2>3. Held(j) /\ mem' = [mem EXCEPT ![j] = Transitioned(mem[j], target)] /\ UNCHANGED line
        BY <2>2 DEF Change, CanTransition, JobState, NonTerminal, Terminal
    <2>4. /\ Transitioned(mem[j], target) \in Job
          /\ Transitioned(mem[j], target).status # "absent"
          /\ Transitioned(mem[j], target).attempts = row[j].attempts
        <3>1. target # "absent"
            BY DEF JobState, NonTerminal, Terminal
        <3>2. mem[j] \in Job /\ mem[j].attempts = row[j].attempts
            BY <2>3, ObjectTypes
        <3> QED BY <3>1, <3>2, JobUpdates, ChangedFields
    <2> QED BY <2>1, <2>2, <2>3, <2>4, HolderChange DEF Change
<1>24. ASSUME NEW j \in Jobs, BridgeCommit(j) PROVE SubmissionInv'
    <2>1. /\ line # <<>> /\ Head(line).job = j /\ at' = "persist" /\ Held(j)
          /\ row' = [row EXCEPT ![j] = mem[j]]
          /\ mem' = [mem EXCEPT ![j] = Transitioned(@, "completed")]
          /\ UNCHANGED <<queue, active, line, prompts, handles, creating, phase>>
        BY <1>24 DEF BridgeCommit, PersistTransition, Change, Holds, Advancing
    <2>2. creating[j] \in {"known", "lost"}
        BY <1>T, <2>1, ShrunkSequence
    <2>3. \A k \in Jobs : row'[k] = IF k = j THEN mem[j] ELSE row[k]
        BY <1>T, <2>1
    <2>4. \A k \in Jobs : row'[k].attempts = row[k].attempts
        BY <2>1, <2>3
    <2>5. /\ Transitioned(mem[j], "completed").status # "absent"
          /\ Transitioned(mem[j], "completed").attempts = mem[j].attempts
        BY ObjectTypes, ChangedFields DEF JobState, Terminal
    <2>6. /\ mem'[j] = Transitioned(mem[j], "completed")
          /\ \A k \in Jobs \ {j} : mem'[k] = mem[k]
        BY <1>T, <2>1
    <2>7. \A k \in Jobs : /\ Held(k) => Held(k)'
                          /\ Held(k)' => mem'[k].attempts = row'[k].attempts
        BY <2>1, <2>4, <2>5, <2>6
    <2>8. \A k \in Jobs : Held(k)' => Held(k)
        BY <2>1, <2>6
    <2> QED BY <1>T, <2>1, <2>2, <2>3, <2>4, <2>7, <2>8
<1>25. ASSUME NEW j \in Jobs, PersistCommit(j) PROVE SubmissionInv'
    BY <1>25, <1>T, ObjectTypes, JobUpdates, JobFields, ChangedFields DEF PersistCommit, PersistTransition, Complete, Holds, Advancing, Release
<1>26. ASSUME NEW j \in Jobs, InspectRaises(j) PROVE SubmissionInv'
    BY <1>26, <1>T DEF InspectRaises, Inspecting, Holds, Advancing, Release
<1>27. ASSUME NEW j \in Jobs, PersistRaises(j) PROVE SubmissionInv'
    BY <1>27, <1>T DEF PersistRaises, Holds, Advancing, Release
<1>28. ASSUME NEW j \in Jobs, CancelStart(j) PROVE SubmissionInv'
    <2>1. /\ line # <<>> /\ Head(line).job = j
          /\ mem' = [mem EXCEPT ![j] = JobObject(j)]
          /\ UNCHANGED <<row, queue, active, prompts, handles, creating, phase>>
        BY <1>28 DEF CancelStart, Cancelling, Holds
    <2>2. \/ line' = Tail(line) /\ at' = "start"
          \/ line' = line /\ at' = "cancelRead" /\ JobObject(j).status # "absent"
        BY <1>28 DEF CancelStart, CanBeCancelled, Release
    <2>3. \A k \in Jobs : mem'[k] = IF k = j THEN JobObject(j) ELSE mem[k]
        BY <1>T, <2>1
    <2>4. \A k \in Jobs : /\ Held(k) => Held(k)'
                          /\ mem'[k].status # "absent" => mem'[k].attempts = row[k].attempts
        BY <2>3, ObjectAgrees
    <2>5. creating[j] \in {"known", "lost"}
        BY <1>T, <2>1, ShrunkSequence
    <2>6. \A i \in DOMAIN queue : queue[i] \in Jobs
        BY <1>T
    <2>7. \A i \in DOMAIN line' : creating[line'[i].job] \in {"known", "lost"}
        <3>1. \A i \in DOMAIN Tail(line) : creating[Tail(line)[i].job] \in {"known", "lost"}
            BY <1>T, <2>1, ShrunkSequence
        <3> QED BY <2>2, <3>1
    <2>8. at' \notin {"start", "orphaned"} => line' # <<>> /\ mem'[Head(line').job].status # "absent"
        BY <2>1, <2>2, <2>3
    <2> HIDE DEF Held
    <2> QED BY <1>T, <2>1, <2>2, <2>3, <2>4, <2>5, <2>6, <2>7, <2>8 DEF Held
<1>29. ASSUME NEW j \in Jobs, CancelRead(j) PROVE SubmissionInv'
    <2> DEFINE old == [mem[j] EXCEPT !.seq = LastSequence(j)]
               job == Transitioned(old, "cancelled")
    <2>1. /\ line # <<>> /\ Head(line).job = j /\ Held(j)
          /\ mem' = [mem EXCEPT ![j] = job]
          /\ CancelPending(j) /\ at' = "cancelPersist"
          /\ UNCHANGED <<row, active, line, prompts, handles, creating, phase>>
        BY <1>29 DEF CancelRead, Cancelling, Holds, CancelPending
    <2>2. "cancelled" \in JobState /\ old \in Job /\ old.attempts = mem[j].attempts
        BY ObjectTypes, JobUpdates, ChangedFields DEF JobState, Terminal
    <2>3. job.status = "cancelled" /\ job.attempts = mem[j].attempts
        BY <2>2, ChangedFields
    <2> HIDE DEF job
    <2>4. \A k \in Jobs : mem'[k] = IF k = j THEN job ELSE mem[k]
        BY <1>T, <2>1
    <2>5. \A i \in DOMAIN queue' : queue'[i] \in Jobs /\ \E m \in DOMAIN queue : queue'[i] = queue[m]
        BY <1>T, <2>1, RemoveFirstProperties DEF CancelPending
    <2>6. \A k \in Jobs : Held(k) => Held(k)'
        BY <2>3, <2>4
    <2>7. \A i \in DOMAIN queue' : mem'[queue'[i]].status # "absent"
        BY <2>5, <2>6
    <2>8. creating[j] \in {"known", "lost"}
        BY <1>T, <2>1, ShrunkSequence
    <2> QED BY <1>T, <2>1, <2>3, <2>4, <2>6, <2>7, <2>8
<1>30. ASSUME NEW j \in Jobs, CancelCommit(j) PROVE SubmissionInv'
    BY <1>30, <1>T, ObjectTypes, JobUpdates, JobFields, ChangedFields DEF CancelCommit, Cancelling, PersistTransition, Holds, Release
<1>31. ASSUME NEW j \in Jobs, CancelRaises(j) PROVE SubmissionInv'
    BY <1>31, <1>T DEF CancelRaises, Cancelling, Holds, Release
<1>32. ASSUME NEW j \in Jobs, Rehydrate(j) PROVE SubmissionInv'
    <2> DEFINE job == [Loaded(j) EXCEPT !.seq = LastSequence(j)]
    <2>1. /\ mem' = [mem EXCEPT ![j] = job] /\ row[j].status = "queued"
          /\ phase = "recovering" /\ Enqueue(j)
          /\ UNCHANGED <<row, line, at, prompts, handles, creating, phase>>
        BY <1>32 DEF Rehydrate, Recovering
    <2>2. Loaded(j) \in Job /\ Loaded(j).status = row[j].status /\ Loaded(j).attempts = row[j].attempts
        BY ObjectTypes, JobFields, ChangedFields, ObjectAgrees DEF Loaded
    <2>3. job.status = "queued" /\ job.attempts = row[j].attempts
        BY <2>1, <2>2, ObjectTypes, ChangedFields
    <2> HIDE DEF job
    <2>4. \A k \in Jobs : mem'[k] = IF k = j THEN job ELSE mem[k]
        BY <1>T, <2>1
    <2>5. creating[j] \in {"known", "lost"}
        BY <1>T, <2>1
    <2>6. \A i \in DOMAIN queue' : queue'[i] = j \/ (i \in DOMAIN queue /\ queue'[i] = queue[i])
        BY <1>T, <2>1, GrownSequence DEF Enqueue
    <2>7. \A k \in Jobs : Held(k) => Held(k)'
        BY <2>3, <2>4
    <2>8. \A i \in DOMAIN queue' : mem'[queue'[i]].status # "absent"
        <3>1. \A i \in DOMAIN queue : queue[i] \in Jobs
            BY <1>T
        <3>2. \A i \in DOMAIN queue : mem'[queue[i]].status # "absent"
            BY <2>7, <3>1
        <3>3. mem'[j].status # "absent"
            BY <2>3, <2>4
        <3> QED BY <2>6, <3>2, <3>3
    <2>9. active' = active /\ (active # NoJob => active \in Jobs)
        BY <1>T, <2>1 DEF Enqueue
    <2>10. line # <<>> => Head(line).job \in Jobs
        BY LineTypes DEF LockTask
    <2> QED BY <1>T, <2>1, <2>3, <2>4, <2>5, <2>7, <2>8, <2>9, <2>10
<1>33. ASSUME NEW j \in Jobs, FailQueued(j) PROVE SubmissionInv'
    <2> DEFINE old == [Loaded(j) EXCEPT !.seq = LastSequence(j)]
               job == Transitioned(old, "failed")
    <2>1. /\ row' = [row EXCEPT ![j] = job] /\ at' = "start" /\ row[j].status # "absent"
          /\ UNCHANGED <<mem, queue, active, line, prompts, handles, creating, phase>>
        BY <1>33 DEF FailQueued, MarkRestartFailure, WriteRecovered, PersistTransition
    <2>2. "failed" \in JobState
        BY DEF JobState, Terminal
    <2>3. old \in Job /\ old.attempts = row[j].attempts
        <3>1. Loaded(j) \in Job /\ LastSequence(j) \in Nat
            BY ObjectTypes
        <3>2. Loaded(j).attempts = row[j].attempts
            BY ObjectAgrees
        <3> QED BY <3>1, <3>2, JobUpdates, ChangedFields
    <2>4. job.status = "failed" /\ job.attempts = row[j].attempts
        BY <2>2, <2>3, ChangedFields
    <2> HIDE DEF job
    <2>5. \A k \in Jobs : row'[k].attempts = row[k].attempts /\ (row'[k].status = "absent" <=> row[k].status = "absent")
        BY <1>T, <2>1, <2>4
    <2> QED BY <2>1, <2>5
<1>34. ASSUME NEW j \in Jobs, ReportOrphan(j) PROVE SubmissionInv'
    BY <1>34, <1>T, ObjectTypes, JobUpdates, JobFields, ChangedFields DEF ReportOrphan, AppendOrphanEvent
<1>35. ASSUME NEW j \in Jobs, FailProcessing(j) PROVE SubmissionInv'
    <2> DEFINE old == [Loaded(j) EXCEPT !.seq = LastSequence(j)]
               job == Transitioned(old, "failed")
    <2>1. /\ row' = [row EXCEPT ![j] = job] /\ at' = "start" /\ row[j].status # "absent"
          /\ UNCHANGED <<mem, queue, active, line, prompts, handles, creating, phase>>
        BY <1>35 DEF FailProcessing, MarkRestartFailure, WriteRecovered, PersistTransition
    <2>2. "failed" \in JobState
        BY DEF JobState, Terminal
    <2>3. old \in Job /\ old.attempts = row[j].attempts
        <3>1. Loaded(j) \in Job /\ LastSequence(j) \in Nat
            BY ObjectTypes
        <3>2. Loaded(j).attempts = row[j].attempts
            BY ObjectAgrees
        <3> QED BY <3>1, <3>2, JobUpdates, ChangedFields
    <2>4. job.status = "failed" /\ job.attempts = row[j].attempts
        BY <2>2, <2>3, ChangedFields
    <2> HIDE DEF job
    <2>5. \A k \in Jobs : row'[k].attempts = row[k].attempts /\ (row'[k].status = "absent" <=> row[k].status = "absent")
        BY <1>T, <2>1, <2>4
    <2> QED BY <2>1, <2>5
<1>36. CASE Crash
    BY <1>36, <1>T, ConstantFields DEF Crash
<1>37. CASE Restart
    BY <1>37, <1>T DEF Restart
<1>38. CASE Serve
    BY <1>38, <1>T DEF Serve
<1> QED
    BY <1>0, <1>1, <1>2, <1>3, <1>4, <1>5, <1>6, <1>7, <1>8, <1>9, <1>10, <1>11, <1>12,
        <1>13, <1>14, <1>15, <1>16, <1>17, <1>18, <1>19, <1>20, <1>21, <1>22, <1>23,
        <1>24, <1>25, <1>26, <1>27, <1>28, <1>29, <1>30, <1>31, <1>32, <1>33, <1>34,
        <1>35, <1>36, <1>37, <1>38
    DEF Next, Upload, LockStep, Submission, Inspection, Cancellation, Recover

\* SubmissionInv holds always.
LEMMA SubmissionAlways == Spec => []SubmissionInv
<1>1. Init => SubmissionInv
    BY ConstantFields DEF Init, DispatcherInit, StoreInit, ServiceInit, SubmissionInv, Held
<1> QED BY <1>1, SubmissionStep, TypeCorrect, PTL DEF Spec

\* The engine is given a job's prompt at most once (JobSystem!AtMostOneSubmission).
THEOREM SubmittedOnce == Spec => []AtMostOneSubmission
<1>1. SubmissionInv /\ TypeOK => AtMostOneSubmission
    <2> SUFFICES ASSUME SubmissionInv, TypeOK, NEW j \in Jobs PROVE prompts[j] <= 1
        BY DEF AtMostOneSubmission
    <2>1. prompts[j] \in Nat /\ row[j].attempts \in Nat
        BY ObjectTypes, JobFields DEF TypeOK, ServiceTypeOK
    <2> QED BY <2>1 DEF SubmissionInv
<1> QED BY <1>1, SubmissionAlways, TypeCorrect, PTL

-------------------------------------------------------------------------------
(* The shapes of the steps of the lock's holder *)

\* What SlotInv says of a service that is up, in first-order terms.
LEMMA SlotFacts ==
    ASSUME TypeOK, SubmissionInv, SlotInv
    PROVE  /\ \A i \in DOMAIN queue :
                  /\ queue[i] \in Jobs /\ queue[i] # active /\ Held(queue[i])
                  /\ mem[queue[i]].status = "queued" /\ ~IsTerminal(mem[queue[i]])
                  /\ row[queue[i]].attempts = 0 /\ queue[i] \in requests
           /\ \A i, k \in DOMAIN queue : queue[i] = queue[k] => i = k
           /\ \A k \in handles : k \in Jobs /\ (k = active \/ IsTerminal(mem[k]))
           /\ line = <<>> => at \in {"start", "orphaned"}
           /\ \A i \in DOMAIN queue : queue[i] \notin handles
<1>1. queue \in Seq(Jobs) /\ handles \subseteq Jobs
    BY DEF TypeOK, DispatcherTypeOK, ServiceTypeOK
<1>2. \A i \in DOMAIN queue : queue[i] \in Jobs
    BY <1>1
<1>3. \A i, k \in DOMAIN queue : queue[i] = queue[k] => i = k
    BY DEF SlotInv, QueueIsClaimable, IsInjective
<1> QED BY <1>1, <1>2, <1>3 DEF SlotInv, QueueIsClaimable, HandleOwnsSlot, SubmissionInv, IsTerminal, Terminal

\* Where each element of a grown sequence comes from.
LEMMA AppendedElements ==
    ASSUME NEW S, NEW s \in Seq(S), NEW e \in S
    PROVE  \A i \in DOMAIN Append(s, e) :
               \/ i = Len(s) + 1 /\ Append(s, e)[i] = e
               \/ i \in DOMAIN s /\ Append(s, e)[i] = s[i]
<1> DEFINE t == Append(s, e)
<1>1. /\ t \in Seq(S) /\ Len(t) = Len(s) + 1
      /\ \A i \in 1 .. Len(s) : t[i] = s[i]
      /\ t[Len(s) + 1] = e
    BY AppendProperties
<1> HIDE DEF t
<1>2. Len(s) \in Nat /\ DOMAIN s = 1 .. Len(s) /\ DOMAIN t = 1 .. Len(t)
    BY <1>1
<1>3. \A i \in DOMAIN t : (i = Len(s) + 1 /\ t[i] = e) \/ (i \in DOMAIN s /\ t[i] = s[i])
    BY <1>1, <1>2
<1> QED BY <1>3 DEF t

\* The holder works on the active job j, keeps the lock, and touches j alone.
LEMMA HolderStays ==
    ASSUME TypeOK, SubmissionInv, SlotInv, phase = "up",
           NEW j \in Jobs, line # <<>>, Head(line).job = j, active = j,
           \A k \in Jobs \ {j} : mem'[k] = mem[k] /\ row'[k] = row[k],
           handles \subseteq handles', handles' \subseteq handles \cup {j},
           at' \in {"submit", "save", "first", "bridge", "persist", "giveUp"},
           at' \in {"submit", "save"} => j \notin handles',
           at' = "giveUp" => IsTerminal(mem'[j]),
           UNCHANGED <<queue, active, line, requests, phase, todo>>
    PROVE  SlotInv'
<1>1. /\ \A i \in DOMAIN queue : queue[i] \in Jobs \ {j}
      /\ \A i \in DOMAIN queue : mem'[queue[i]] = mem[queue[i]] /\ row'[queue[i]] = row[queue[i]]
    BY SlotFacts
<1>2. QueueIsClaimable'
    BY <1>1 DEF SlotInv, QueueIsClaimable, IsInjective
<1>3. \A k \in Jobs : InSlot(k)' => k = j
    BY DEF SlotInv, InSlot
<1>4. HandleOwnsSlot'
    BY SlotFacts DEF HandleOwnsSlot, IsTerminal
<1>5. HolderOwnsSlot' /\ CancelLeavesSlotAlone'
    BY DEF HolderOwnsSlot, CancelLeavesSlotAlone
<1>6. SerialExecution'
    BY <1>3 DEF SerialExecution
<1> QED BY <1>2, <1>3, <1>4, <1>5, <1>6 DEF SlotInv

\* The holder gives the lock back and leaves the slot as it is; if it wrote a row,
\* it wrote the active job's, or one that is over.
LEMMA HolderReleases ==
    ASSUME TypeOK, SubmissionInv, SlotInv, phase = "up",
           NEW j \in Jobs,
           \A k \in Jobs \ {j} : row'[k] = row[k],
           row'[j] = row[j] \/ active = j \/ (row'[j].status \notin NonTerminal /\ row'[j].attempts = row[j].attempts),
           handles' \subseteq handles, requests \ {j} \subseteq requests',
           requests' = requests \/ \A i \in DOMAIN queue : queue[i] # j,
           at' = "start",
           UNCHANGED <<mem, queue, active, phase, todo>>
    PROVE  SlotInv'
<1>1. \A i \in DOMAIN queue : /\ queue[i] \in Jobs
                              /\ row'[queue[i]].attempts = row[queue[i]].attempts
                              /\ queue[i] \in requests'
    BY SlotFacts
<1>2. QueueIsClaimable'
    BY <1>1 DEF SlotInv, QueueIsClaimable, IsInjective
<1>3. \A k \in Jobs : InSlot(k)' => k = active
    BY DEF SlotInv, InSlot
<1>4. HandleOwnsSlot'
    BY SlotFacts DEF HandleOwnsSlot, IsTerminal
<1>5. HolderOwnsSlot' /\ CancelLeavesSlotAlone'
    BY DEF HolderOwnsSlot, CancelLeavesSlotAlone
<1>6. SerialExecution'
    BY <1>3 DEF SerialExecution
<1> QED BY <1>2, <1>3, <1>4, <1>5, <1>6 DEF SlotInv

\* The holder gives back the lock and the slot of the active job j.
LEMMA HolderLeavesSlot ==
    ASSUME TypeOK, SubmissionInv, SlotInv, phase = "up",
           NEW j \in Jobs, active = j, active' = NoJob,
           \A k \in Jobs \ {j} : row'[k] = row[k],
           ~InSlot(j)',
           handles' \subseteq handles, j \in handles' => IsTerminal(mem[j]),
           requests \ {j} \subseteq requests',
           at' = "start",
           UNCHANGED <<mem, queue, phase, todo>>
    PROVE  SlotInv'
<1>1. \A i \in DOMAIN queue : /\ queue[i] \in Jobs \ {j}
                              /\ row'[queue[i]] = row[queue[i]]
                              /\ queue[i] \in requests'
                              /\ queue[i] # NoJob
    BY SlotFacts, NoJobAssumption
<1>2. QueueIsClaimable'
    BY <1>1 DEF SlotInv, QueueIsClaimable, IsInjective
<1>3. \A k \in Jobs : ~InSlot(k)'
    BY DEF SlotInv, InSlot
<1>4. HandleOwnsSlot'
    BY SlotFacts DEF HandleOwnsSlot, IsTerminal
<1>5. HolderOwnsSlot' /\ CancelLeavesSlotAlone'
    BY DEF HolderOwnsSlot, CancelLeavesSlotAlone
<1>6. SerialExecution'
    BY <1>3 DEF SerialExecution
<1> QED BY <1>2, <1>3, <1>4, <1>5, <1>6 DEF SlotInv

-------------------------------------------------------------------------------

\* Every step of the system keeps SlotInv.
LEMMA SlotStep ==
    ASSUME TypeOK, TypeOK', SubmissionInv, SubmissionInv', SlotInv, [Next]_vars
    PROVE  SlotInv'
<1> USE DEF dispatcherVars, storeVars, memoryVars, lockVars, uploadVars, lifeVars
<1>T. /\ queue \in Seq(Jobs) /\ active \in Jobs \cup {NoJob} /\ mem \in [Jobs -> Job]
      /\ row \in [Jobs -> Job] /\ line \in Seq(LockTask)
      /\ handles \subseteq Jobs
    BY DEF TypeOK, DispatcherTypeOK, StoreTypeOK, ServiceTypeOK
<1>F. /\ \A i \in DOMAIN queue :
             /\ queue[i] \in Jobs /\ queue[i] # active /\ Held(queue[i])
             /\ mem[queue[i]].status = "queued" /\ ~IsTerminal(mem[queue[i]])
             /\ row[queue[i]].attempts = 0 /\ queue[i] \in requests
             /\ queue[i] \notin handles
      /\ \A i, k \in DOMAIN queue : queue[i] = queue[k] => i = k
      /\ \A k \in handles : k \in Jobs /\ (k = active \/ IsTerminal(mem[k]))
      /\ line = <<>> => at \in {"start", "orphaned"}
    BY SlotFacts
\* The holder of the lock that is at a step of _advance_unlocked owns the slot.
<1>H. ASSUME NEW j, NEW step, Advancing(j, step)
      PROVE  /\ phase = "up" /\ line # <<>> /\ Head(line).job = j /\ at = step
             /\ step \in {"reserve", "submit", "save", "first", "bridge", "persist", "giveUp"} => active = j
             /\ step \in {"reserve", "submit", "save"} => j \notin handles
             /\ step = "giveUp" => IsTerminal(mem[j])
             /\ step = "reserve" => row[j].attempts = 0
    BY <1>H DEF Advancing, Holds, SlotInv, HolderOwnsSlot
\* What is inspected is the active job.
<1>I. ASSUME NEW j, Inspecting(j)
      PROVE  phase = "up" /\ line # <<>> /\ Head(line).job = j /\ active = j
    BY <1>I, <1>H, <1>F DEF Inspecting
<1>0. CASE UNCHANGED vars
    BY <1>0 DEF vars, SlotInv, SerialExecution, InSlot, HolderOwnsSlot, CancelLeavesSlotAlone,
        HandleOwnsSlot, QueueIsClaimable
\* A task joins the line.
<1>J. ASSUME NEW by \in By, NEW j \in Jobs, line' = Append(line, Task(by, j)), phase = "up",
             UNCHANGED <<mem, row, queue, active, at, handles, requests, phase, todo>>
      PROVE  SlotInv'
    <2>1. Task(by, j) \in LockTask
        BY DEF Task, LockTask
    <2>2. line' # <<>> /\ (line # <<>> => Head(line') = Head(line))
        BY <1>T, <1>J, <2>1, GrownSequence
    <2> HIDE DEF Task
    <2>3. HolderOwnsSlot' /\ CancelLeavesSlotAlone'
        BY <1>J, <1>F, <2>2 DEF SlotInv, HolderOwnsSlot, CancelLeavesSlotAlone
    <2>4. SerialExecution' /\ HandleOwnsSlot' /\ QueueIsClaimable'
        BY <1>J DEF SlotInv, SerialExecution, InSlot, HandleOwnsSlot, QueueIsClaimable
    <2> QED BY <1>J, <1>F, <2>2, <2>3, <2>4 DEF SlotInv, InSlot
<1>1. CASE WorkerTick
    <2>0. (IF active # NoJob THEN active ELSE Head(queue)) \in Jobs
        BY <1>1, <1>T DEF WorkerTick
    <2>1. PICK j \in Jobs : /\ j = IF active # NoJob THEN active ELSE Head(queue)
                            /\ mem' = [mem EXCEPT ![j] = JobObject(j)]
                            /\ line' = Append(line, Task("worker", j))
        BY <1>1, <2>0 DEF WorkerTick
    <2>2. Held(j)
        BY <1>1, <1>T, <2>1 DEF WorkerTick, SubmissionInv
    <2>3. mem' = mem
        BY <1>T, <2>1, <2>2, ObjectAgrees
    <2> QED BY <1>1, <1>J, <2>1, <2>3 DEF WorkerTick, By
<1>2. ASSUME NEW j \in Jobs, Poll(j) PROVE SlotInv'
    <2>1. CASE IsTerminal(JobObject(j))
        BY <1>2, <2>1 DEF Poll, SlotInv, SerialExecution, InSlot, HolderOwnsSlot,
            CancelLeavesSlotAlone, HandleOwnsSlot, QueueIsClaimable
    <2>2. CASE ~IsTerminal(JobObject(j))
        BY <1>2, <1>J, <2>2 DEF Poll, Join, By
    <2> QED BY <2>1, <2>2
<1>3. ASSUME NEW j \in Jobs, AskCancel(j) PROVE SlotInv'
    BY <1>3, <1>J DEF AskCancel, Join, By
<1>4. ASSUME NEW j \in Jobs, BeginUpload(j) PROVE SlotInv'
    BY <1>4 DEF BeginUpload, SlotInv, SerialExecution, InSlot, HolderOwnsSlot,
        CancelLeavesSlotAlone, HandleOwnsSlot, QueueIsClaimable
<1>6. ASSUME NEW j \in Jobs, RefuseUpload(j) PROVE SlotInv'
    BY <1>6 DEF RefuseUpload, SlotInv, SerialExecution, InSlot, HolderOwnsSlot,
        CancelLeavesSlotAlone, HandleOwnsSlot, QueueIsClaimable
<1>8. ASSUME NEW j \in Jobs, AdvanceTerminal(j) PROVE SlotInv'
    BY <1>8, <1>H, HolderReleases DEF AdvanceTerminal, Release
<1>9. ASSUME NEW j \in Jobs, ClaimNothing(j) PROVE SlotInv'
    BY <1>9, <1>H, HolderReleases DEF ClaimNothing, Unsubmitted, Release
<1>15. ASSUME NEW j \in Jobs, FirstInspect(j) PROVE SlotInv'
    BY <1>15, <1>H, HolderReleases DEF FirstInspect, Release
<1>20. ASSUME NEW j \in Jobs, InspectQueued(j) PROVE SlotInv'
    BY <1>20, <1>I, HolderReleases DEF InspectQueued, Release
<1>26. ASSUME NEW j \in Jobs, InspectRaises(j) PROVE SlotInv'
    BY <1>26, <1>I, HolderReleases DEF InspectRaises, Release
<1>27. ASSUME NEW j \in Jobs, PersistRaises(j) PROVE SlotInv'
    BY <1>27, <1>H, HolderReleases DEF PersistRaises, Release
<1>31. ASSUME NEW j \in Jobs, CancelRaises(j) PROVE SlotInv'
    BY <1>31, HolderReleases DEF CancelRaises, Cancelling, Holds, Release
<1>19. ASSUME NEW j \in Jobs, GiveUpCommit(j) PROVE SlotInv'
    <2>1. /\ phase = "up" /\ active = j /\ IsTerminal(mem[j])
          /\ row' = [row EXCEPT ![j] = mem[j]] /\ active' = NoJob
        BY <1>19, <1>H DEF GiveUpCommit, PersistTransition, Complete
    <2>2. ~InSlot(j)'
        BY <1>T, <2>1 DEF InSlot, IsTerminal, Terminal, NonTerminal
    <2>3. \A k \in Jobs \ {j} : row'[k] = row[k]
        BY <1>T, <2>1
    <2> QED BY <1>19, <2>1, <2>2, <2>3, HolderLeavesSlot DEF GiveUpCommit, Complete, Release
<1>25. ASSUME NEW j \in Jobs, PersistCommit(j) PROVE SlotInv'
    <2>1. phase = "up" /\ active = j /\ row' = [row EXCEPT ![j] = mem[j]]
        BY <1>25, <1>H DEF PersistCommit, PersistTransition
    <2>2. \A k \in Jobs \ {j} : row'[k] = row[k]
        BY <1>T, <2>1
    <2>3. CASE IsTerminal(mem[j])
        <3>1. ~InSlot(j)'
            BY <1>T, <2>1, <2>3 DEF InSlot, IsTerminal, Terminal, NonTerminal
        <3> QED BY <1>25, <2>1, <2>2, <2>3, <3>1, HolderLeavesSlot DEF PersistCommit, Complete, Release
    <2>4. CASE ~IsTerminal(mem[j])
        BY <1>25, <2>1, <2>2, <2>4, HolderReleases DEF PersistCommit, Release
    <2> QED BY <2>3, <2>4
<1>12. ASSUME NEW j \in Jobs, Reserve(j) PROVE SlotInv'
    <2>1. phase = "up" /\ line # <<>> /\ Head(line).job = j /\ active = j /\ row[j].attempts = 0 /\ j \notin handles
        BY <1>12, <1>H DEF Reserve
    <2>2. CASE Reservable(j)
        BY <1>12, <1>T, <2>1, <2>2, HolderStays DEF Reserve, ReserveSubmission
    <2>3. CASE ~Reservable(j)
        BY <1>12, <2>1, <2>3, HolderLeavesSlot DEF Reserve, Complete, Release, InSlot
    <2> QED BY <2>2, <2>3
<1>13. ASSUME NEW j \in Jobs, SubmitAccepted(j) PROVE SlotInv'
    BY <1>13, <1>H, <1>T, HolderStays DEF SubmitAccepted
<1>14. ASSUME NEW j \in Jobs, SaveHandle(j) PROVE SlotInv'
    BY <1>14, <1>H, <1>T, HolderStays DEF SaveHandle, UpdateJob
\* A submission that fails takes the job to its end in memory.
<1>G. ASSUME NEW j \in Jobs, NEW step \in {"reserve", "submit", "save", "first"},
             Advancing(j, step), GiveUp(j)
      PROVE  SlotInv'
    <2>1. IsTerminal(mem'[j])
        BY <1>G, <1>T, ObjectTypes, ChangedFields DEF GiveUp, IsTerminal, Terminal, JobState
    <2>2. \A k \in Jobs \ {j} : mem'[k] = mem[k]
        BY <1>G, <1>T DEF GiveUp
    <2> QED BY <1>G, <1>H, <2>1, <2>2, HolderStays DEF GiveUp
<1>16. ASSUME NEW j \in Jobs, SubmitRefused(j) PROVE SlotInv'
    BY <1>16, <1>G DEF SubmitRefused
<1>17. ASSUME NEW j \in Jobs, SubmitAnswerLost(j) PROVE SlotInv'
    BY <1>17, <1>G DEF SubmitAnswerLost
<1>18. ASSUME NEW j \in Jobs, SubmissionRaises(j) PROVE SlotInv'
    BY <1>18, <1>G DEF SubmissionRaises
\* An observation changes the object of the active job.
<1>C. ASSUME NEW j \in Jobs, NEW target, NEW step \in {"bridge", "persist"}, phase = "up",
             line # <<>>, Head(line).job = j, active = j, Change(j, target, step),
             \A k \in Jobs \ {j} : row'[k] = row[k],
             UNCHANGED <<queue, active, handles, requests, phase, todo>>
      PROVE  SlotInv'
    <2>1. \A k \in Jobs \ {j} : mem'[k] = mem[k]
        BY <1>C, <1>T DEF Change
    <2> QED BY <1>C, <2>1, HolderStays DEF Change
<1>21. ASSUME NEW j \in Jobs, InspectProcessing(j) PROVE SlotInv'
    <2>1. phase = "up" /\ line # <<>> /\ Head(line).job = j /\ active = j
        BY <1>21, <1>I DEF InspectProcessing
    <2>2. \/ Release /\ UNCHANGED mem
          \/ at' = "persist" /\ UNCHANGED line /\ \A k \in Jobs \ {j} : mem'[k] = mem[k]
        BY <1>21, <1>T DEF InspectProcessing
    <2>3. CASE Release /\ UNCHANGED mem
        BY <1>21, <2>1, <2>3, HolderReleases DEF InspectProcessing, Release
    <2>4. CASE at' = "persist" /\ UNCHANGED line /\ \A k \in Jobs \ {j} : mem'[k] = mem[k]
        BY <1>21, <2>1, <2>4, HolderStays DEF InspectProcessing
    <2> QED BY <2>2, <2>3, <2>4
<1>22. ASSUME NEW j \in Jobs, InspectSucceeded(j) PROVE SlotInv'
    BY <1>22, <1>I, <1>C DEF InspectSucceeded
<1>23. ASSUME NEW j \in Jobs, InspectEnded(j) PROVE SlotInv'
    BY <1>23, <1>I, <1>C DEF InspectEnded
<1>24. ASSUME NEW j \in Jobs, BridgeCommit(j) PROVE SlotInv'
    BY <1>24, <1>H, <1>C, <1>T DEF BridgeCommit, PersistTransition
<1>5. ASSUME NEW j \in Jobs, CommitUpload(j) PROVE SlotInv'
    <2>1. /\ phase = "up" /\ creating[j] = "accepting" /\ row[j].status = "absent"
          /\ row' = [row EXCEPT ![j] = Accepted]
          /\ UNCHANGED <<mem, queue, active, line, at, handles, requests, phase, todo>>
        BY <1>5 DEF CommitUpload, AcceptJob
    <2>2. ~Held(j)
        BY <2>1 DEF SubmissionInv
    <2>3. \A k \in Jobs : row'[k] = IF k = j THEN Accepted ELSE row[k]
        BY <1>T, <2>1
    <2>4. \A k \in Jobs : InSlot(k)' => InSlot(k)
        BY <2>3, ConstantFields DEF InSlot
    <2>5. QueueIsClaimable'
        BY <1>F, <2>1, <2>2, <2>3 DEF SlotInv, QueueIsClaimable
    <2>6. at = "reserve" => Head(line).job \in Jobs /\ Head(line).job # j
        BY <1>T, <2>2, LineTypes DEF SubmissionInv, LockTask
    <2> QED BY <2>1, <2>3, <2>4, <2>5, <2>6
        DEF SlotInv, SerialExecution, HolderOwnsSlot, CancelLeavesSlotAlone, HandleOwnsSlot
<1>7. ASSUME NEW j \in Jobs, FinishUpload(j) PROVE SlotInv'
    <2>1. /\ phase = "up" /\ creating[j] = "accepted" /\ Enqueue(j)
          /\ mem' = [mem EXCEPT ![j] = Accepted] /\ requests' = requests \cup {j}
          /\ UNCHANGED <<row, line, at, handles, phase, todo>>
        BY <1>7 DEF FinishUpload
    <2>2. ~Held(j) /\ row[j].attempts = 0
        BY <2>1 DEF SubmissionInv
    <2>3. active # j /\ (\A i \in DOMAIN queue : queue[i] # j) /\ j \notin handles
        BY <1>F, <1>T, <2>2, NoJobAssumption DEF SubmissionInv
    <2>4. queue' = Append(queue, j) /\ active' = active
        BY <2>1, <2>3 DEF Enqueue, ToSet
    <2>5. \A k \in Jobs : mem'[k] = IF k = j THEN Accepted ELSE mem[k]
        BY <1>T, <2>1
    <2>6. QueueIsClaimable'
        <3>1. \A i \in DOMAIN queue' :
                 \/ i = Len(queue) + 1 /\ queue'[i] = j
                 \/ i \in DOMAIN queue /\ queue'[i] = queue[i]
            BY <1>T, <2>4, AppendedElements
        <3> QED BY <1>F, <2>1, <2>2, <2>3, <2>4, <2>5, <3>1, ConstantFields
            DEF QueueIsClaimable, IsInjective
    <2>7. HandleOwnsSlot'
        BY <1>F, <2>1, <2>3, <2>4, <2>5 DEF HandleOwnsSlot, IsTerminal
    <2>8. at \notin {"start", "orphaned"} => Head(line).job \in Jobs \ {j}
        BY <1>T, <2>2, LineTypes DEF SubmissionInv, LockTask
    <2>9. HolderOwnsSlot' /\ CancelLeavesSlotAlone'
        <3>1. \A k : k \in ToSet(queue') => k = j \/ k \in ToSet(queue)
            BY <1>T, <2>4, GrownSequence DEF ToSet
        <3> QED BY <2>1, <2>4, <2>8, <3>1 DEF SlotInv, HolderOwnsSlot, CancelLeavesSlotAlone
    <2>10. \A k \in Jobs : InSlot(k)' <=> InSlot(k)
        BY <2>1 DEF InSlot
    <2>11. at \in {"giveUp", "cancelPersist"} => mem'[Head(line).job] = mem[Head(line).job]
        BY <2>5, <2>8
    <2> QED BY <2>1, <2>4, <2>6, <2>7, <2>9, <2>10, <2>11 DEF SlotInv, SerialExecution, IsTerminal
\* A claim makes the head active; the rest of the queue is behind it.
<1>K. ASSUME NEW j \in Jobs, active = NoJob, queue # <<>>, phase = "up",
             queue' = Tail(queue), active' \in {NoJob, Head(queue)},
             UNCHANGED <<mem, row, handles, requests, phase, todo>>
      PROVE  /\ QueueIsClaimable' /\ HandleOwnsSlot' /\ SerialExecution'
             /\ \A k \in Jobs : ~InSlot(k)'
    <2>1. /\ \A i \in DOMAIN queue' : i + 1 \in DOMAIN queue /\ queue'[i] = queue[i + 1]
          /\ \A i \in DOMAIN queue' : i \in Nat \ {0}
          /\ Head(queue) = queue[1] /\ 1 \in DOMAIN queue
        BY <1>T, <1>K, ShrunkSequence
    <2>2. \A i \in DOMAIN queue' : queue'[i] # Head(queue) /\ queue'[i] \in Jobs
        <3> TAKE i \in DOMAIN queue'
        <3>1. i + 1 \in DOMAIN queue /\ i + 1 # 1 /\ 1 \in DOMAIN queue
            BY <2>1
        <3>2. queue[i + 1] # queue[1] /\ queue[i + 1] \in Jobs
            BY <1>F, <3>1
        <3> QED BY <2>1, <3>2
    <2>3. \A i, k \in DOMAIN queue' : queue'[i] = queue'[k] => i = k
        BY <1>F, <2>1
    <2>4. QueueIsClaimable'
        BY <1>F, <1>K, <2>1, <2>2, <2>3, NoJobAssumption DEF QueueIsClaimable, IsInjective
    <2>5. \A k \in Jobs : ~InSlot(k)'
        BY <1>K, NoJobAssumption DEF SlotInv, InSlot
    <2>6. HandleOwnsSlot'
        BY <1>F, <1>K, NoJobAssumption DEF HandleOwnsSlot, IsTerminal
    <2> QED BY <2>4, <2>5, <2>6 DEF SerialExecution
<1>10. ASSUME NEW j \in Jobs, ClaimOther(j) PROVE SlotInv'
    <2>1. /\ phase = "up" /\ active = NoJob /\ queue # <<>>
          /\ active' = Head(queue) /\ queue' = Tail(queue) /\ at' = "start"
          /\ UNCHANGED <<mem, row, handles, requests, phase, todo>>
        BY <1>10, <1>H DEF ClaimOther, ClaimNext, NothingToClaim, Unsubmitted, Release
    <2>2. QueueIsClaimable' /\ HandleOwnsSlot' /\ SerialExecution' /\ \A k \in Jobs : ~InSlot(k)'
        BY <1>K, <2>1
    <2> QED BY <2>1, <2>2 DEF SlotInv, HolderOwnsSlot, CancelLeavesSlotAlone
<1>11. ASSUME NEW j \in Jobs, ClaimOwn(j) PROVE SlotInv'
    <2>1. /\ phase = "up" /\ active = NoJob /\ queue # <<>> /\ Head(queue) = j
          /\ line # <<>> /\ Head(line).job = j
          /\ queue' = Tail(queue)
          /\ \/ active' = j /\ at' = "reserve" /\ UNCHANGED line
             \/ active' = NoJob /\ at' = "start"
          /\ UNCHANGED <<mem, row, handles, requests, phase, todo>>
        BY <1>11, <1>H DEF ClaimOwn, NothingToClaim, Unsubmitted, Release
    <2>2. QueueIsClaimable' /\ HandleOwnsSlot' /\ SerialExecution' /\ \A k \in Jobs : ~InSlot(k)'
        BY <1>K, <2>1
    <2>3. row[j].attempts = 0 /\ j \notin handles
        BY <1>T, <1>F, <2>1, ShrunkSequence
    <2> QED BY <2>1, <2>2, <2>3 DEF SlotInv, HolderOwnsSlot, CancelLeavesSlotAlone
<1>28. ASSUME NEW j \in Jobs, CancelStart(j) PROVE SlotInv'
    <2>1. /\ phase = "up" /\ line # <<>> /\ Head(line).job = j
          /\ mem' = [mem EXCEPT ![j] = JobObject(j)]
          /\ UNCHANGED <<row, queue, active, handles, requests, phase, todo>>
        BY <1>28 DEF CancelStart, Cancelling, Holds
    <2>2. \/ at' = "start"
          \/ line' = line /\ at' = "cancelRead" /\ active # j
        BY <1>28 DEF CancelStart, CanBeCancelled, Release
    <2>3. \A k \in Jobs : Held(k) => mem'[k] = mem[k]
        BY <1>T, <2>1, ObjectAgrees
    <2>4. QueueIsClaimable'
        BY <1>F, <2>1, <2>3 DEF SlotInv, QueueIsClaimable
    <2>5. HandleOwnsSlot'
        BY <1>F, <2>1, <2>3 DEF HandleOwnsSlot, IsTerminal, SubmissionInv
    <2> QED BY <2>1, <2>2, <2>4, <2>5 DEF SlotInv, SerialExecution, InSlot, HolderOwnsSlot, CancelLeavesSlotAlone
<1>29. ASSUME NEW j \in Jobs, CancelRead(j) PROVE SlotInv'
    <2> DEFINE old == [mem[j] EXCEPT !.seq = LastSequence(j)]
               job == Transitioned(old, "cancelled")
    <2>1. /\ phase = "up" /\ line # <<>> /\ Head(line).job = j /\ active # j
          /\ mem' = [mem EXCEPT ![j] = job]
          /\ queue' = RemoveFirst(queue, j) /\ at' = "cancelPersist"
          /\ UNCHANGED <<row, active, line, handles, requests, phase, todo>>
        BY <1>29 DEF CancelRead, Cancelling, Holds, CancelPending, SlotInv, CancelLeavesSlotAlone
    <2>2. "cancelled" \in JobState /\ old \in Job
        BY ObjectTypes, JobUpdates DEF JobState, Terminal
    <2>3. job.status = "cancelled"
        BY <2>2, ChangedFields
    <2> HIDE DEF job
    <2>4. \A k \in Jobs : mem'[k] = IF k = j THEN job ELSE mem[k]
        BY <1>T, <2>1
    <2>5. IsInjective(queue)
        BY DEF SlotInv, QueueIsClaimable
    <2>6. PICK f \in [DOMAIN queue' -> DOMAIN queue] :
              /\ \A i \in DOMAIN queue' : queue'[i] = queue[f[i]]
              /\ \A i, k \in DOMAIN queue' : f[i] = f[k] => i = k
              /\ \A i \in DOMAIN queue' : queue[f[i]] # j
        BY <1>T, <2>1, <2>5, RemoveFirstProperties
    <2>7. \A i \in DOMAIN queue' : f[i] \in DOMAIN queue
        BY <2>6
    <2>8. QueueIsClaimable'
        <3>1. \A i, k \in DOMAIN queue' : queue'[i] = queue'[k] => i = k
            BY <1>F, <2>6, <2>7
        <3>2. \A i \in DOMAIN queue' :
                 /\ mem'[queue'[i]].status = "queued"
                 /\ row'[queue'[i]].attempts = 0
                 /\ queue'[i] \in requests'
                 /\ queue'[i] # active'
            BY <1>F, <2>1, <2>4, <2>6, <2>7
        <3> QED BY <3>1, <3>2 DEF QueueIsClaimable, IsInjective
    <2>9. HandleOwnsSlot'
        BY <1>F, <2>1, <2>3, <2>4 DEF HandleOwnsSlot, IsTerminal, Terminal
    <2>10. HolderOwnsSlot' /\ CancelLeavesSlotAlone'
        BY <2>1, <2>6 DEF HolderOwnsSlot, CancelLeavesSlotAlone, ToSet
    <2>11. IsTerminal(mem'[j])
        BY <2>3, <2>4 DEF IsTerminal, Terminal
    <2> QED BY <2>1, <2>8, <2>9, <2>10, <2>11 DEF SlotInv, SerialExecution, InSlot
<1>30. ASSUME NEW j \in Jobs, CancelCommit(j) PROVE SlotInv'
    <2>1. /\ phase = "up" /\ line # <<>> /\ Head(line).job = j /\ IsTerminal(mem[j])
          /\ j \notin ToSet(queue)
          /\ row' = [row EXCEPT ![j] = mem[j]]
        BY <1>30 DEF CancelCommit, Cancelling, Holds, PersistTransition, SlotInv, CancelLeavesSlotAlone
    <2>2. /\ row'[j].status \notin NonTerminal /\ row'[j].attempts = row[j].attempts
          /\ \A k \in Jobs \ {j} : row'[k] = row[k]
        BY <1>T, <1>30, <2>1 DEF IsTerminal, Terminal, NonTerminal, SubmissionInv, Held, CancelCommit, Cancelling
    <2>3. \A i \in DOMAIN queue : queue[i] # j
        BY <2>1 DEF ToSet
    <2> QED BY <1>30, <2>1, <2>2, <2>3, HolderReleases DEF CancelCommit, Release
\* During recovery nobody holds the lock and the slot is free.
<1>R. ASSUME NEW j \in Jobs, Recovering(j)
      PROVE  phase = "recovering" /\ active = NoJob /\ line = <<>> /\ handles = {} /\ j \in todo
             /\ at \in {"start", "orphaned"}
    BY <1>R, <1>F DEF Recovering, SlotInv
<1>32. ASSUME NEW j \in Jobs, Rehydrate(j) PROVE SlotInv'
    <2> DEFINE job == [Loaded(j) EXCEPT !.seq = LastSequence(j)]
    <2>1. /\ mem' = [mem EXCEPT ![j] = job] /\ row[j].status = "queued" /\ row[j].attempts = 0
          /\ Enqueue(j) /\ requests' = requests \cup {j} /\ todo' = todo \ {j}
          /\ UNCHANGED <<row, line, at, handles, phase>>
        BY <1>32 DEF Rehydrate, Recovering
    <2>2. phase = "recovering" /\ active = NoJob /\ line = <<>> /\ handles = {} /\ at \in {"start", "orphaned"}
        BY <1>32, <1>R DEF Rehydrate
    <2>3. job.status = "queued"
        BY <2>1, ObjectTypes, JobFields, ChangedFields DEF Loaded
    <2> HIDE DEF job
    <2>4. \A k \in Jobs : mem'[k] = IF k = j THEN job ELSE mem[k]
        BY <1>T, <2>1
    <2>5. QueueIsClaimable'
        <3>1. CASE \E i \in DOMAIN queue : queue[i] = j
            <4>1. queue' = queue /\ active' = active
                BY <2>1, <3>1 DEF Enqueue, ToSet
            <4> QED BY <1>F, <2>1, <2>3, <2>4, <4>1 DEF QueueIsClaimable, IsInjective
        <3>2. CASE ~ \E i \in DOMAIN queue : queue[i] = j
            <4>1. queue' = Append(queue, j) /\ active' = active
                BY <2>1, <2>2, <3>2, NoJobAssumption DEF Enqueue, ToSet
            <4>2. \A i \in DOMAIN queue' :
                     \/ i = Len(queue) + 1 /\ queue'[i] = j
                     \/ i \in DOMAIN queue /\ queue'[i] = queue[i]
                BY <1>T, <4>1, AppendedElements
            <4> QED BY <1>F, <2>1, <2>2, <2>3, <2>4, <3>2, <4>1, <4>2, NoJobAssumption
                DEF QueueIsClaimable, IsInjective
        <3> QED BY <3>1, <3>2
    <2>6. active' = NoJob
        BY <2>1, <2>2 DEF Enqueue
    <2> QED BY <2>1, <2>2, <2>5, <2>6
        DEF SlotInv, SerialExecution, InSlot, HandleOwnsSlot, HolderOwnsSlot, CancelLeavesSlotAlone
\* Recovery ends a job that it does not keep.
<1>W. ASSUME NEW j \in Jobs, Recovering(j), MarkRestartFailure(j) PROVE SlotInv'
    <2> DEFINE old == [Loaded(j) EXCEPT !.seq = LastSequence(j)]
               job == Transitioned(old, "failed")
    <2>1. /\ row' = [row EXCEPT ![j] = job] /\ at' = "start" /\ todo' = todo \ {j}
          /\ UNCHANGED <<mem, queue, active, line, handles, requests, phase>>
        BY <1>W DEF MarkRestartFailure, WriteRecovered, PersistTransition
    <2>2. "failed" \in JobState
        BY DEF JobState, Terminal
    <2>3. old \in Job /\ old.attempts = row[j].attempts
        <3>1. Loaded(j) \in Job /\ LastSequence(j) \in Nat
            BY ObjectTypes
        <3>2. Loaded(j).attempts = row[j].attempts
            BY ObjectAgrees
        <3> QED BY <3>1, <3>2, JobUpdates, ChangedFields
    <2>4. job.status = "failed" /\ job.attempts = row[j].attempts
        BY <2>2, <2>3, ChangedFields
    <2> HIDE DEF job
    <2>5. \A k \in Jobs : row'[k].attempts = row[k].attempts /\ (k # j => row'[k] = row[k])
        BY <1>T, <2>1, <2>4
    <2>6. ~InSlot(j)' /\ \A k \in Jobs : InSlot(k)' => InSlot(k)
        BY <1>T, <2>1, <2>4, <2>5 DEF InSlot, NonTerminal
    <2>7. QueueIsClaimable'
        BY <1>F, <2>1, <2>5 DEF SlotInv, QueueIsClaimable
    <2> QED BY <1>W, <1>R, <2>1, <2>5, <2>6, <2>7
        DEF SlotInv, SerialExecution, HandleOwnsSlot, HolderOwnsSlot, CancelLeavesSlotAlone
<1>33. ASSUME NEW j \in Jobs, FailQueued(j) PROVE SlotInv'
    BY <1>33, <1>W DEF FailQueued
<1>34. ASSUME NEW j \in Jobs, ReportOrphan(j) PROVE SlotInv'
    <2>1. /\ row' = [row EXCEPT ![j].seq = @ + 1] /\ at' = "orphaned"
          /\ UNCHANGED <<mem, queue, active, line, handles, requests, phase, todo>>
        BY <1>34 DEF ReportOrphan, AppendOrphanEvent
    <2>2. \A k \in Jobs : row'[k].attempts = row[k].attempts /\ row'[k].status = row[k].status
        BY <1>T, <2>1, ObjectTypes, ChangedFields DEF Job
    <2>3. QueueIsClaimable'
        BY <1>F, <2>1, <2>2 DEF SlotInv, QueueIsClaimable
    <2> QED BY <2>1, <2>2, <2>3
        DEF SlotInv, SerialExecution, InSlot, HandleOwnsSlot, HolderOwnsSlot, CancelLeavesSlotAlone
<1>35. ASSUME NEW j \in Jobs, FailProcessing(j) PROVE SlotInv'
    BY <1>35, <1>W DEF FailProcessing
<1>36. CASE Crash
    BY <1>36 DEF Crash, SlotInv, SerialExecution, InSlot, HandleOwnsSlot, HolderOwnsSlot,
        CancelLeavesSlotAlone, QueueIsClaimable, IsInjective
<1>37. CASE Restart
    BY <1>37 DEF Restart, SlotInv, SerialExecution, InSlot, HandleOwnsSlot, HolderOwnsSlot,
        CancelLeavesSlotAlone, QueueIsClaimable
<1>38. CASE Serve
    BY <1>38 DEF Serve, SlotInv, SerialExecution, InSlot, HandleOwnsSlot, HolderOwnsSlot,
        CancelLeavesSlotAlone, QueueIsClaimable
<1> QED
    BY <1>0, <1>1, <1>2, <1>3, <1>4, <1>5, <1>6, <1>7, <1>8, <1>9, <1>10, <1>11, <1>12,
        <1>13, <1>14, <1>15, <1>16, <1>17, <1>18, <1>19, <1>20, <1>21, <1>22, <1>23,
        <1>24, <1>25, <1>26, <1>27, <1>28, <1>29, <1>30, <1>31, <1>32, <1>33, <1>34,
        <1>35, <1>36, <1>37, <1>38
    DEF Next, Upload, LockStep, Submission, Inspection, Cancellation, Recover

\* SlotInv holds always.
LEMMA SlotAlways == Spec => []SlotInv
<1>1. Init => SlotInv
    BY ConstantFields DEF Init, DispatcherInit, StoreInit, ServiceInit, SlotInv, SerialExecution,
        InSlot, HolderOwnsSlot, CancelLeavesSlotAlone, HandleOwnsSlot, QueueIsClaimable, IsInjective
<1>2. Spec => []SubmissionInv
    BY SubmissionAlways
<1> QED BY <1>1, <1>2, SlotStep, TypeCorrect, PTL DEF Spec

\* One job at a time is between its reservation and its durable end.
THEOREM SlotIsSerial == Spec => []SerialExecution
<1>1. SlotInv => SerialExecution
    BY DEF SlotInv
<1> QED BY <1>1, SlotAlways, PTL

\* Only the active job has an engine handle and has not ended.
THEOREM OnlyActiveInspected == Spec => []HandleOwnsSlot
<1>1. SlotInv => HandleOwnsSlot
    BY DEF SlotInv
<1> QED BY <1>1, SlotAlways, PTL

\* What waits in the dispatcher can always be claimed.
THEOREM QueueStaysClaimable == Spec => []QueueIsClaimable
<1>1. SlotInv => QueueIsClaimable
    BY DEF SlotInv
<1> QED BY <1>1, SlotAlways, PTL

===============================================================================
