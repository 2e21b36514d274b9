----------------------------- MODULE JobRecordProofs -----------------------------
(***************************************************************************)
(* Memory, row and dispatcher: no job is forgotten (NoJobForgotten), every *)
(* event has a new number (EventsNeverCollide), and the system implements  *)
(* JobLedger, for every set of jobs and any number of crashes, faults and  *)
(* clients.  All follow from RecordInv, which is inductive on top of       *)
(* SubmissionInv and SlotInv.                                              *)
(***************************************************************************)
EXTENDS JobSystemProofs

\* What RecordInv says of one job.
Kept(j) == NotForgotten(j) /\ MemoryIsAhead(j) /\ BegunWasReserved(j)

-------------------------------------------------------------------------------

\* The event number of a changed job, and what recording the engine's id keeps.
LEMMA EventNumbers ==
    ASSUME NEW job \in Job
    PROVE  /\ \A target \in JobState : Transitioned(job, target).seq = job.seq + 1
           /\ \A p \in Nat : /\ WithProgress(job, p).seq = job.seq + 1
                             /\ [job EXCEPT !.progress = p].seq = job.seq
           /\ \A n \in Nat : /\ [job EXCEPT !.seq = n].seq = n
                             /\ [job EXCEPT !.attempts = n].seq = job.seq
           /\ [job EXCEPT !.engine = TRUE].seq = job.seq
           /\ [job EXCEPT !.engine = TRUE].status = job.status
<1>1. \A target \in JobState : Transitioned(job, target).seq = job.seq + 1
    BY DEF Transitioned, Job
<1>2. \A p \in Nat : /\ WithProgress(job, p).seq = job.seq + 1
                     /\ [job EXCEPT !.progress = p].seq = job.seq
    BY DEF WithProgress, Job
<1>3. \A n \in Nat : /\ [job EXCEPT !.seq = n].seq = n
                     /\ [job EXCEPT !.attempts = n].seq = job.seq
    BY DEF Job
<1>4. /\ [job EXCEPT !.engine = TRUE].seq = job.seq
      /\ [job EXCEPT !.engine = TRUE].status = job.status
    BY DEF Job
<1> QED BY <1>1, <1>2, <1>3, <1>4

\* A job that a step does not touch stays kept.
LEMMA UntouchedIsKept ==
    ASSUME TypeOK, TypeOK', NEW k \in Jobs, Kept(k),
           mem'[k] = mem[k], row'[k] = row[k], creating'[k] = "accepted" => creating[k] = "accepted",
           creating[k] = "accepted" /\ row[k].status \in NonTerminal => creating'[k] = "accepted",
           k \in handles' => k \in handles, prompts[k] > 0 => prompts'[k] > 0,
           phase' = phase, k \in todo' <=> k \in todo,
           phase = "recovering" /\ k \in ToSet(queue) => k \in ToSet(queue'),
           phase = "up" /\ (k \in ToSet(queue) \/ k = active) =>
               k \in ToSet(queue') \/ k = active' \/ IsTerminal(mem[k])
    PROVE  Kept(k)'
<1>1. NotForgotten(k)'
    BY DEF Kept, NotForgotten, IsTerminal
<1>2. MemoryIsAhead(k)'
    BY DEF Kept, MemoryIsAhead, Held
<1>3. BegunWasReserved(k)'
    BY DEF Kept, BegunWasReserved
<1> QED BY <1>1, <1>2, <1>3 DEF Kept

\* A step that touches no job's object, row or place.
LEMMA NothingTouched ==
    ASSUME TypeOK, TypeOK', \A k \in Jobs : Kept(k),
           UNCHANGED <<mem, row, creating, queue, active, phase, todo>>,
           handles' \subseteq handles,
           \A k \in Jobs : prompts[k] > 0 => prompts'[k] > 0
    PROVE  \A k \in Jobs : Kept(k)'
<1> TAKE k \in Jobs
<1> QED BY UntouchedIsKept

\* A step of the lock's holder leaves the other jobs kept.
LEMMA OthersKept ==
    ASSUME TypeOK, TypeOK', \A k \in Jobs : Kept(k), NEW j \in Jobs,
           \A k \in Jobs \ {j} : mem'[k] = mem[k] /\ row'[k] = row[k],
           handles' \subseteq handles \cup {j},
           \A k \in Jobs \ {j} : prompts'[k] = prompts[k],
           phase = "up", active' = active \/ active = j,
           \A k \in Jobs \ {j} : k \in ToSet(queue) => k \in ToSet(queue'),
           UNCHANGED <<creating, phase, todo>>
    PROVE  \A k \in Jobs \ {j} : Kept(k)'
<1> TAKE k \in Jobs \ {j}
<1> QED BY UntouchedIsKept

\* Nothing more is asked when no step of a holder is under way ...
LEMMA RecordWhenFree ==
    ASSUME \A k \in Jobs : Kept(k)', at' \in {"start", "orphaned"}
    PROVE  RecordInv'
BY DEF RecordInv, Kept, HolderExpects

\* ... and otherwise what the holder's job j needs.
LEMMA RecordWhenHeld ==
    ASSUME \A k \in Jobs : Kept(k)', NEW j, Head(line').job = j, HolderExpects(j)'
    PROVE  RecordInv'
BY DEF RecordInv, Kept, HolderExpects

\* The three parts of Kept, for the job a step works on.
LEMMA KeptParts ==
    ASSUME NEW j, NotForgotten(j)', MemoryIsAhead(j)', BegunWasReserved(j)'
    PROVE  Kept(j)'
BY DEF Kept

-------------------------------------------------------------------------------

\* Every step of the system keeps RecordInv.
LEMMA RecordStep ==
    ASSUME TypeOK, TypeOK', SubmissionInv, SubmissionInv', SlotInv, SlotInv', RecordInv, [Next]_vars
    PROVE  RecordInv'
<1> USE DEF dispatcherVars, storeVars, memoryVars, lockVars, uploadVars, lifeVars
<1>T. /\ queue \in Seq(Jobs) /\ active \in Jobs \cup {NoJob} /\ mem \in [Jobs -> Job]
      /\ row \in [Jobs -> Job] /\ line \in Seq(LockTask) /\ prompts \in [Jobs -> Nat]
      /\ creating \in [Jobs -> {"idle", "accepting", "accepted", "known", "lost"}]
      /\ handles \subseteq Jobs
    BY DEF TypeOK, DispatcherTypeOK, StoreTypeOK, ServiceTypeOK
<1>N. \A k \in Jobs : /\ mem[k].seq \in Nat /\ row[k].seq \in Nat
                      /\ mem[k] \in Job /\ row[k] \in Job
                      /\ mem[k].status \in JobState \cup {"absent"}
    BY <1>T, JobFields
<1>K. \A k \in Jobs : Kept(k)
    BY DEF RecordInv, Kept
<1>F. /\ \A i \in DOMAIN queue :
             /\ queue[i] \in Jobs /\ queue[i] # active /\ Held(queue[i])
             /\ mem[queue[i]].status = "queued" /\ ~IsTerminal(mem[queue[i]])
             /\ row[queue[i]].attempts = 0 /\ queue[i] \in requests
             /\ queue[i] \notin handles
      /\ line = <<>> => at \in {"start", "orphaned"}
    BY SlotFacts
<1>S. \A j \in ToSet(queue) : /\ mem[j].status = "queued" /\ Held(j) /\ j \in requests
                              /\ row[j].attempts = 0 /\ j # active
    BY <1>F DEF ToSet
\* What the holder of the lock knows of its job.
<1>H. ASSUME NEW j, NEW step, Advancing(j, step) \/ Cancelling(j, step)
      PROVE  /\ phase = "up" /\ line # <<>> /\ Head(line).job = j /\ at = step
             /\ HolderExpects(j)
             /\ step \notin {"start", "orphaned"} => Held(j)
             /\ step \in {"reserve", "submit", "save", "first", "bridge", "persist", "giveUp"} => active = j
             /\ step = "reserve" => row[j].attempts = 0
    BY <1>H DEF Advancing, Cancelling, Holds, SlotInv, HolderOwnsSlot, RecordInv, SubmissionInv
\* What is inspected is the active job.
<1>I. ASSUME NEW j, Inspecting(j)
      PROVE  /\ phase = "up" /\ line # <<>> /\ Head(line).job = j /\ active = j /\ j \in handles
             /\ mem[j].status \in NonTerminal /\ Held(j)
             /\ row[j].attempts = 1 /\ prompts[j] > 0 /\ row[j].status \in NonTerminal
             /\ mem[j].seq >= row[j].seq
    <2>1. /\ phase = "up" /\ line # <<>> /\ Head(line).job = j /\ j \in handles
          /\ ~IsTerminal(mem[j]) /\ j \in Jobs
        BY <1>I, <1>T DEF Inspecting, Advancing, Holds
    <2>2. active = j /\ Held(j)
        BY <2>1 DEF SlotInv, HandleOwnsSlot, SubmissionInv
    <2>3. mem[j].status \in NonTerminal
        BY <1>N, <2>1, <2>2 DEF Held, IsTerminal, JobState
    <2> QED BY <1>K, <2>1, <2>2, <2>3 DEF Kept, BegunWasReserved, MemoryIsAhead, NonTerminal
<1>0. CASE UNCHANGED vars
    BY <1>0 DEF vars, RecordInv, NotForgotten, MemoryIsAhead, BegunWasReserved, HolderExpects,
        IsTerminal, Held, FreshEvent
\* A task joins the line.
<1>J. ASSUME NEW by \in By, NEW j \in Jobs, line' = Append(line, Task(by, j)), phase = "up",
             UNCHANGED <<mem, row, creating, queue, active, at, handles, prompts, phase, todo>>
      PROVE  RecordInv'
    <2>1. Task(by, j) \in LockTask
        BY DEF Task, LockTask
    <2>2. line' # <<>> /\ (line # <<>> => Head(line') = Head(line))
        BY <1>T, <1>J, <2>1, GrownSequence
    <2>3. \A k \in Jobs : Kept(k)'
        BY <1>J, <1>K, NothingTouched
    <2> HIDE DEF Task
    <2>4. CASE line = <<>>
        BY <1>F, <1>J, <2>3, <2>4, RecordWhenFree
    <2>5. CASE line # <<>>
        <3>1. HolderExpects(Head(line).job)
            BY <2>5 DEF RecordInv
        <3>2. PICK h : h = Head(line).job
            OBVIOUS
        <3>3. HolderExpects(h)'
            BY <1>J, <3>1, <3>2 DEF HolderExpects, FreshEvent
        <3> QED BY <2>2, <2>3, <2>5, <3>2, <3>3, RecordWhenHeld
    <2> QED BY <2>4, <2>5
<1>1. CASE WorkerTick
    <2>0. (IF active # NoJob THEN active ELSE Head(queue)) \in Jobs
        BY <1>1, <1>T DEF WorkerTick
    <2>1. PICK j \in Jobs : /\ j = IF active # NoJob THEN active ELSE Head(queue)
                            /\ mem' = [mem EXCEPT ![j] = JobObject(j)]
                            /\ line' = Append(line, Task("worker", j))
        BY <1>1, <2>0 DEF WorkerTick
    <2>2. Held(j)
        BY <1>1, <1>T, <2>1 DEF WorkerTick, SubmissionInv
    <2>3. mem' = mem
        BY <1>T, <2>1, <2>2, ObjectAgrees
    <2> QED BY <1>1, <1>J, <2>1, <2>3 DEF WorkerTick, By
<1>2. ASSUME NEW j \in Jobs, Poll(j) PROVE RecordInv'
    <2>1. CASE IsTerminal(JobObject(j))
        BY <1>2, <2>1 DEF Poll, RecordInv, NotForgotten, MemoryIsAhead, BegunWasReserved,
            HolderExpects, IsTerminal, Held, FreshEvent
    <2>2. CASE ~IsTerminal(JobObject(j))
        BY <1>2, <1>J, <2>2 DEF Poll, Join, By
    <2> QED BY <2>1, <2>2
<1>3. ASSUME NEW j \in Jobs, AskCancel(j) PROVE RecordInv'
    BY <1>3, <1>J DEF AskCancel, Join, By
\* The holder gives the lock back and touches no job.
<1>L. ASSUME at' = "start", UNCHANGED <<mem, row, creating, queue, active, handles, prompts, phase, todo>>
      PROVE  RecordInv'
    BY <1>K, <1>L, NothingTouched, RecordWhenFree
<1>8. ASSUME NEW j \in Jobs, AdvanceTerminal(j) PROVE RecordInv'
    BY <1>8, <1>L DEF AdvanceTerminal, Release
<1>9. ASSUME NEW j \in Jobs, ClaimNothing(j) PROVE RecordInv'
    BY <1>9, <1>L DEF ClaimNothing, Release
<1>15. ASSUME NEW j \in Jobs, FirstInspect(j) PROVE RecordInv'
    BY <1>15, <1>L DEF FirstInspect, Release
<1>20. ASSUME NEW j \in Jobs, InspectQueued(j) PROVE RecordInv'
    BY <1>20, <1>L DEF InspectQueued, Release
<1>26. ASSUME NEW j \in Jobs, InspectRaises(j) PROVE RecordInv'
    BY <1>26, <1>L DEF InspectRaises, Release
<1>27. ASSUME NEW j \in Jobs, PersistRaises(j) PROVE RecordInv'
    BY <1>27, <1>L DEF PersistRaises, Release
<1>31. ASSUME NEW j \in Jobs, CancelRaises(j) PROVE RecordInv'
    BY <1>31, <1>L DEF CancelRaises, Release
\* An upload touches its own job, which nobody works on yet.
<1>U. ASSUME NEW j \in Jobs, creating[j] \in {"idle", "accepting", "accepted"}, phase = "up",
             \A k \in Jobs \ {j} : mem'[k] = mem[k] /\ row'[k] = row[k] /\ creating'[k] = creating[k],
             \A k \in Jobs \ {j} : k \in ToSet(queue) => k \in ToSet(queue'),
             Kept(j)',
             UNCHANGED <<active, line, at, handles, prompts, phase, todo>>
      PROVE  RecordInv'
    <2>1. \A k \in Jobs \ {j} : Kept(k)'
        <3> TAKE k \in Jobs \ {j}
        <3> QED BY <1>K, <1>U, UntouchedIsKept
    <2>2. \A k \in Jobs : Kept(k)'
        BY <1>U, <2>1
    <2>3. CASE at \in {"start", "orphaned"}
        BY <1>U, <2>2, <2>3, RecordWhenFree
    <2>4. CASE at \notin {"start", "orphaned"}
        <3>1. line # <<>> /\ Held(Head(line).job) /\ Head(line).job \in Jobs /\ Head(line).job # j
            BY <1>T, <1>U, <2>4, LineTypes DEF SubmissionInv, LockTask
        <3>2. PICK h \in Jobs \ {j} : h = Head(line).job /\ HolderExpects(h)
            BY <3>1 DEF RecordInv
        <3>3. HolderExpects(h)'
            BY <1>U, <3>2 DEF HolderExpects, FreshEvent
        <3> QED BY <1>U, <2>2, <3>2, <3>3, RecordWhenHeld
    <2> QED BY <2>3, <2>4
<1>4. ASSUME NEW j \in Jobs, BeginUpload(j) PROVE RecordInv'
    <2>1. /\ creating[j] = "idle" /\ phase = "up" /\ creating' = [creating EXCEPT ![j] = "accepting"]
          /\ UNCHANGED <<mem, row, queue, active, line, at, handles, prompts, phase, todo>>
        BY <1>4 DEF BeginUpload
    <2>2. Kept(j)'
        BY <1>K, <1>T, <2>1, UntouchedIsKept
    <2> QED BY <1>T, <1>U, <2>1, <2>2
<1>6. ASSUME NEW j \in Jobs, RefuseUpload(j) PROVE RecordInv'
    <2>1. /\ creating[j] = "accepting" /\ phase = "up" /\ creating' = [creating EXCEPT ![j] = "lost"]
          /\ UNCHANGED <<mem, row, queue, active, line, at, handles, prompts, phase, todo>>
        BY <1>6 DEF RefuseUpload
    <2>2. Kept(j)'
        BY <1>K, <1>T, <2>1, UntouchedIsKept
    <2> QED BY <1>T, <1>U, <2>1, <2>2
<1>5. ASSUME NEW j \in Jobs, CommitUpload(j) PROVE RecordInv'
    <2>1. /\ creating[j] = "accepting" /\ phase = "up" /\ creating' = [creating EXCEPT ![j] = "accepted"]
          /\ row' = [row EXCEPT ![j] = Accepted]
          /\ UNCHANGED <<mem, queue, active, line, at, handles, prompts, phase, todo>>
        BY <1>5 DEF CommitUpload, AcceptJob
    <2>2. row'[j] = Accepted /\ creating'[j] = "accepted" /\ mem'[j] = mem[j] /\ ~Held(j)
        BY <1>T, <2>1 DEF SubmissionInv
    <2>3. mem[j] = Absent /\ j \notin handles
        BY <1>K, <2>2 DEF Kept, MemoryIsAhead, SubmissionInv
    <2>4. NotForgotten(j)'
        BY <2>1, <2>2 DEF NotForgotten
    <2>5. MemoryIsAhead(j)'
        BY <2>2, <2>3, ConstantFields DEF MemoryIsAhead, Held, NonTerminal
    <2>6. BegunWasReserved(j)'
        BY <2>1, <2>2, <2>3, ConstantFields DEF BegunWasReserved
    <2> QED BY <1>T, <1>U, <2>1, <2>4, <2>5, <2>6, KeptParts
<1>7. ASSUME NEW j \in Jobs, FinishUpload(j) PROVE RecordInv'
    <2>1. /\ creating[j] = "accepted" /\ phase = "up" /\ creating' = [creating EXCEPT ![j] = "known"]
          /\ mem' = [mem EXCEPT ![j] = Accepted] /\ Enqueue(j)
          /\ UNCHANGED <<row, active, line, at, handles, prompts, phase, todo>>
        BY <1>7 DEF FinishUpload, Enqueue
    <2>2. ~Held(j) /\ row[j] = Accepted /\ j \notin handles /\ active # j
        BY <1>K, <1>T, <2>1, NoJobAssumption DEF Kept, BegunWasReserved, SubmissionInv
    <2>3. j \notin ToSet(queue)
        BY <1>S, <2>2
    <2>4. queue' = Append(queue, j) /\ ToSet(queue') = ToSet(queue) \cup {j}
        BY <1>T, <2>1, <2>2, <2>3, GrownSet DEF Enqueue
    <2>5. mem'[j] = Accepted /\ row'[j] = Accepted /\ creating'[j] = "known"
        BY <1>T, <2>1, <2>2
    <2>6. NotForgotten(j)'
        BY <2>1, <2>4 DEF NotForgotten
    <2>7. MemoryIsAhead(j)'
        <3>1. Accepted.seq >= Accepted.seq
            BY DEF Accepted, Absent
        <3> QED BY <2>1, <2>5, <3>1, ConstantFields DEF MemoryIsAhead, Held
    <2>8. BegunWasReserved(j)'
        BY <2>1, <2>2, <2>5, ConstantFields DEF BegunWasReserved
    <2> QED BY <1>T, <1>U, <2>1, <2>4, <2>6, <2>7, <2>8, KeptParts
\* A holder whose job is the active one, or leaves the queue, and only its job changes.
<1>O. ASSUME NEW j \in Jobs, phase = "up",
             \A k \in Jobs \ {j} : mem'[k] = mem[k] /\ row'[k] = row[k] /\ prompts'[k] = prompts[k],
             handles' \subseteq handles \cup {j}, active' = active \/ active = j,
             \A k \in Jobs \ {j} : k \in ToSet(queue) => k \in ToSet(queue'),
             Kept(j)', UNCHANGED <<creating, phase, todo>>
      PROVE  \A k \in Jobs : Kept(k)'
    <2>1. \A k \in Jobs \ {j} : Kept(k)'
        BY <1>K, <1>O, OthersKept
    <2> QED BY <1>O, <2>1
<1>10. ASSUME NEW j \in Jobs, ClaimOther(j) PROVE RecordInv'
    <2>1. /\ phase = "up" /\ active = NoJob /\ queue # <<>> /\ at' = "start"
          /\ active' = Head(queue) /\ queue' = Tail(queue)
          /\ UNCHANGED <<mem, row, creating, handles, prompts, phase, todo>>
        BY <1>10, <1>H DEF ClaimOther, ClaimNext, NothingToClaim, Unsubmitted, Release
    <2>2. ToSet(queue') = ToSet(queue) \ {active'}
        BY <1>T, <2>1, ShrunkSet DEF SlotInv, QueueIsClaimable
    <2>3. \A k \in Jobs : Kept(k)'
        <3> TAKE k \in Jobs
        <3> QED BY <1>K, <2>1, <2>2, NoJobAssumption, UntouchedIsKept
    <2> QED BY <2>1, <2>3, RecordWhenFree
<1>11. ASSUME NEW j \in Jobs, ClaimOwn(j) PROVE RecordInv'
    <2>1. /\ phase = "up" /\ active = NoJob /\ queue # <<>> /\ Head(queue) = j
          /\ line # <<>> /\ Head(line).job = j /\ queue' = Tail(queue)
          /\ UNCHANGED <<mem, row, creating, handles, prompts, phase, todo>>
        BY <1>11, <1>H DEF ClaimOwn, NothingToClaim, Unsubmitted
    <2>2. ToSet(queue') = ToSet(queue) \ {j} /\ j \in ToSet(queue)
        BY <1>T, <2>1, ShrunkSet DEF SlotInv, QueueIsClaimable
    <2>3. active' = j /\ at' = "reserve" /\ line' = line
        BY <1>11, <1>S, <2>2 DEF ClaimOwn
    <2>4. \A k \in Jobs : Kept(k)'
        <3> TAKE k \in Jobs
        <3> QED BY <1>K, <2>1, <2>2, <2>3, NoJobAssumption, UntouchedIsKept
    <2>5. HolderExpects(j)'
        BY <1>S, <2>1, <2>2, <2>3 DEF HolderExpects
    <2> QED BY <2>1, <2>3, <2>4, <2>5, RecordWhenHeld
<1>12. ASSUME NEW j \in Jobs, Reserve(j) PROVE RecordInv'
    <2>1. /\ phase = "up" /\ line # <<>> /\ Head(line).job = j /\ active = j /\ Held(j)
          /\ row[j].attempts = 0 /\ mem[j].status = "queued" /\ row[j].status = "queued"
          /\ mem[j].seq >= row[j].seq /\ at = "reserve"
        <3>1. /\ phase = "up" /\ line # <<>> /\ Head(line).job = j /\ active = j /\ Held(j)
              /\ row[j].attempts = 0 /\ mem[j].status = "queued" /\ at = "reserve"
            BY <1>12, <1>H DEF Reserve, HolderExpects
        <3> QED BY <1>K, <3>1 DEF Kept, MemoryIsAhead, NonTerminal
    <2>2. Reservable(j)
        BY <2>1 DEF Reservable
    <2>3. /\ row' = [row EXCEPT ![j].attempts = @ + 1] /\ mem' = [mem EXCEPT ![j].attempts = 1]
          /\ at' = "submit"
          /\ UNCHANGED <<queue, active, line, creating, handles, prompts, phase, todo>>
        BY <1>12, <2>2 DEF Reserve, ReserveSubmission
    <2>4. /\ row'[j].status = "queued" /\ row'[j].seq = row[j].seq /\ row'[j].attempts = 1
          /\ mem'[j].status = "queued" /\ mem'[j].seq = mem[j].seq
        <3>1. row'[j] = [row[j] EXCEPT !.attempts = row[j].attempts + 1]
              /\ mem'[j] = [mem[j] EXCEPT !.attempts = 1]
            BY <1>T, <2>3
        <3> QED BY <1>N, <2>1, <3>1, ChangedFields, EventNumbers
    <2>5. Kept(j)'
        <3>1. NotForgotten(j)'
            BY <2>1, <2>3 DEF NotForgotten
        <3>2. MemoryIsAhead(j)'
            BY <2>1, <2>3, <2>4 DEF MemoryIsAhead, Held
        <3>3. BegunWasReserved(j)'
            <4>1. j \notin handles /\ creating[j] # "accepted"
                BY <1>K, <2>1 DEF Kept, BegunWasReserved, SubmissionInv
            <4> QED BY <2>3, <2>4, <4>1 DEF BegunWasReserved
        <3> QED BY <3>1, <3>2, <3>3, KeptParts
    <2>6. \A k \in Jobs : Kept(k)'
        BY <1>O, <1>T, <2>1, <2>3, <2>5
    <2>7. HolderExpects(j)'
        BY <2>3, <2>4 DEF HolderExpects
    <2> QED BY <2>1, <2>3, <2>6, <2>7, RecordWhenHeld
\* A step of a submission in which the object changes, and the row does not.
<1>M. ASSUME NEW j \in Jobs, phase = "up", active = j, Held(j), Held(j)', row' = row,
             \A k \in Jobs \ {j} : mem'[k] = mem[k] /\ prompts'[k] = prompts[k],
             mem'[j].status \in NonTerminal =>
                 mem'[j].seq >= row[j].seq /\ row[j].status \in {"queued", mem'[j].status},
             mem'[j].status = "processing" => row[j].attempts = 1,
             prompts[j] > 0 => prompts'[j] > 0,
             UNCHANGED <<queue, active, creating, handles, phase, todo>>
      PROVE  \A k \in Jobs : Kept(k)'
    <2>1. NotForgotten(j)'
        BY <1>M DEF NotForgotten
    <2>2. MemoryIsAhead(j)'
        BY <1>M, <1>K DEF MemoryIsAhead, Kept
    <2>3. BegunWasReserved(j)'
        BY <1>M, <1>K DEF BegunWasReserved, Kept
    <2> QED BY <1>M, <1>O, <2>1, <2>2, <2>3, KeptParts
\* What a holder in the middle of a submission knows.
<1>P. ASSUME NEW j \in Jobs, NEW step \in {"reserve", "submit", "save", "first"}, Advancing(j, step)
      PROVE  /\ phase = "up" /\ line # <<>> /\ Head(line).job = j /\ at = step /\ active = j /\ Held(j)
             /\ mem[j].status = "queued" /\ row[j].status = "queued" /\ mem[j].seq >= row[j].seq
             /\ step # "reserve" => row[j].attempts = 1
             /\ step \in {"save", "first"} => prompts[j] > 0
    <2>1. /\ phase = "up" /\ line # <<>> /\ Head(line).job = j /\ at = step /\ active = j /\ Held(j)
          /\ HolderExpects(j)
        BY <1>P, <1>H
    <2>2. mem[j].status = "queued"
        BY <2>1 DEF HolderExpects
    <2>3. row[j].status = "queued" /\ mem[j].seq >= row[j].seq
        BY <1>K, <2>2 DEF Kept, MemoryIsAhead, NonTerminal
    <2> QED BY <2>1, <2>2, <2>3 DEF HolderExpects
<1>13. ASSUME NEW j \in Jobs, SubmitAccepted(j) PROVE RecordInv'
    <2>1. /\ Advancing(j, "submit") /\ prompts' = [prompts EXCEPT ![j] = @ + 1]
          /\ mem' = [mem EXCEPT ![j].engine = TRUE] /\ at' = "save" /\ row' = row
          /\ UNCHANGED <<queue, active, line, creating, handles, phase, todo>>
        BY <1>13 DEF SubmitAccepted
    <2>2. mem'[j] = [mem[j] EXCEPT !.engine = TRUE] /\ prompts'[j] > 0
        BY <1>T, <2>1
    <2>3. mem'[j].status = mem[j].status /\ mem'[j].seq = mem[j].seq
        BY <1>N, <2>2, EventNumbers
    <2>4. /\ line # <<>> /\ Head(line).job = j /\ row[j].attempts = 1 /\ phase = "up" /\ active = j
          /\ mem[j].status = "queued" /\ row[j].status = "queued" /\ mem[j].seq >= row[j].seq
        BY <1>P, <2>1
    <2>5. \A k \in Jobs : Kept(k)'
        BY <1>M, <1>T, <2>1, <2>2, <2>3, <2>4 DEF Held
    <2>6. HolderExpects(j)'
        BY <2>1, <2>2, <2>3, <2>4 DEF HolderExpects
    <2> QED BY <2>1, <2>4, <2>5, <2>6, RecordWhenHeld
<1>14. ASSUME NEW j \in Jobs, SaveHandle(j) PROVE RecordInv'
    <2>1. /\ Advancing(j, "save") /\ row' = [row EXCEPT ![j] = [mem[j] EXCEPT !.seq = row[j].seq]]
          /\ handles' = handles \cup {j} /\ at' = "first"
          /\ UNCHANGED <<mem, queue, active, line, creating, prompts, phase, todo>>
        BY <1>14 DEF SaveHandle, UpdateJob
    <2>2. /\ line # <<>> /\ Head(line).job = j /\ row[j].attempts = 1 /\ phase = "up" /\ active = j
          /\ mem[j].status = "queued" /\ row[j].status = "queued" /\ mem[j].seq >= row[j].seq
          /\ Held(j) /\ prompts[j] > 0
        BY <1>P, <2>1
    <2>3. /\ row'[j].status = "queued" /\ row'[j].seq = row[j].seq /\ row'[j].attempts = 1
        <3>1. row'[j] = [mem[j] EXCEPT !.seq = row[j].seq]
            BY <1>T, <2>1
        <3>2. mem[j].attempts = 1
            BY <2>2 DEF SubmissionInv
        <3> QED BY <1>N, <2>2, <3>1, <3>2, ChangedFields, EventNumbers
    <2>4. Kept(j)'
        <3>1. NotForgotten(j)'
            BY <2>1, <2>2 DEF NotForgotten
        <3>2. MemoryIsAhead(j)'
            BY <2>1, <2>2, <2>3 DEF MemoryIsAhead, Held
        <3>3. BegunWasReserved(j)'
            <4>1. creating[j] # "accepted"
                BY <2>2 DEF SubmissionInv
            <4> QED BY <2>1, <2>2, <2>3, <4>1 DEF BegunWasReserved
        <3> QED BY <3>1, <3>2, <3>3, KeptParts
    <2>5. \A k \in Jobs : Kept(k)'
        BY <1>O, <1>T, <2>1, <2>2, <2>4
    <2>6. HolderExpects(j)'
        BY <2>1, <2>2, <2>3 DEF HolderExpects
    <2> QED BY <2>1, <2>2, <2>5, <2>6, RecordWhenHeld
\* A submission that fails ends the job in memory.
<1>G. ASSUME NEW j \in Jobs, NEW step \in {"reserve", "submit", "save", "first"},
             Advancing(j, step), GiveUp(j),
             \A k \in Jobs \ {j} : prompts'[k] = prompts[k], prompts[j] > 0 => prompts'[j] > 0
      PROVE  RecordInv'
    <2>1. /\ mem' = [mem EXCEPT ![j] = Transitioned(mem[j], "failed")] /\ at' = "giveUp"
          /\ UNCHANGED <<row, queue, active, line, creating, handles, phase, todo>>
        BY <1>G DEF GiveUp
    <2>2. /\ line # <<>> /\ Head(line).job = j /\ phase = "up" /\ active = j /\ Held(j)
          /\ row[j].status = "queued" /\ mem[j].seq >= row[j].seq
        BY <1>G, <1>P
    <2>3. mem'[j].status = "failed" /\ mem'[j].seq = mem[j].seq + 1
        <3>1. mem'[j] = Transitioned(mem[j], "failed") /\ "failed" \in JobState
            BY <1>T, <2>1 DEF JobState, Terminal
        <3> QED BY <1>N, <3>1, ChangedFields, EventNumbers
    <2>4. \A k \in Jobs : Kept(k)'
        BY <1>G, <1>M, <1>T, <2>1, <2>2, <2>3 DEF Held, NonTerminal
    <2>5. HolderExpects(j)'
        <3>1. FreshEvent(j, mem[j])'
            BY <1>N, <2>1, <2>2, <2>3 DEF FreshEvent
        <3> QED BY <2>1, <2>2, <2>3, <3>1 DEF HolderExpects, NonTerminal
    <2> QED BY <2>1, <2>2, <2>4, <2>5, RecordWhenHeld
<1>16. ASSUME NEW j \in Jobs, SubmitRefused(j) PROVE RecordInv'
    BY <1>16, <1>G DEF SubmitRefused
<1>17. ASSUME NEW j \in Jobs, SubmitAnswerLost(j) PROVE RecordInv'
    BY <1>17, <1>G, <1>T DEF SubmitAnswerLost
<1>18. ASSUME NEW j \in Jobs, SubmissionRaises(j) PROVE RecordInv'
    BY <1>18, <1>G DEF SubmissionRaises
\* An observation takes the object of the active job ahead of its row.
<1>C. ASSUME NEW j \in Jobs, NEW status \in {"processing"} \cup Terminal,
             phase = "up", line # <<>>, Head(line).job = j, active = j, Held(j),
             row[j].attempts = 1, prompts[j] > 0, row[j].status \in NonTerminal,
             mem[j].seq >= row[j].seq,
             \A k \in Jobs \ {j} : mem'[k] = mem[k],
             mem'[j].status = status, mem'[j].seq = mem[j].seq + 1,
             at' = "persist" \/ (at' = "bridge" /\ status = "processing"),
             UNCHANGED <<row, queue, active, line, creating, handles, prompts, phase, todo>>
      PROVE  RecordInv'
    <2>1. Held(j)'
        BY <1>C DEF Held, Terminal
    <2>2. \A k \in Jobs : Kept(k)'
        <3>1. mem'[j].seq >= row[j].seq
            BY <1>C, <1>N
        <3>2. mem'[j].status \in NonTerminal => row[j].status \in {"queued", mem'[j].status}
            BY <1>C DEF NonTerminal, Terminal
        <3> QED BY <1>C, <1>M, <2>1, <3>1, <3>2
    <2>3. FreshEvent(j, mem[j])'
        BY <1>C, <1>N DEF FreshEvent
    <2>4. HolderExpects(j)'
        BY <1>C, <2>3 DEF HolderExpects
    <2> QED BY <1>C, <2>2, <2>4, RecordWhenHeld
<1>21. ASSUME NEW j \in Jobs, InspectProcessing(j) PROVE RecordInv'
    <2>1. /\ phase = "up" /\ line # <<>> /\ Head(line).job = j /\ active = j /\ Held(j)
          /\ row[j].attempts = 1 /\ prompts[j] > 0 /\ row[j].status \in NonTerminal
          /\ mem[j].seq >= row[j].seq
        BY <1>21, <1>I DEF InspectProcessing
    <2>2. UNCHANGED <<row, queue, active, creating, handles, prompts, phase, todo>>
        BY <1>21 DEF InspectProcessing
    <2>3. PICK p \in mem[j].progress .. MaxProgress :
              \/ Release /\ UNCHANGED mem
              \/ /\ mem' = [mem EXCEPT ![j] =
                            IF @.status = "processing"
                            THEN WithProgress(@, p)
                            ELSE [Transitioned(@, "processing") EXCEPT !.progress = p]]
                 /\ at' = "persist"
                 /\ UNCHANGED line
        BY <1>21 DEF InspectProcessing
    <2>4. CASE Release /\ UNCHANGED mem
        BY <1>L, <2>2, <2>4 DEF Release
    <2>5. CASE ~(Release /\ UNCHANGED mem)
        <3>1. p \in Nat
            BY <1>N, JobFields, ServiceAssumption DEF ServiceAssumption
        <3>2. mem'[j] = IF mem[j].status = "processing"
                        THEN WithProgress(mem[j], p)
                        ELSE [Transitioned(mem[j], "processing") EXCEPT !.progress = p]
            BY <1>T, <2>3, <2>5
        <3>3. mem'[j].status = "processing" /\ mem'[j].seq = mem[j].seq + 1
            <4>1. CASE mem[j].status = "processing"
                BY <1>N, <3>1, <3>2, <4>1, ChangedFields, EventNumbers
            <4>2. CASE mem[j].status # "processing"
                <5>1. "processing" \in JobState
                    BY DEF JobState, NonTerminal
                <5>2. PICK job \in Job : job = Transitioned(mem[j], "processing")
                    BY <1>N, <5>1, JobUpdates
                <5>3. job.status = "processing" /\ job.seq = mem[j].seq + 1
                    BY <1>N, <5>1, <5>2, ChangedFields, EventNumbers
                <5>4. mem'[j] = [job EXCEPT !.progress = p]
                    BY <3>2, <4>2, <5>2
                <5> QED BY <3>1, <5>3, <5>4, ChangedFields, EventNumbers
            <4> QED BY <4>1, <4>2
        <3>4. at' = "persist" /\ line' = line /\ \A k \in Jobs \ {j} : mem'[k] = mem[k]
            BY <1>T, <2>3, <2>5
        <3> QED BY <1>C, <2>1, <2>2, <3>3, <3>4
    <2> QED BY <2>4, <2>5
\* A change of the object's status.
<1>V. ASSUME NEW j \in Jobs, NEW target \in {"processing"} \cup Terminal, NEW step, Change(j, target, step)
      PROVE  /\ mem'[j].status = target /\ mem'[j].seq = mem[j].seq + 1
             /\ \A k \in Jobs \ {j} : mem'[k] = mem[k]
             /\ at' = step /\ line' = line
    <2>1. mem'[j] = Transitioned(mem[j], target) /\ target \in JobState
        BY <1>T, <1>V DEF Change, JobState, NonTerminal
    <2>2. \A k \in Jobs \ {j} : mem'[k] = mem[k]
        BY <1>T, <1>V DEF Change
    <2>3. mem'[j].status = target /\ mem'[j].seq = mem[j].seq + 1
        BY <1>N, <2>1, ChangedFields, EventNumbers
    <2> QED BY <1>V, <2>2, <2>3 DEF Change
<1>22. ASSUME NEW j \in Jobs, InspectSucceeded(j) PROVE RecordInv'
    <2>1. UNCHANGED <<row, queue, active, creating, handles, prompts, phase, todo>> /\ Inspecting(j)
        BY <1>22 DEF InspectSucceeded
    <2>2. PICK target \in {"processing"} \cup Terminal, step \in {"bridge", "persist"} :
              Change(j, target, step) /\ (step = "bridge" => target = "processing")
        BY <1>22 DEF InspectSucceeded, Decide, Terminal
    <2>3. /\ mem'[j].status = target /\ mem'[j].seq = mem[j].seq + 1
          /\ \A k \in Jobs \ {j} : mem'[k] = mem[k]
          /\ at' = step /\ line' = line
        BY <1>V, <2>2
    <2>4. /\ phase = "up" /\ line # <<>> /\ Head(line).job = j /\ active = j /\ Held(j)
          /\ row[j].attempts = 1 /\ prompts[j] > 0 /\ row[j].status \in NonTerminal
          /\ mem[j].seq >= row[j].seq
        BY <1>I, <2>1
    <2> QED BY <1>C, <2>1, <2>2, <2>3, <2>4
<1>23. ASSUME NEW j \in Jobs, InspectEnded(j) PROVE RecordInv'
    <2>1. UNCHANGED <<row, queue, active, creating, handles, prompts, phase, todo>> /\ Inspecting(j)
        BY <1>23 DEF InspectEnded
    <2>2. PICK target \in {"processing"} \cup Terminal : Change(j, target, "persist")
        BY <1>23 DEF InspectEnded, Decide, Terminal
    <2>3. /\ mem'[j].status = target /\ mem'[j].seq = mem[j].seq + 1
          /\ \A k \in Jobs \ {j} : mem'[k] = mem[k]
          /\ at' = "persist" /\ line' = line
        BY <1>V, <2>2
    <2>4. /\ phase = "up" /\ line # <<>> /\ Head(line).job = j /\ active = j /\ Held(j)
          /\ row[j].attempts = 1 /\ prompts[j] > 0 /\ row[j].status \in NonTerminal
          /\ mem[j].seq >= row[j].seq
        BY <1>I, <2>1
    <2> QED BY <1>C, <2>1, <2>2, <2>3, <2>4
<1>24. ASSUME NEW j \in Jobs, BridgeCommit(j) PROVE RecordInv'
    <2>1. /\ Advancing(j, "bridge") /\ row' = [row EXCEPT ![j] = mem[j]]
          /\ Change(j, "completed", "persist")
          /\ UNCHANGED <<queue, active, creating, handles, prompts, phase, todo>>
        BY <1>24 DEF BridgeCommit, PersistTransition
    <2>2. /\ phase = "up" /\ line # <<>> /\ Head(line).job = j /\ active = j /\ Held(j)
          /\ mem[j].status = "processing" /\ row[j].attempts = 1 /\ prompts[j] > 0
        BY <1>H, <2>1 DEF HolderExpects
    <2>3. /\ mem'[j].status = "completed" /\ mem'[j].seq = mem[j].seq + 1
          /\ \A k \in Jobs \ {j} : mem'[k] = mem[k]
          /\ at' = "persist" /\ line' = line
        BY <1>V, <2>1 DEF Terminal
    <2>4. row'[j] = mem[j] /\ mem[j].attempts = 1 /\ \A k \in Jobs \ {j} : row'[k] = row[k]
        BY <1>T, <2>1, <2>2 DEF SubmissionInv
    <2>5. Kept(j)'
        <3>1. NotForgotten(j)'
            BY <2>1, <2>2 DEF NotForgotten
        <3>2. MemoryIsAhead(j)'
            BY <2>1, <2>2, <2>3, <2>4 DEF MemoryIsAhead, Held, NonTerminal
        <3>3. BegunWasReserved(j)'
            <4>1. creating[j] # "accepted"
                BY <2>2 DEF SubmissionInv
            <4> QED BY <2>1, <2>2, <2>4, <4>1 DEF BegunWasReserved
        <3> QED BY <3>1, <3>2, <3>3, KeptParts
    <2>6. \A k \in Jobs : Kept(k)'
        BY <1>O, <2>1, <2>2, <2>3, <2>4, <2>5
    <2>7. HolderExpects(j)'
        <3>1. FreshEvent(j, mem[j])'
            BY <1>N, <2>3, <2>4 DEF FreshEvent
        <3> QED BY <2>1, <2>2, <2>3, <2>4, <3>1 DEF HolderExpects, Terminal, NonTerminal
    <2> QED BY <2>2, <2>3, <2>6, <2>7, RecordWhenHeld
\* The row takes over what memory holds, and the holder is done.
<1>Z. ASSUME NEW j \in Jobs, phase = "up", Held(j), row' = [row EXCEPT ![j] = mem[j]],
             IsTerminal(mem[j]) \/ active' = j,
             mem[j].status \in {"processing"} \cup Terminal,
             handles' \subseteq handles, active' = active \/ active = j, at' = "start",
             UNCHANGED <<mem, queue, creating, prompts, phase, todo>>
      PROVE  RecordInv'
    <2>1. row'[j] = mem[j] /\ mem[j].attempts = row[j].attempts /\ \A k \in Jobs \ {j} : row'[k] = row[k]
        BY <1>T, <1>Z DEF SubmissionInv
    <2>2. NotForgotten(j)'
        BY <1>Z DEF NotForgotten
    <2>3. MemoryIsAhead(j)'
        BY <1>N, <1>Z, <2>1 DEF MemoryIsAhead, Held
    <2>4. BegunWasReserved(j)'
        <3>1. creating[j] # "accepted"
            BY <1>Z DEF SubmissionInv
        <3> QED BY <1>K, <1>Z, <2>1, <3>1 DEF BegunWasReserved, Kept, Held
    <2>5. \A k \in Jobs : Kept(k)'
        BY <1>O, <1>Z, <2>1, <2>2, <2>3, <2>4, KeptParts
    <2> QED BY <1>Z, <2>5, RecordWhenFree
<1>19. ASSUME NEW j \in Jobs, GiveUpCommit(j) PROVE RecordInv'
    <2>1. /\ Advancing(j, "giveUp") /\ row' = [row EXCEPT ![j] = mem[j]] /\ active = j /\ at' = "start"
          /\ UNCHANGED <<mem, queue, creating, handles, prompts, phase, todo>>
        BY <1>19 DEF GiveUpCommit, PersistTransition, Complete, Release
    <2>2. phase = "up" /\ Held(j) /\ mem[j].status = "failed"
        BY <1>H, <2>1 DEF HolderExpects
    <2> QED BY <1>Z, <2>1, <2>2 DEF IsTerminal, Terminal
<1>25. ASSUME NEW j \in Jobs, PersistCommit(j) PROVE RecordInv'
    <2>1. /\ Advancing(j, "persist") /\ row' = [row EXCEPT ![j] = mem[j]] /\ at' = "start"
          /\ handles' \subseteq handles
          /\ UNCHANGED <<mem, queue, creating, prompts, phase, todo>>
        BY <1>25 DEF PersistCommit, PersistTransition, Complete, Release
    <2>2. phase = "up" /\ Held(j) /\ mem[j].status \in {"processing"} \cup Terminal /\ active = j
        BY <1>H, <2>1 DEF HolderExpects
    <2>3. IsTerminal(mem[j]) \/ active' = j
        BY <1>25, <2>2 DEF PersistCommit
    <2> QED BY <1>Z, <2>1, <2>2, <2>3
<1>30. ASSUME NEW j \in Jobs, CancelCommit(j) PROVE RecordInv'
    <2>1. /\ Cancelling(j, "cancelPersist") /\ row' = [row EXCEPT ![j] = mem[j]] /\ at' = "start"
          /\ handles' \subseteq handles
          /\ UNCHANGED <<mem, queue, active, creating, prompts, phase, todo>>
        BY <1>30 DEF CancelCommit, PersistTransition, Release
    <2>2. phase = "up" /\ Held(j) /\ mem[j].status = "cancelled"
        BY <1>H, <2>1 DEF HolderExpects
    <2> QED BY <1>Z, <2>1, <2>2 DEF IsTerminal, Terminal
<1>28. ASSUME NEW j \in Jobs, CancelStart(j) PROVE RecordInv'
    <2>1. /\ phase = "up" /\ line # <<>> /\ Head(line).job = j /\ mem' = [mem EXCEPT ![j] = JobObject(j)]
          /\ UNCHANGED <<row, queue, active, creating, handles, prompts, phase, todo>>
        BY <1>28 DEF CancelStart, Cancelling, Holds
    <2>2. \/ at' = "start"
          \/ line' = line /\ at' = "cancelRead" /\ JobObject(j).status = "queued" /\ JobObject(j).attempts = 0
        BY <1>28 DEF CancelStart, CanBeCancelled, Release
    <2>3. CASE Held(j)
        <3>1. mem' = mem /\ JobObject(j) = mem[j]
            BY <1>T, <2>1, <2>3, ObjectAgrees
        <3>2. \A k \in Jobs : Kept(k)'
            BY <1>K, <2>1, <3>1, NothingTouched
        <3>3. CASE at' = "start"
            BY <3>2, <3>3, RecordWhenFree
        <3>4. CASE at' # "start"
            <4>1. row[j].attempts = 0 /\ mem[j].status = "queued"
                BY <2>2, <2>3, <3>1, <3>4 DEF SubmissionInv
            <4>2. HolderExpects(j)'
                BY <2>1, <2>2, <3>1, <3>4, <4>1 DEF HolderExpects
            <4> QED BY <2>1, <2>2, <3>2, <3>4, <4>2, RecordWhenHeld
        <3> QED BY <3>3, <3>4
    <2>4. CASE ~Held(j)
        <3>1. mem[j] = Absent /\ JobObject(j) = Loaded(j)
            BY <1>K, <2>4 DEF Kept, MemoryIsAhead, JobObject
        <3>2. creating[j] # "accepted"
            <4>1. 1 \in DOMAIN line /\ line[1].job = j
                BY <1>T, <2>1, ShrunkSequence
            <4>2. creating[line[1].job] \in {"known", "lost"}
                BY <4>1 DEF SubmissionInv
            <4> QED BY <4>1, <4>2
        <3>3. j # active /\ j \notin ToSet(queue)
            BY <1>S, <1>T, <2>4, NoJobAssumption DEF SubmissionInv
        <3>4. row[j].status \notin NonTerminal
            BY <1>K, <2>1, <3>1, <3>2, <3>3, ConstantFields DEF Kept, NotForgotten, IsTerminal, Terminal
        <3>5. Loaded(j).status = row[j].status /\ (row[j] = Absent => Loaded(j) = Absent)
            <4>1. Loaded(j).status = row[j].status
                BY <1>N, ChangedFields DEF Loaded
            <4>2. row[j] = Absent => Loaded(j) = Absent
                BY DEF Loaded, Absent
            <4> QED BY <4>1, <4>2
        <3>6. mem'[j] = Loaded(j) /\ at' = "start"
            BY <1>T, <2>1, <2>2, <3>1, <3>4, <3>5 DEF NonTerminal
        <3>7. NotForgotten(j)'
            BY <2>1, <3>4 DEF NotForgotten
        <3>8. MemoryIsAhead(j)'
            BY <1>K, <2>1, <3>4, <3>5, <3>6 DEF Kept, MemoryIsAhead, BegunWasReserved, Held
        <3>9. BegunWasReserved(j)'
            BY <1>K, <2>1, <3>4, <3>5, <3>6 DEF Kept, BegunWasReserved, NonTerminal
        <3>10. \A k \in Jobs : Kept(k)'
            BY <1>O, <1>T, <2>1, <3>7, <3>8, <3>9, KeptParts
        <3> QED BY <3>6, <3>10, RecordWhenFree
    <2> QED BY <2>3, <2>4
<1>29. ASSUME NEW j \in Jobs, CancelRead(j) PROVE RecordInv'
    <2> DEFINE old == [mem[j] EXCEPT !.seq = LastSequence(j)]
               job == Transitioned(old, "cancelled")
    <2>1. /\ Cancelling(j, "cancelRead") /\ mem' = [mem EXCEPT ![j] = job] /\ CancelPending(j)
          /\ at' = "cancelPersist"
          /\ UNCHANGED <<row, active, line, creating, handles, prompts, phase, todo>>
        BY <1>29 DEF CancelRead, CancelPending
    <2>2. /\ phase = "up" /\ line # <<>> /\ Head(line).job = j /\ Held(j) /\ active # j
          /\ mem[j].status = "queued" /\ row[j].attempts = 0
        BY <1>H, <2>1 DEF HolderExpects, SlotInv, CancelLeavesSlotAlone
    <2>3. row[j].status = "queued"
        BY <1>K, <2>2 DEF Kept, MemoryIsAhead, NonTerminal
    <2>4. job.status = "cancelled" /\ job.seq = row[j].seq + 1
        <3>1. "cancelled" \in JobState /\ LastSequence(j) \in Nat /\ old \in Job /\ LastSequence(j) = row[j].seq
            BY ObjectTypes, JobUpdates DEF JobState, Terminal, LastSequence
        <3>2. old.seq = row[j].seq
            BY <1>N, <3>1, EventNumbers
        <3>3. PICK o \in Job : o = old
            BY <3>1
        <3>4. job = Transitioned(o, "cancelled") /\ o.seq = row[j].seq
            BY <3>2, <3>3
        <3> HIDE DEF job, old
        <3>5. "cancelled" \in JobState
            BY <3>1
        <3>6. Transitioned(o, "cancelled").status = "cancelled"
            BY <3>5, ChangedFields
        <3>7. Transitioned(o, "cancelled").seq = o.seq + 1
            BY <3>5, EventNumbers
        <3> QED BY <3>4, <3>6, <3>7
    <2> HIDE DEF job
    <2>5. mem'[j] = job /\ \A k \in Jobs \ {j} : mem'[k] = mem[k]
        BY <1>T, <2>1
    <2>6. queue' = RemoveFirst(queue, j)
        BY <2>1, <2>2 DEF CancelPending
    <2>7. \A k \in Jobs \ {j} : k \in ToSet(queue) => k \in ToSet(queue')
        BY <1>T, <2>6, RemoveFirstKeeps DEF ToSet
    <2>8. NotForgotten(j)'
        BY <2>1, <2>2, <2>4, <2>5 DEF NotForgotten, IsTerminal, Terminal
    <2>9. MemoryIsAhead(j)'
        BY <2>1, <2>2, <2>3, <2>4, <2>5 DEF MemoryIsAhead, Held, NonTerminal
    <2>10. BegunWasReserved(j)'
        BY <1>K, <2>1, <2>3, <2>4, <2>5 DEF BegunWasReserved, Kept
    <2>11. \A k \in Jobs : Kept(k)'
        BY <1>O, <2>1, <2>2, <2>5, <2>7, <2>8, <2>9, <2>10, KeptParts
    <2>12. HolderExpects(j)'
        <3>1. FreshEvent(j, mem[j])'
            BY <1>N, <2>1, <2>4, <2>5 DEF FreshEvent
        <3> QED BY <2>1, <2>2, <2>3, <2>4, <2>5, <3>1 DEF HolderExpects, NonTerminal
    <2> QED BY <2>1, <2>2, <2>11, <2>12, RecordWhenHeld
\* During recovery nobody holds the lock and the slot is free; a job that recovery has
\* still to handle is not in memory.
<1>R. ASSUME NEW j \in Jobs, Recovering(j)
      PROVE  /\ phase = "recovering" /\ active = NoJob /\ line = <<>> /\ handles = {} /\ j \in todo
             /\ at \in {"start", "orphaned"} /\ ~Held(j) /\ mem[j] = Absent
             /\ creating[j] # "accepted"
    <2>1. phase = "recovering" /\ active = NoJob /\ line = <<>> /\ handles = {} /\ j \in todo
          /\ at \in {"start", "orphaned"} /\ creating[j] # "accepted"
        BY <1>R, <1>F DEF Recovering, SlotInv, SubmissionInv
    <2>2. ~Held(j) /\ mem[j] = Absent
        BY <1>K, <2>1 DEF Kept, MemoryIsAhead
    <2> QED BY <2>1, <2>2
\* A step of recovery touches its own job.
<1>X. ASSUME NEW j \in Jobs, Recovering(j), Kept(j)', at' \in {"start", "orphaned"},
             \A k \in Jobs \ {j} : mem'[k] = mem[k] /\ row'[k] = row[k],
             \A k \in Jobs \ {j} : k \in todo' <=> k \in todo,
             \A k \in Jobs \ {j} : k \in ToSet(queue) => k \in ToSet(queue'),
             UNCHANGED <<creating, handles, prompts, phase>>
      PROVE  RecordInv'
    <2>1. \A k \in Jobs \ {j} : Kept(k)'
        <3> TAKE k \in Jobs \ {j}
        <3> QED BY <1>K, <1>R, <1>X, UntouchedIsKept
    <2>2. \A k \in Jobs : Kept(k)'
        BY <1>X, <2>1
    <2> QED BY <1>X, <2>2, RecordWhenFree
<1>32. ASSUME NEW j \in Jobs, Rehydrate(j) PROVE RecordInv'
    <2> DEFINE job == [Loaded(j) EXCEPT !.seq = LastSequence(j)]
    <2>1. /\ Recovering(j) /\ row[j].status = "queued" /\ row[j].attempts = 0
          /\ mem' = [mem EXCEPT ![j] = job] /\ Enqueue(j) /\ todo' = todo \ {j}
          /\ UNCHANGED <<row, at, creating, handles, prompts, phase>>
        BY <1>32 DEF Rehydrate
    <2>2. /\ phase = "recovering" /\ active = NoJob /\ handles = {} /\ at \in {"start", "orphaned"}
          /\ ~Held(j) /\ creating[j] # "accepted"
        BY <1>R, <2>1
    <2>3. job.status = "queued" /\ job.seq = row[j].seq
        <3>1. PICK o \in Job : o = Loaded(j)
            BY ObjectTypes
        <3>2. o.status = row[j].status
            BY <1>N, <3>1, ChangedFields DEF Loaded
        <3>3. job = [o EXCEPT !.seq = row[j].seq]
            BY <3>1 DEF LastSequence
        <3> HIDE DEF job
        <3> QED BY <1>N, <2>1, <3>2, <3>3, ChangedFields, EventNumbers
    <2> HIDE DEF job
    <2>4. mem'[j] = job /\ \A k \in Jobs \ {j} : mem'[k] = mem[k]
        BY <1>T, <2>1
    <2>5. j \notin ToSet(queue)
        BY <1>S, <2>2
    <2>6. ToSet(queue') = ToSet(queue) \cup {j}
        BY <1>T, <2>1, <2>2, <2>5, NoJobAssumption, GrownSet DEF Enqueue
    <2>7. NotForgotten(j)'
        BY <2>1, <2>2, <2>6 DEF NotForgotten
    <2>8. MemoryIsAhead(j)'
        BY <1>N, <2>1, <2>2, <2>3, <2>4 DEF MemoryIsAhead, Held
    <2>9. BegunWasReserved(j)'
        BY <2>1, <2>2, <2>3, <2>4 DEF BegunWasReserved
    <2> QED BY <1>X, <2>1, <2>2, <2>4, <2>6, <2>7, <2>8, <2>9, KeptParts
\* Recovery ends a job that it does not keep.
<1>W. ASSUME NEW j \in Jobs, Recovering(j), MarkRestartFailure(j) PROVE RecordInv'
    <2> DEFINE old == [Loaded(j) EXCEPT !.seq = LastSequence(j)]
               job == Transitioned(old, "failed")
    <2>1. /\ row' = [row EXCEPT ![j] = job] /\ at' = "start" /\ todo' = todo \ {j}
          /\ UNCHANGED <<mem, queue, creating, handles, prompts, phase>>
        BY <1>W DEF MarkRestartFailure, WriteRecovered, PersistTransition
    <2>2. /\ phase = "recovering" /\ handles = {} /\ ~Held(j) /\ mem[j] = Absent
          /\ creating[j] # "accepted"
        BY <1>R, <1>W
    <2>3. job.status = "failed"
        <3>1. PICK o \in Job : o = old
            BY ObjectTypes, JobUpdates
        <3>2. "failed" \in JobState /\ job = Transitioned(o, "failed")
            BY <3>1 DEF JobState, Terminal
        <3> HIDE DEF job
        <3> QED BY <3>2, ChangedFields
    <2> HIDE DEF job
    <2>4. row'[j] = job /\ \A k \in Jobs \ {j} : row'[k] = row[k]
        BY <1>T, <2>1
    <2>5. NotForgotten(j)'
        BY <2>3, <2>4 DEF NotForgotten, NonTerminal
    <2>6. MemoryIsAhead(j)'
        BY <2>1, <2>2, ConstantFields DEF MemoryIsAhead, Held, NonTerminal
    <2>7. BegunWasReserved(j)'
        BY <2>1, <2>2, <2>3, <2>4, ConstantFields DEF BegunWasReserved
    <2> QED BY <1>W, <1>X, <2>1, <2>4, <2>5, <2>6, <2>7, KeptParts
<1>33. ASSUME NEW j \in Jobs, FailQueued(j) PROVE RecordInv'
    BY <1>33, <1>W DEF FailQueued
<1>35. ASSUME NEW j \in Jobs, FailProcessing(j) PROVE RecordInv'
    BY <1>35, <1>W DEF FailProcessing
<1>34. ASSUME NEW j \in Jobs, ReportOrphan(j) PROVE RecordInv'
    <2>1. /\ Recovering(j) /\ row[j].status = "processing"
          /\ row' = [row EXCEPT ![j].seq = @ + 1] /\ at' = "orphaned"
          /\ UNCHANGED <<mem, queue, creating, handles, prompts, phase, todo>>
        BY <1>34 DEF ReportOrphan, AppendOrphanEvent
    <2>2. /\ phase = "recovering" /\ handles = {} /\ ~Held(j) /\ mem[j] = Absent
          /\ creating[j] # "accepted" /\ j \in todo
        BY <1>R, <2>1
    <2>3. row[j].attempts = 1
        BY <1>K, <2>1 DEF Kept, BegunWasReserved
    <2>4. /\ row'[j].status = "processing" /\ row'[j].attempts = 1
          /\ \A k \in Jobs \ {j} : row'[k] = row[k]
        <3>1. row'[j] = [row[j] EXCEPT !.seq = row[j].seq + 1]
            BY <1>T, <2>1
        <3> QED BY <1>N, <1>T, <2>1, <2>3, <3>1, ChangedFields
    <2>5. NotForgotten(j)'
        BY <2>1, <2>2 DEF NotForgotten
    <2>6. MemoryIsAhead(j)'
        BY <2>1, <2>2, ConstantFields DEF MemoryIsAhead, Held, NonTerminal
    <2>7. BegunWasReserved(j)'
        BY <2>1, <2>2, <2>4 DEF BegunWasReserved
    <2> QED BY <1>X, <2>1, <2>4, <2>5, <2>6, <2>7, KeptParts
<1>36. CASE Crash
    <2>1. /\ phase' = "down" /\ at' = "start" /\ handles' = {} /\ row' = row
          /\ \A k \in Jobs : mem'[k] = Absent /\ creating'[k] # "accepted"
        BY <1>36, <1>T DEF Crash
    <2>2. \A k \in Jobs : Kept(k)'
        <3> TAKE k \in Jobs
        <3>1. NotForgotten(k)'
            BY <2>1 DEF NotForgotten
        <3>2. MemoryIsAhead(k)'
            BY <2>1, ConstantFields DEF MemoryIsAhead, Held, NonTerminal
        <3>3. BegunWasReserved(k)'
            BY <1>K, <2>1, ConstantFields DEF BegunWasReserved, Kept
        <3> QED BY <3>1, <3>2, <3>3, KeptParts
    <2> QED BY <2>1, <2>2, RecordWhenFree
<1>37. CASE Restart
    <2>1. /\ phase = "down" /\ phase' = "recovering"
          /\ todo' = {j \in Jobs : row[j].status \in NonTerminal}
          /\ UNCHANGED <<mem, row, queue, active, line, at, creating, handles, prompts>>
        BY <1>37 DEF Restart
    <2>2. line = <<>> /\ at \in {"start", "orphaned"}
        BY <1>F, <2>1 DEF SlotInv
    <2>3. \A k \in Jobs : Kept(k)'
        <3> TAKE k \in Jobs
        <3>1. ~Held(k) /\ mem[k] = Absent
            BY <1>K, <2>1 DEF Kept, MemoryIsAhead
        <3>2. NotForgotten(k)'
            BY <2>1 DEF NotForgotten
        <3>3. MemoryIsAhead(k)'
            BY <2>1, <3>1, ConstantFields DEF MemoryIsAhead, Held, NonTerminal
        <3>4. BegunWasReserved(k)'
            BY <1>K, <2>1 DEF BegunWasReserved, Kept
        <3> QED BY <3>2, <3>3, <3>4, KeptParts
    <2> QED BY <2>1, <2>2, <2>3, RecordWhenFree
<1>38. CASE Serve
    <2>1. /\ phase = "recovering" /\ todo = {} /\ phase' = "up"
          /\ UNCHANGED <<mem, row, queue, active, line, at, creating, handles, prompts, todo>>
        BY <1>38 DEF Serve
    <2>2. line = <<>> /\ at \in {"start", "orphaned"}
        BY <1>F, <2>1 DEF SlotInv
    <2>3. \A k \in Jobs : Kept(k)'
        <3> TAKE k \in Jobs
        <3>1. NotForgotten(k)'
            BY <1>K, <2>1 DEF Kept, NotForgotten
        <3>2. MemoryIsAhead(k)'
            BY <1>K, <2>1 DEF Kept, MemoryIsAhead, Held
        <3>3. BegunWasReserved(k)'
            BY <1>K, <2>1 DEF BegunWasReserved, Kept
        <3> QED BY <3>1, <3>2, <3>3, KeptParts
    <2> QED BY <2>1, <2>2, <2>3, RecordWhenFree
<1> QED
    BY <1>0, <1>1, <1>2, <1>3, <1>4, <1>5, <1>6, <1>7, <1>8, <1>9, <1>10, <1>11, <1>12,
        <1>13, <1>14, <1>15, <1>16, <1>17, <1>18, <1>19, <1>20, <1>21, <1>22, <1>23,
        <1>24, <1>25, <1>26, <1>27, <1>28, <1>29, <1>30, <1>31, <1>32, <1>33, <1>34,
        <1>35, <1>36, <1>37, <1>38
    DEF Next, Upload, LockStep, Submission, Inspection, Cancellation, Recover

\* RecordInv holds always.
LEMMA RecordAlways == Spec => []RecordInv
<1>1. Init => RecordInv
    BY ConstantFields DEF Init, DispatcherInit, StoreInit, ServiceInit, RecordInv, NotForgotten,
        MemoryIsAhead, BegunWasReserved, Held, NonTerminal
<1> QED BY <1>1, RecordStep, SubmissionAlways, SlotAlways, TypeCorrect, PTL DEF Spec

\* No path drops a job that has not ended: while the service is up it waits, is active,
\* is about to be answered, or has ended in memory.
THEOREM NothingForgotten == Spec => []NoJobForgotten
<1>1. RecordInv => NoJobForgotten
    BY DEF RecordInv, NotForgotten, NoJobForgotten
<1> QED BY <1>1, RecordAlways, PTL

\* UNIQUE(job_id, sequence) never rejects an event of a job.
THEOREM EventsAreNew == Spec => []EventsNeverCollide
<1>1. TypeOK /\ RecordInv => EventsNeverCollide
    <2> SUFFICES ASSUME TypeOK, RecordInv PROVE EventsNeverCollide
        OBVIOUS
    <2>1. ASSUME NEW j \in Jobs, line # <<>>, Head(line).job = j,
                 at \in {"bridge", "persist", "giveUp", "cancelPersist"}
          PROVE  FreshEvent(j, mem[j])
        BY <2>1 DEF RecordInv, HolderExpects
    <2>2. ASSUME NEW j \in Jobs, mem[j] # Absent, ~IsTerminal(mem[j])
          PROVE  mem[j].seq >= row[j].seq
        <3>1. MemoryIsAhead(j) /\ mem[j].status \in JobState \cup {"absent"}
            BY ObjectTypes, JobFields DEF RecordInv
        <3> QED BY <2>2, <3>1 DEF MemoryIsAhead, Held, IsTerminal, JobState
    <2> QED BY <2>1, <2>2 DEF EventsNeverCollide
<1> QED BY <1>1, RecordAlways, TypeCorrect, PTL

===============================================================================
