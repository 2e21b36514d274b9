------------------------------- MODULE JobSystem -------------------------------
(***************************************************************************)
(* The job service with what surrounds it: crashes of the API process, and *)
(* the recovery that runs before the process serves again                  *)
(* (services/recovery.py, main.py).  A crash stands for a kill, a reboot   *)
(* and a stop alike: each loses the memory of the process and leaves       *)
(* SQLite and the engine as they are.                                      *)
(***************************************************************************)
EXTENDS JobService

CONSTANT
    MaxCrashes  \* bound: crashes of the API process

ASSUME CrashAssumption == MaxCrashes \in Nat

vars == <<dispatcherVars, storeVars, memoryVars, lockVars, uploadVars, prompts,
          told, lifeVars, faults>>

TypeOK ==
    /\ DispatcherTypeOK
    /\ StoreTypeOK
    /\ ServiceTypeOK

Init ==
    /\ DispatcherInit
    /\ StoreInit
    /\ ServiceInit

-------------------------------------------------------------------------------
(* Crash, restart and recovery *)

\* An upload that was not answered is lost to its client, committed or not.
Crash ==
    /\ phase # "down"
    /\ crashes < MaxCrashes
    /\ crashes' = crashes + 1
    /\ phase' = "down"
    /\ queue' = <<>>
    /\ active' = NoJob
    /\ mem' = [j \in Jobs |-> Absent]
    /\ handles' = {}
    /\ requests' = {}
    /\ line' = <<>>
    /\ at' = "start"
    /\ creating' = [j \in Jobs |-> IF creating[j] \in {"accepting", "accepted"}
                                   THEN "lost" ELSE creating[j]]
    /\ todo' = {}
    /\ raised' = FALSE
    /\ UNCHANGED <<storeVars, prompts, told, arrivals, preceding, faults>>

\* Mutant: only queued jobs are recovered.
RestartQueuedOnly ==
    /\ phase = "down"
    /\ phase' = "recovering"
    /\ todo' = {j \in Jobs : row[j].status = "queued"}
    /\ UNCHANGED <<dispatcherVars, storeVars, memoryVars, lockVars, uploadVars,
                   prompts, told, faults, crashes, raised>>

\* startup, then list_nonterminal.
Restart ==
    /\ phase = "down"
    /\ phase' = "recovering"
    /\ todo' = {j \in Jobs : row[j].status \in NonTerminal}
    /\ UNCHANGED <<dispatcherVars, storeVars, memoryVars, lockVars, uploadVars,
                   prompts, told, faults, crashes, raised>>

QueuedBefore(j, k) ==
    \E m, n \in DOMAIN arrivals : m < n /\ arrivals[m] = j /\ arrivals[n] = k

\* Recovery takes the jobs ORDER BY queued_at.
Recovering(j) ==
    /\ phase = "recovering"
    /\ j \in todo
    /\ \A k \in todo \ {j} : QueuedBefore(j, k)

\* Mutant: the job is put in memory but not in the queue.
RehydrateUnqueued(j) ==
    /\ Recovering(j)
    /\ row[j].status = "queued"
    /\ row[j].attempts = 0
    /\ mem' = [mem EXCEPT ![j] = [Loaded(j) EXCEPT !.seq = LastSequence(j)]]
    /\ requests' = requests \cup {j}
    /\ todo' = todo \ {j}
    /\ UNCHANGED <<dispatcherVars, storeVars, handles, lockVars, uploadVars,
                   prompts, told, phase, faults, crashes, raised>>

\* Mutant: the events of the job are numbered from the start again.
RehydrateUnnumbered(j) ==
    /\ Recovering(j)
    /\ row[j].status = "queued"
    /\ row[j].attempts = 0
    /\ mem' = [mem EXCEPT ![j] = Loaded(j)]
    /\ requests' = requests \cup {j}
    /\ Enqueue(j)
    /\ todo' = todo \ {j}
    /\ UNCHANGED <<storeVars, handles, lockVars, uploadVars, prompts, told,
                   phase, faults, crashes, raised>>

\* rehydrate_queued: a job that was never submitted goes back into the queue.
Rehydrate(j) ==
    /\ Recovering(j)
    /\ row[j].status = "queued"
    /\ row[j].attempts = 0
    /\ mem' = [mem EXCEPT ![j] = [Loaded(j) EXCEPT !.seq = LastSequence(j)]]
    /\ requests' = requests \cup {j}
    /\ Enqueue(j)
    /\ todo' = todo \ {j}
    /\ UNCHANGED <<storeVars, handles, lockVars, uploadVars, prompts, told,
                   phase, faults, crashes, raised>>

\* Recovery writes a job it does not keep in memory.
WriteRecovered(j, status) ==
    /\ PersistTransition(j,
           Transitioned([Loaded(j) EXCEPT !.seq = LastSequence(j)], status))
    /\ todo' = todo \ {j}
    /\ at' = "start"
    /\ UNCHANGED <<dispatcherVars, memoryVars, line, uploadVars, prompts, told,
                   phase, faults, crashes, raised>>

\* Mutants: the failure code is taken for a status; the job is queued again.
MarkRestartCode(j) == WriteRecovered(j, "restart_interrupted")
MarkRequeued(j) == WriteRecovered(j, "queued")

\* _mark_restart_failure
MarkRestartFailure(j) == WriteRecovered(j, "failed")

\* A reserved job, or one whose input is gone, is not queued again.
FailQueued(j) ==
    /\ Recovering(j)
    /\ row[j].status = "queued"
    /\ MarkRestartFailure(j)

\* Engine work that may still run is reported in the job's log.
ReportOrphan(j) ==
    /\ Recovering(j)
    /\ row[j].status = "processing"
    /\ row[j].engine
    /\ at = "start"
    /\ AppendOrphanEvent(j)
    /\ at' = "orphaned"
    /\ UNCHANGED <<dispatcherVars, memoryVars, line, uploadVars, prompts, told,
                   lifeVars, faults>>

FailProcessing(j) ==
    /\ Recovering(j)
    /\ row[j].status = "processing"
    /\ row[j].engine => at = "orphaned"
    /\ MarkRestartFailure(j)

\* The worker starts and the API serves.
Serve ==
    /\ phase = "recovering"
    /\ todo = {}
    /\ phase' = "up"
    /\ UNCHANGED <<dispatcherVars, storeVars, memoryVars, lockVars, uploadVars,
                   prompts, told, todo, faults, crashes, raised>>

Recover(j) == Rehydrate(j) \/ FailQueued(j) \/ ReportOrphan(j) \/ FailProcessing(j)

-------------------------------------------------------------------------------

\* A task at the lock, one step further.
LockStep(j) == Submission(j) \/ Inspection(j) \/ Cancellation(j)

Next ==
    \/ WorkerTick
    \/ \E j \in Jobs : Poll(j) \/ AskCancel(j) \/ Upload(j) \/ LockStep(j) \/ Recover(j)
    \/ Crash \/ Restart \/ Serve

Spec == Init /\ [][Next]_vars

-------------------------------------------------------------------------------
(* Fairness *)

\* The event loop runs whatever is ready, the worker ticks, an upload's commit
\* answers, and the service manager restarts the process.  A job that is
\* inspected over and over is decided in the end, or raises: the adapter turns
\* unfinished work into "unknown" once timeout_seconds are over, but looking at
\* the result may raise each time.
Fairness ==
    /\ WF_vars(WorkerTick)
    /\ WF_vars(\E j \in Jobs : LockStep(j))
    /\ \A j \in Jobs : WF_vars(CommitUpload(j) \/ RefuseUpload(j) \/ FinishUpload(j))
    /\ \A j \in Jobs : SF_vars(InspectSucceeded(j) \/ InspectEnded(j) \/ InspectRaises(j))
    /\ WF_vars(\E j \in Jobs : Recover(j))
    /\ WF_vars(Restart)
    /\ WF_vars(Serve)

FairSpec == Spec /\ Fairness

-------------------------------------------------------------------------------
(* Safety *)

\* A reserved job that has not ended: it owns, or owned, the GPU slot.
InSlot(j) == row[j].status \in NonTerminal /\ row[j].attempts = 1

\* The engine is given a job's prompt at most once, over crashes, lost answers
\* and restarts: the reservation is durable before the prompt is sent, and
\* recovery queues again only what was never reserved.
AtMostOneSubmission == \A j \in Jobs : prompts[j] <= 1

\* One job at a time is between its reservation and its durable end, whoever
\* advances it and whatever was active before a restart.
SerialExecution ==
    \A j, k \in Jobs : InSlot(j) /\ InSlot(k) => j = k

\* While the service is up, a durable job that has not ended is waiting or active,
\* unless its upload has not been answered yet or memory already took it as ended
\* (the write that says so is on its way, or was lost): no path drops a job.
NoJobForgotten ==
    phase = "up" =>
        \A j \in Jobs : row[j].status \in NonTerminal =>
            \/ j \in ToSet(queue)
            \/ j = active
            \/ creating[j] = "accepted"
            \/ IsTerminal(mem[j])

\* What waits in the dispatcher can be claimed: it is queued in memory and was
\* never reserved, it waits once, and it is not the active job.  A cancelled or
\* failed job left at the head would stop the worker for good.
QueueIsClaimable ==
    /\ \A i \in DOMAIN queue :
           /\ mem[queue[i]].status = "queued"
           /\ row[queue[i]].attempts = 0
           /\ queue[i] \in requests
           /\ queue[i] # active
    /\ IsInjective(queue)

\* Every event that is about to be written has a number the job's log does not
\* have yet, whichever of the service, a cancellation and recovery numbered the
\* last one: UNIQUE(job_id, sequence) never rejects a transition.
EventsNeverCollide ==
    /\ \A j \in Jobs :
           (line # <<>> /\ Head(line).job = j
              /\ at \in {"bridge", "persist", "giveUp", "cancelPersist"})
                => FreshEvent(j, mem[j])
    /\ \A j \in Jobs : row[j].status # "absent" /\ mem[j] # Absent /\ ~IsTerminal(mem[j])
           => mem[j].seq >= row[j].seq

\* The engine handle of a job that has not ended belongs to the active job, so
\* only that job is ever inspected.
HandleOwnsSlot ==
    \A j \in handles : j = active \/ IsTerminal(mem[j])

-------------------------------------------------------------------------------
(* Why AtMostOneSubmission holds: an inductive strengthening *)

Held(j) == mem[j].status # "absent"

SubmissionInv ==
    \* The reservation is written before the prompt is sent, once.
    /\ \A j \in Jobs : prompts[j] <= row[j].attempts /\ row[j].attempts <= 1
    \* An object in memory never writes back another count than its row has.
    /\ \A j \in Jobs : Held(j) => mem[j].attempts = row[j].attempts
    \* Until its upload is answered, or after a restart, nobody can touch a job.
    /\ \A j \in Jobs : creating[j] \in {"idle", "accepting", "accepted"} =>
           ~Held(j) /\ row[j].attempts = 0
    /\ \A j \in Jobs : creating[j] \in {"idle", "accepting"} => row[j].status = "absent"
    /\ phase # "up" => \A j \in Jobs : creating[j] \notin {"accepting", "accepted"}
    /\ \A i \in DOMAIN line : creating[line[i].job] \in {"known", "lost"}
    \* The holder of the lock works on an object in memory, and sends a prompt
    \* only on a reservation of its own.
    /\ at \notin {"start", "orphaned"} => line # <<>> /\ Held(Head(line).job)
    /\ at = "submit" =>
           prompts[Head(line).job] = 0 /\ row[Head(line).job].attempts = 1
    \* What the dispatcher and the adapter's handles name is in memory.
    /\ \A j \in handles : Held(j)
    /\ active # NoJob => Held(active)
    /\ \A i \in DOMAIN queue : Held(queue[i])

-------------------------------------------------------------------------------
(* Why SerialExecution, HandleOwnsSlot and QueueIsClaimable hold: on top of  *)
(* SubmissionInv, what the lock's holder may assume at each of its steps     *)

HolderOwnsSlot ==
    at \in {"reserve", "submit", "save", "first", "bridge", "persist", "giveUp"} =>
        active = Head(line).job

CancelLeavesSlotAlone ==
    /\ at \in {"cancelRead", "cancelPersist"} => active # Head(line).job
    /\ at = "cancelPersist" => Head(line).job \notin ToSet(queue)

SlotInv ==
    \* The active job is the only one in the slot; after a restart recovery ends
    \* whatever job was.
    /\ phase = "up" => \A j \in Jobs : InSlot(j) => j = active
    /\ phase = "recovering" => \A j \in Jobs : InSlot(j) => j \in todo
    /\ phase # "up" => active = NoJob /\ line = <<>> /\ handles = {}
    /\ SerialExecution
    /\ HolderOwnsSlot
    /\ CancelLeavesSlotAlone
    \* A claimed job is new to the engine until its handle is saved, and what gives
    \* up the slot has ended in memory.
    /\ at = "reserve" => row[Head(line).job].attempts = 0
    /\ at \in {"reserve", "submit", "save"} => Head(line).job \notin handles
    /\ at \in {"giveUp", "cancelPersist"} => IsTerminal(mem[Head(line).job])
    /\ HandleOwnsSlot
    /\ QueueIsClaimable

-------------------------------------------------------------------------------
(* Why NoJobForgotten, EventsNeverCollide and LedgerKept hold: on top of    *)
(* SlotInv, how the object, the row and the dispatcher agree about a job    *)

\* What has not ended is somewhere.
NotForgotten(j) ==
    row[j].status \in NonTerminal =>
        /\ phase = "up" => \/ j \in ToSet(queue) \/ j = active
                           \/ creating[j] = "accepted" \/ IsTerminal(mem[j])
        /\ phase = "recovering" => j \in todo \cup ToSet(queue)

\* Memory has what the row has, or is ahead of it.
MemoryIsAhead(j) ==
    /\ ~Held(j) => mem[j] = Absent
    /\ Held(j) => /\ row[j].status # "absent"
                  /\ phase = "up" \/ (phase = "recovering" /\ j \notin todo)
    /\ mem[j].status \in NonTerminal =>
           /\ mem[j].seq >= row[j].seq
           /\ row[j].status \in {"queued", mem[j].status}

\* What has begun at the engine was reserved.
BegunWasReserved(j) ==
    /\ row[j].status = "absent" => row[j] = Absent
    /\ creating[j] = "accepted" => row[j] = Accepted
    /\ row[j].status = "processing" \/ mem[j].status = "processing" => row[j].attempts = 1
    /\ j \in handles => row[j].attempts = 1 /\ prompts[j] > 0

\* What the lock's holder may assume of its job j at each step.
HolderExpects(j) ==
    /\ at \in {"reserve", "submit", "save", "first", "cancelRead"} => mem[j].status = "queued"
    /\ at \in {"submit", "save", "first", "cancelPersist"} => row[j].status = "queued"
    /\ at \in {"submit", "save", "first", "bridge", "persist"} => row[j].attempts = 1
    /\ at \in {"cancelRead", "cancelPersist"} => row[j].attempts = 0
    /\ at \in {"save", "first", "bridge", "persist"} => prompts[j] > 0
    /\ at = "bridge" => mem[j].status = "processing"
    /\ at = "persist" => mem[j].status \in {"processing"} \cup Terminal
    /\ at = "giveUp" => mem[j].status = "failed"
    /\ at = "cancelPersist" => mem[j].status = "cancelled"
    /\ at \in {"bridge", "persist", "giveUp", "cancelPersist"} =>
           FreshEvent(j, mem[j]) /\ row[j].status \in NonTerminal

RecordInv ==
    /\ \A j \in Jobs : NotForgotten(j) /\ MemoryIsAhead(j) /\ BegunWasReserved(j)
    /\ line # <<>> => HolderExpects(Head(line).job)

\* Why ToldEndHolds holds: memory has no other end than the row, and until a crash it
\* has the end that a client was told.
EndAgrees(j) ==
    /\ row[j].status \in Terminal /\ (Held(j) \/ crashes = 0) => mem[j].status = row[j].status
    /\ crashes = 0 /\ told[j] # "nothing" => mem[j].status = told[j]

ToldInv == \A j \in Jobs : EndAgrees(j)

\* Why LifecycleFollowed and CancelledIsNeverSent hold: until the first exception, memory
\* is ahead of the row only while the lock's holder writes the job.
Writing(j) ==
    line # <<>> /\ Head(line).job = j /\ at \in {"bridge", "persist", "giveUp", "cancelPersist"}

RowFollows(j) ==
    /\ mem[j].status \in {"processing"} \cup Terminal =>
           Writing(j) \/ row[j].status = mem[j].status
    /\ Writing(j) /\ at = "persist" /\ mem[j].status = "completed" =>
           row[j].status = "processing"
    /\ told[j] = "cancelled" /\ j \notin Pollers => row[j].status = "cancelled"

FollowInv == faults = 0 => \A j \in Jobs : RowFollows(j)

-------------------------------------------------------------------------------
(* Why NoOvertaking holds: on top of RecordInv, a job k that is to precede j *)
(* is before it in queued_at, in what recovery has to do, and in the queue   *)

Precedes(k, j) ==
    /\ creating[k] = "known"
    /\ ~QueuedBefore(j, k)
    /\ phase = "recovering" /\ j \in ToSet(queue) => k \notin todo
    /\ \A m, n \in DOMAIN queue : queue[m] = k /\ queue[n] = j => m < n
    /\ active = j => k \notin ToSet(queue)

OrderInv ==
    /\ \A j \in Jobs : \A k \in preceding[j] : k # j /\ Precedes(k, j)
    \* What has not begun to arrive precedes and follows nothing.
    /\ \A j \in Jobs : creating[j] = "idle" => j \notin ToSet(arrivals) /\ preceding[j] = {}
    /\ phase = "down" => queue = <<>>

-------------------------------------------------------------------------------
(* Action properties *)

\* First come, first served: when a job's prompt is sent, no job whose upload was
\* answered before this one's began is still waiting, also over restarts, which
\* rebuild the queue from queued_at.  (A job that memory holds as ended while its
\* write was lost does not count.)
NoOvertaking ==
    [][\A j \in Jobs : prompts'[j] > prompts[j] =>
           \A k \in preceding[j] : ~Reservable(k) \/ IsTerminal(mem[k])]_vars

\* Until the first exception, the durable status of a job follows the table of allowed
\* transitions, one entry at a time, although memory runs ahead of the row.
LifecycleFollowed ==
    [][faults = 0 => \A j \in Jobs :
           \/ row'[j].status = row[j].status
           \/ row[j].status = "absent" /\ row'[j].status = "queued"
           \/ CanTransition(row[j], row'[j].status)]_vars

\* A job the client was told is cancelled is never sent to the engine: before a crash
\* whatever write fails, and after one if no write failed and the client learnt it from
\* the answer to its request.  (A poll shows the object, which is ahead of its row while
\* the cancellation is being written.)
CancelledIsNeverSent ==
    [][\A j \in Jobs :
           told[j] = "cancelled" /\ (crashes = 0 \/ (faults = 0 /\ j \notin Pollers)) =>
               prompts'[j] = prompts[j]]_vars

\* A client that was shown how its job ended is never shown anything else, once
\* that end is durable; an end that memory took before its write is taken back
\* only by a crash.
ToldEndHolds ==
    [][\A j \in Jobs : told[j] # "nothing" /\ told'[j] # told[j] =>
           crashes > 0 /\ row[j].status # told[j]]_vars

\* The durable record, read as the ledger of the promise.
StageOf(j) ==
    CASE row[j].status = "queued" ->
           IF row[j].attempts = 0 THEN "waiting" ELSE "reserved"
      [] OTHER -> row[j].status

Ledger == INSTANCE JobLedger WITH
    stage <- [j \in Jobs |-> StageOf(j)],
    sent  <- [j \in Jobs |-> prompts[j] > 0]

LedgerKept == Ledger!LedgerSpec

-------------------------------------------------------------------------------
(* Liveness *)

\* Every accepted job ends.
EveryJobEnds ==
    \A j \in Jobs : row[j].status \in NonTerminal ~> row[j].status \in Terminal

\* The active job was claimed by a task that came for another one.
SlotStolen ==
    /\ active # NoJob
    /\ active \notin handles
    /\ ~IsTerminal(mem[active])
    /\ ~(line # <<>> /\ Head(line).job = active /\ at # "start")

\* Memory holds a job as ended, its row does not, and nobody is writing it.
WriteLost ==
    \E j \in Jobs :
        /\ IsTerminal(mem[j])
        /\ row[j].status \in NonTerminal
        /\ ~(line # <<>> /\ Head(line).job = j /\ at # "start")

\* Every accepted job ends, or its slot was stolen, or a final write was lost, or
\* the inspection of the job in the slot raises again and again: when crashes and
\* exceptions of the database come to an end, nothing else here stops the queue.
EveryJobEndsOrStuck ==
    \/ \A j \in Jobs : row[j].status \in NonTerminal ~>
           (row[j].status \in Terminal \/ SlotStolen \/ WriteLost)
    \/ []<><<\E j \in Jobs : InspectRaises(j)>>_vars

===============================================================================
