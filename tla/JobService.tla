------------------------------- MODULE JobService -------------------------------
(***************************************************************************)
(* The job service of the API process (services/job_service.py): uploads   *)
(* enter the queue, a background worker advances the active job through    *)
(* submission and inspection, status polls kick the same advance, and a    *)
(* waiting job can be cancelled.                                           *)
(*                                                                         *)
(* Everything runs on one asyncio event loop, so a task is interrupted     *)
(* only where it awaits: one action is the code between two awaits that    *)
(* matter.  _advance_lock is an asyncio.Lock, which is handed over first   *)
(* come first served: `line` is the queue of the tasks that want it, its   *)
(* head holds it, and `at` is where that head is.                          *)
(***************************************************************************)
EXTENDS SerialDispatcher, JobStore

CONSTANTS
    Pollers,     \* jobs whose client polls their status
    Cancellers,  \* jobs whose client may ask to cancel them
    Unpublishable, \* jobs whose result may raise whenever it is looked at
    MaxProgress, \* bound: progress levels the engine reports
    MaxClients,  \* bound: clients' tasks at the lock at a time
    MaxFaults    \* bound: exceptions of the database and of submissions

ASSUME ServiceAssumption ==
    /\ Pollers \subseteq Jobs
    /\ Cancellers \subseteq Jobs
    /\ Unpublishable \subseteq Jobs
    /\ MaxProgress \in Nat
    /\ MaxClients \in Nat
    /\ MaxFaults \in Nat

VARIABLES
    \* Memory of the API process
    mem,       \* _jobs: the service's own object for each job
    handles,   \* _handles: jobs with an engine handle
    requests,  \* _requests: jobs with a generation request
    line,      \* tasks at _advance_lock, the holder first
    at,        \* where the lock's holder is
    creating,  \* create_job: how far each upload has come
    \* Life of the process
    phase,     \* the process is down, recovering (lifespan startup), or up
    todo,      \* jobs that recovery has still to handle
    crashes,   \* crashes so far
    raised,    \* the engine is done with the active job, and looking at it raised
    \* The outside
    prompts,   \* how many prompts the engine was given for a job
    told,      \* the last terminal status a client was shown for the job
    \* Bookkeeping of the model
    arrivals,  \* jobs by queued_at, oldest first
    preceding, \* preceding[j]: jobs accepted and answered before j was uploaded
    faults     \* exceptions so far

memoryVars == <<mem, handles, requests>>
lockVars == <<line, at>>
lifeVars == <<phase, todo, crashes, raised>>
uploadVars == <<creating, arrivals, preceding>>

By == {"worker", "poll", "cancel"}

At == {"start", "reserve", "submit", "save", "first", "bridge", "persist",
       "giveUp", "cancelRead", "cancelPersist", "orphaned"}

Task(by, j) == [by |-> by, job |-> j]

LockTask == [by : By, job : Jobs]

ServiceTypeOK ==
    /\ mem \in [Jobs -> Job]
    /\ handles \subseteq Jobs
    /\ requests \subseteq Jobs
    /\ line \in Seq(LockTask)
    /\ at \in At
    /\ creating \in [Jobs -> {"idle", "accepting", "accepted", "known", "lost"}]
    /\ phase \in {"down", "recovering", "up"}
    /\ todo \subseteq Jobs
    /\ crashes \in Nat
    /\ raised \in BOOLEAN
    /\ prompts \in [Jobs -> Nat]
    /\ told \in [Jobs -> Terminal \cup {"nothing"}]
    /\ arrivals \in Seq(Jobs)
    /\ preceding \in [Jobs -> SUBSET Jobs]
    /\ faults \in Nat

ServiceInit ==
    /\ mem = [j \in Jobs |-> Absent]
    /\ handles = {}
    /\ requests = {}
    /\ line = <<>>
    /\ at = "start"
    /\ creating = [j \in Jobs |-> "idle"]
    /\ phase = "up"
    /\ todo = {}
    /\ crashes = 0
    /\ raised = FALSE
    /\ prompts = [j \in Jobs |-> 0]
    /\ told = [j \in Jobs |-> "nothing"]
    /\ arrivals = <<>>
    /\ preceding = [j \in Jobs |-> {}]
    /\ faults = 0

\* The object a task works on: the one in memory, else one built from the row.
JobObject(j) == IF mem[j] # Absent THEN mem[j] ELSE Loaded(j)

\* An operation of the database, or of a submission, raises.
Raises ==
    /\ faults < MaxFaults
    /\ faults' = faults + 1

-------------------------------------------------------------------------------
(* create_job *)

\* The upload is validated and stored, and queued_at is taken.
BeginUpload(j) ==
    /\ phase = "up"
    /\ creating[j] = "idle"
    /\ creating' = [creating EXCEPT ![j] = "accepting"]
    /\ arrivals' = Append(arrivals, j)
    /\ preceding' = [preceding EXCEPT ![j] = {k \in Jobs : creating[k] = "known"}]
    /\ UNCHANGED <<dispatcherVars, storeVars, memoryVars, lockVars, prompts,
                   told, lifeVars, faults>>

\* accept_job commits; the coroutine has not resumed yet.
CommitUpload(j) ==
    /\ phase = "up"
    /\ creating[j] = "accepting"
    /\ AcceptJob(j)
    /\ creating' = [creating EXCEPT ![j] = "accepted"]
    /\ UNCHANGED <<dispatcherVars, memoryVars, lockVars, prompts, told,
                   arrivals, preceding, lifeVars, faults>>

\* accept_job raises (a submission limit, a database error): the files go.
RefuseUpload(j) ==
    /\ phase = "up"
    /\ creating[j] = "accepting"
    /\ creating' = [creating EXCEPT ![j] = "lost"]
    /\ UNCHANGED <<dispatcherVars, storeVars, memoryVars, lockVars, prompts,
                   told, arrivals, preceding, lifeVars, faults>>

\* The job becomes visible in memory, and the client learns its id and token.
FinishUpload(j) ==
    /\ phase = "up"
    /\ creating[j] = "accepted"
    /\ creating' = [creating EXCEPT ![j] = "known"]
    /\ mem' = [mem EXCEPT ![j] = Accepted]
    /\ requests' = requests \cup {j}
    /\ Enqueue(j)
    /\ UNCHANGED <<storeVars, handles, lockVars, prompts, told, arrivals,
                   preceding, lifeVars, faults>>

-------------------------------------------------------------------------------
(* Who wants to advance or cancel a job *)

\* Each tick picks its job before it waits for the lock.
WorkerTick ==
    /\ phase = "up"
    /\ \A i \in DOMAIN line : line[i].by # "worker"
    /\ active # NoJob \/ queue # <<>>
    /\ LET j == IF active # NoJob THEN active ELSE Head(queue)
       IN  /\ mem' = [mem EXCEPT ![j] = JobObject(j)]
           /\ line' = Append(line, Task("worker", j))
    /\ UNCHANGED <<dispatcherVars, storeVars, handles, requests, at, uploadVars,
                   prompts, told, lifeVars, faults>>

\* A client's task waits for the lock.  Bounds: one task of a kind for each job
\* (a second one finds what the first one left), and MaxClients in all.
Join(by, j) ==
    /\ Task(by, j) \notin ToSet(line)
    /\ Cardinality({i \in DOMAIN line : line[i].by # "worker"}) < MaxClients
    /\ line' = Append(line, Task(by, j))

\* read_job shows the object in memory, and kicks an advance of this job unless
\* it is over.
Poll(j) ==
    /\ phase = "up"
    /\ j \in Pollers
    /\ creating[j] = "known"
    /\ IF IsTerminal(JobObject(j))
       THEN told' = [told EXCEPT ![j] = JobObject(j).status] /\ UNCHANGED line
       ELSE Join("poll", j) /\ UNCHANGED told
    /\ UNCHANGED <<dispatcherVars, storeVars, memoryVars, at, uploadVars,
                   prompts, lifeVars, faults>>

\* A client asks, or asks again, to cancel its job.
AskCancel(j) ==
    /\ phase = "up"
    /\ j \in Cancellers
    /\ creating[j] = "known"
    /\ Join("cancel", j)
    /\ UNCHANGED <<dispatcherVars, storeVars, memoryVars, at, uploadVars,
                   prompts, told, lifeVars, faults>>

\* The holder's task ends, or its exception leaves the `async with`.
Release ==
    /\ line' = Tail(line)
    /\ at' = "start"

Holds(by, j) ==
    /\ phase = "up"
    /\ line # <<>>
    /\ Head(line).by \in by
    /\ Head(line).job = j

\* _advance_unlocked(j) runs, for the worker or for a poll, and is at `step`.
Advancing(j, step) == Holds({"worker", "poll"}, j) /\ at = step

-------------------------------------------------------------------------------
(* _advance_unlocked: a job without a handle *)

AdvanceTerminal(j) ==
    /\ Advancing(j, "start")
    /\ IsTerminal(mem[j])
    /\ Release
    /\ UNCHANGED <<dispatcherVars, storeVars, memoryVars, uploadVars, prompts,
                   told, lifeVars, faults>>

Unsubmitted(j) ==
    /\ Advancing(j, "start")
    /\ ~IsTerminal(mem[j])
    /\ j \notin handles

ClaimNothing(j) ==
    /\ Unsubmitted(j)
    /\ NothingToClaim
    /\ Release
    /\ UNCHANGED <<dispatcherVars, storeVars, memoryVars, uploadVars, prompts,
                   told, lifeVars, faults>>

\* The head was another job: it is active now, and this task returns.
ClaimOther(j) ==
    /\ Unsubmitted(j)
    /\ ClaimNext
    /\ active' # j
    /\ Release
    /\ UNCHANGED <<storeVars, memoryVars, uploadVars, prompts, told, lifeVars, faults>>

\* Without a request the claim is given back at once.
ClaimOwn(j) ==
    /\ Unsubmitted(j)
    /\ ~NothingToClaim
    /\ Head(queue) = j
    /\ queue' = Tail(queue)
    /\ IF j \in requests
       THEN active' = j /\ at' = "reserve" /\ UNCHANGED line
       ELSE UNCHANGED active /\ Release
    /\ UNCHANGED <<storeVars, memoryVars, uploadVars, prompts, told, lifeVars, faults>>

Reserve(j) ==
    /\ Advancing(j, "reserve")
    /\ IF Reservable(j)
       THEN /\ ReserveSubmission(j)
            /\ mem' = [mem EXCEPT ![j].attempts = 1]
            /\ at' = "submit"
            /\ UNCHANGED <<dispatcherVars, requests, line>>
       ELSE /\ Complete(j)
            /\ requests' = requests \ {j}
            /\ Release
            /\ UNCHANGED <<storeVars, mem>>
    /\ UNCHANGED <<handles, uploadVars, prompts, told, lifeVars, faults>>

\* The engine takes the prompt, and its answer arrives.
SubmitAccepted(j) ==
    /\ Advancing(j, "submit")
    /\ prompts' = [prompts EXCEPT ![j] = @ + 1]
    /\ mem' = [mem EXCEPT ![j].engine = TRUE]
    /\ at' = "save"
    /\ UNCHANGED <<dispatcherVars, storeVars, handles, requests, line, uploadVars,
                   told, lifeVars, faults>>

SaveHandle(j) ==
    /\ Advancing(j, "save")
    /\ UpdateJob(j, mem[j])
    /\ handles' = handles \cup {j}
    /\ at' = "first"
    /\ UNCHANGED <<dispatcherVars, mem, requests, line, uploadVars, prompts,
                   told, lifeVars, faults>>

\* Mutant: the slot is given up once the prompt is with the engine.
FirstInspectReleasing(j) ==
    /\ Advancing(j, "first")
    /\ Release
    /\ active' = NoJob
    /\ UNCHANGED <<queue, storeVars, memoryVars, uploadVars, prompts, told,
                   lifeVars, faults>>

\* The first observation is consumed and ignored.
FirstInspect(j) ==
    /\ Advancing(j, "first")
    /\ Release
    /\ UNCHANGED <<dispatcherVars, storeVars, memoryVars, uploadVars, prompts,
                   told, lifeVars, faults>>

\* The except branch: failed in memory, then persisted.
GiveUp(j) ==
    /\ mem' = [mem EXCEPT ![j] = Transitioned(@, "failed")]
    /\ at' = "giveUp"
    /\ UNCHANGED <<dispatcherVars, storeVars, handles, requests, line, uploadVars,
                   told, lifeVars>>

\* No prompt was made, and the adapter raises.
SubmitRefused(j) ==
    /\ Advancing(j, "submit")
    /\ GiveUp(j)
    /\ UNCHANGED <<prompts, faults>>

\* The engine takes the prompt, but the adapter loses its answer and raises.
SubmitAnswerLost(j) ==
    /\ Advancing(j, "submit")
    /\ prompts' = [prompts EXCEPT ![j] = @ + 1]
    /\ GiveUp(j)
    /\ UNCHANGED faults

\* The reservation, the update or the first inspection raises.
SubmissionRaises(j) ==
    /\ \E step \in {"reserve", "save", "first"} : Advancing(j, step)
    /\ Raises
    /\ GiveUp(j)
    /\ UNCHANGED prompts

-------------------------------------------------------------------------------
(* _advance_unlocked: a job with a handle is inspected *)

\* The adapter is asked.  The engine may answer anything at any time.
Inspecting(j) ==
    /\ Advancing(j, "start")
    /\ ~IsTerminal(mem[j])
    /\ j \in handles

\* The object changes first; the lock's holder then waits for the database.
Change(j, target, step) ==
    /\ CanTransition(mem[j], target)
    /\ mem' = [mem EXCEPT ![j] = Transitioned(@, target)]
    /\ at' = step
    /\ UNCHANGED line

\* Nothing new, so nothing is done.
InspectQueued(j) ==
    /\ Inspecting(j)
    /\ ~raised
    /\ Release
    /\ raised' = FALSE
    /\ UNCHANGED <<dispatcherVars, storeVars, memoryVars, uploadVars, prompts,
                   told, phase, todo, crashes, faults>>

\* The first such observation is a transition, a repeated one is dropped, and
\* one with new progress is recorded.  Bound: progress does not fall.
InspectProcessing(j) ==
    /\ Inspecting(j)
    /\ ~raised
    /\ \E p \in mem[j].progress .. MaxProgress :
           IF mem[j].status = "processing" /\ mem[j].progress = p
           THEN Release /\ UNCHANGED mem
           ELSE /\ mem' = [mem EXCEPT ![j] =
                              IF @.status = "processing"
                              THEN WithProgress(@, p)
                              ELSE [Transitioned(@, "processing") EXCEPT !.progress = p]]
                /\ at' = "persist"
                /\ UNCHANGED line
    /\ raised' = FALSE
    /\ UNCHANGED <<dispatcherVars, storeVars, handles, requests, uploadVars,
                   prompts, told, phase, todo, crashes, faults>>

\* Mutant: a job that was never seen processing is completed as it is.
InspectSucceededDirectly(j) ==
    /\ Inspecting(j)
    /\ mem' = [mem EXCEPT ![j] = Transitioned(@, "completed")]
    /\ at' = "persist"
    /\ raised' = FALSE
    /\ UNCHANGED <<dispatcherVars, storeVars, handles, requests, line, uploadVars,
                   prompts, told, phase, todo, crashes, faults>>

\* Success, and a model was published.  A job never seen processing is first
\* taken there.
InspectSucceeded(j) ==
    /\ Inspecting(j)
    /\ IF mem[j].status = "queued"
       THEN Change(j, "processing", "bridge")
       ELSE Change(j, Decide("succeeded"), "persist")
    /\ raised' = FALSE
    /\ UNCHANGED <<dispatcherVars, storeVars, handles, requests, uploadVars,
                   prompts, told, phase, todo, crashes, faults>>

\* The work is done, but its result cannot be looked at or published, and that
\* raises something that nothing here catches: a full disk, a structure the
\* publication does not expect, an output directory that cannot be read.  Nothing
\* counts the tries: the next tick or poll finds the same work done.
InspectRaises(j) ==
    /\ Inspecting(j)
    /\ j \in Unpublishable
    /\ Release
    /\ raised' = TRUE
    /\ UNCHANGED <<dispatcherVars, storeVars, memoryVars, uploadVars, prompts,
                   told, phase, todo, crashes, faults>>

\* The engine failed or was interrupted, or there is not exactly one valid model,
\* or the adapter does not know: it cannot reach the engine, the engine lost
\* the prompt, or timeout_seconds are over.
InspectEnded(j) ==
    /\ Inspecting(j)
    /\ \E observed \in {"failed", "cancelled", "unknown"} :
           Change(j, Decide(observed), "persist")
    /\ raised' = FALSE
    /\ UNCHANGED <<dispatcherVars, storeVars, handles, requests, uploadVars,
                   prompts, told, phase, todo, crashes, faults>>

\* The processing bridge is durable; completion comes next.
BridgeCommit(j) ==
    /\ Advancing(j, "bridge")
    /\ PersistTransition(j, mem[j])
    /\ Change(j, "completed", "persist")
    /\ UNCHANGED <<dispatcherVars, handles, requests, uploadVars, prompts,
                   told, lifeVars, faults>>

\* Mutant: a job that is over keeps the GPU slot.
PersistKeepingSlot(j) ==
    /\ Advancing(j, "persist")
    /\ PersistTransition(j, mem[j])
    /\ IF IsTerminal(mem[j])
       THEN handles' = handles \ {j} /\ requests' = requests \ {j}
       ELSE UNCHANGED <<handles, requests>>
    /\ Release
    /\ UNCHANGED <<dispatcherVars, mem, uploadVars, prompts, told, lifeVars, faults>>

\* A job that is over gives up the GPU slot, its handle and its request.
PersistCommit(j) ==
    /\ Advancing(j, "persist")
    /\ PersistTransition(j, mem[j])
    /\ IF IsTerminal(mem[j])
       THEN /\ Complete(j)
            /\ handles' = handles \ {j}
            /\ requests' = requests \ {j}
       ELSE UNCHANGED <<dispatcherVars, handles, requests>>
    /\ Release
    /\ UNCHANGED <<mem, uploadVars, prompts, told, lifeVars, faults>>

\* The except branch of the submission keeps the handle.
GiveUpCommit(j) ==
    /\ Advancing(j, "giveUp")
    /\ PersistTransition(j, mem[j])
    /\ Complete(j)
    /\ requests' = requests \ {j}
    /\ Release
    /\ UNCHANGED <<mem, handles, uploadVars, prompts, told, lifeVars, faults>>

\* Nothing is written, and nothing after the call runs: the object stays
\* changed and the slot stays taken.
PersistRaises(j) ==
    /\ \E step \in {"bridge", "persist", "giveUp"} : Advancing(j, step)
    /\ Raises
    /\ Release
    /\ UNCHANGED <<dispatcherVars, storeVars, memoryVars, uploadVars, prompts,
                   told, lifeVars>>

-------------------------------------------------------------------------------
(* cancel_job, under the same lock *)

Cancelling(j, step) == Holds({"cancel"}, j) /\ at = step

\* Mutant: only the slot is looked at.
CanBeCancelledWhenIdle(j) == active # j

CanBeCancelled(j) ==
    /\ JobObject(j).status = "queued"
    /\ JobObject(j).attempts = 0
    /\ active # j

CancelStart(j) ==
    /\ Cancelling(j, "start")
    /\ mem' = [mem EXCEPT ![j] = JobObject(j)]
    /\ CASE JobObject(j).status = "cancelled" ->
              Release /\ told' = [told EXCEPT ![j] = "cancelled"]
         [] CanBeCancelled(j) ->
              at' = "cancelRead" /\ UNCHANGED <<line, told>>
         [] OTHER ->
              Release /\ UNCHANGED told
    /\ UNCHANGED <<dispatcherVars, storeVars, handles, requests, uploadVars,
                   prompts, lifeVars, faults>>

\* list_events has answered: the job leaves the queue and is cancelled in memory.
\* Only a holder of the lock changes a status, so the transition is allowed.
CancelRead(j) ==
    /\ Cancelling(j, "cancelRead")
    /\ mem' = [mem EXCEPT ![j] =
                  Transitioned([@ EXCEPT !.seq = LastSequence(j)], "cancelled")]
    /\ CancelPending(j)
    /\ at' = "cancelPersist"
    /\ UNCHANGED <<storeVars, handles, requests, line, uploadVars, prompts,
                   told, lifeVars, faults>>

\* Mutant: the cancellation is answered but not written.
CancelUnwritten(j) ==
    /\ Cancelling(j, "cancelPersist")
    /\ requests' = requests \ {j}
    /\ handles' = handles \ {j}
    /\ told' = [told EXCEPT ![j] = "cancelled"]
    /\ Release
    /\ UNCHANGED <<dispatcherVars, storeVars, mem, uploadVars, prompts, lifeVars, faults>>

CancelCommit(j) ==
    /\ Cancelling(j, "cancelPersist")
    /\ PersistTransition(j, mem[j])
    /\ requests' = requests \ {j}
    /\ handles' = handles \ {j}
    /\ told' = [told EXCEPT ![j] = "cancelled"]
    /\ Release
    /\ UNCHANGED <<dispatcherVars, mem, uploadVars, prompts, lifeVars, faults>>

\* The client gets an error instead of an answer.
CancelRaises(j) ==
    /\ Cancelling(j, "cancelRead") \/ Cancelling(j, "cancelPersist")
    /\ Raises
    /\ Release
    /\ UNCHANGED <<dispatcherVars, storeVars, memoryVars, uploadVars, prompts,
                   told, lifeVars>>

-------------------------------------------------------------------------------

Upload(j) == BeginUpload(j) \/ CommitUpload(j) \/ RefuseUpload(j) \/ FinishUpload(j)

Submission(j) ==
    \/ AdvanceTerminal(j) \/ ClaimNothing(j) \/ ClaimOther(j) \/ ClaimOwn(j)
    \/ Reserve(j) \/ SubmitAccepted(j) \/ SubmitRefused(j) \/ SubmitAnswerLost(j)
    \/ SaveHandle(j) \/ FirstInspect(j) \/ SubmissionRaises(j) \/ GiveUpCommit(j)

Inspection(j) ==
    \/ InspectQueued(j) \/ InspectProcessing(j) \/ InspectSucceeded(j)
    \/ InspectEnded(j) \/ BridgeCommit(j) \/ PersistCommit(j)
    \/ InspectRaises(j) \/ PersistRaises(j)

Cancellation(j) ==
    CancelStart(j) \/ CancelRead(j) \/ CancelCommit(j) \/ CancelRaises(j)

===============================================================================
