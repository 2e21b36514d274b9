----------------------------- MODULE ComfyAdapter -----------------------------
(***************************************************************************)
(* What the service and the engine make of each other: the calls of        *)
(* ComfyGenerationAdapter (adapters/generation/comfy.py, comfy_client.py)  *)
(* cut at every HTTP exchange, and what the service decides from them      *)
(* (job_service.py, generation_coordinator.py).  The service is reduced to *)
(* its durable stages: every write takes effect with the step that asks    *)
(* for it, one task advances jobs, and no client cancels.  JobSystem has   *)
(* those interleavings and faults, with an engine that answers anything;   *)
(* here the answers are those an engine gives.                             *)
(***************************************************************************)
EXTENDS ComfyEngine

VARIABLES
    stage,    \* stage[j]: the durable job, in the words of JobLedger
    reason,   \* reason[j]: the durable error code, "none" without one
    handles,  \* _handles and _submitted_at: jobs with an engine handle
    saved,    \* jobs whose row holds engine_job_id
    reported, \* jobs with an orphan_engine_work event
    call,     \* the exchange the adapter waits for, "none" outside a call
    first,    \* the inspection under way is the first one, after submission
    tries,    \* reads of this resource that timed out
    over      \* timeout_seconds have passed since the active job's submission

serviceVars == <<stage, reason, handles, saved, reported>>
callVars == <<call, first, tries, over>>
adapterVars == <<dispatcherVars, serviceVars, callVars>>

StatusPollRetries == 2

Ended == {"completed", "failed", "cancelled"}

Stage == {"absent", "waiting", "reserved", "processing"} \cup Ended

\* The codes that say the service does not know what became of the prompt.
Unsure == {"engine_unavailable", "generation_timeout", "restart_recovery"}

Reason == Unsure \cup {"none", "generation_failed", "generation_cancelled",
                       "invalid_result"}

Call == {"none", "upload", "post", "answer", "save", "history", "queue"}

AdapterTypeOK ==
    /\ stage \in [Jobs -> Stage]
    /\ reason \in [Jobs -> Reason]
    /\ handles \subseteq Jobs
    /\ saved \subseteq Jobs
    /\ reported \subseteq Jobs
    /\ call \in Call
    /\ first \in BOOLEAN
    /\ tries \in 0 .. StatusPollRetries
    /\ over \in BOOLEAN

AdapterInit ==
    /\ DispatcherInit
    /\ stage = [j \in Jobs |-> "absent"]
    /\ reason = [j \in Jobs |-> "none"]
    /\ handles = {}
    /\ saved = {}
    /\ reported = {}
    /\ call = "none"
    /\ first = FALSE
    /\ tries = 0
    /\ over = FALSE

At(j, step) == active = j /\ call = step

Goto(step) ==
    /\ call' = step
    /\ UNCHANGED <<first, tries, over>>

-------------------------------------------------------------------------------
(* Before the engine *)

\* create_job
Accept(j) ==
    /\ stage[j] = "absent"
    /\ stage' = [stage EXCEPT ![j] = "waiting"]
    /\ Enqueue(j)
    /\ UNCHANGED <<reason, handles, saved, reported, callVars, engineVars>>

\* The head of the queue takes the GPU slot and its only submission is reserved.
Claim(j) ==
    /\ ClaimNext
    /\ active' = j
    /\ stage' = [stage EXCEPT ![j] = "reserved"]
    /\ Goto("upload")
    /\ UNCHANGED <<reason, handles, saved, reported, engineVars>>

\* The job ends, durably, and gives up the slot and its handle.
End(j, status, code) ==
    /\ stage' = [stage EXCEPT ![j] = status]
    /\ reason' = [reason EXCEPT ![j] = code]
    /\ handles' = handles \ {j}
    /\ Complete(j)
    /\ over' = FALSE
    /\ UNCHANGED <<saved, reported>>

-------------------------------------------------------------------------------
(* ComfyGenerationAdapter.submit *)

UploadImage(j) ==
    /\ At(j, "upload")
    /\ Goto("post")
    /\ UNCHANGED <<dispatcherVars, serviceVars, engineVars>>

PostPrompt(j) ==
    /\ At(j, "post")
    /\ wire' = [wire EXCEPT ![j] = "sent"]
    /\ Goto("answer")
    /\ UNCHANGED <<dispatcherVars, serviceVars, pending, running, ended, history, output>>

\* submit returns the handle.
PromptAnswered(j) ==
    /\ At(j, "answer")
    /\ wire[j] = "taken"
    /\ Goto("save")
    /\ UNCHANGED <<dispatcherVars, serviceVars, engineVars>>

\* The upload fails, or the prompt is refused, or its answer does not come in
\* time: submit raises, and the service gives the job up.
SubmitFails(j) ==
    /\ At(j, "upload") \/ At(j, "answer")
    /\ End(j, "failed", "engine_unavailable")
    /\ call' = "none"
    /\ UNCHANGED <<first, tries, engineVars>>

-------------------------------------------------------------------------------
(* ComfyGenerationAdapter.inspect: history, then queue *)

Inspect(firstTime) ==
    /\ call' = "history"
    /\ first' = firstTime
    /\ tries' = 0
    /\ UNCHANGED over

\* The handle is recorded, and the first observation follows at once.
SaveHandle(j) ==
    /\ At(j, "save")
    /\ saved' = saved \cup {j}
    /\ handles' = handles \cup {j}
    /\ Inspect(TRUE)
    /\ UNCHANGED <<dispatcherVars, stage, reason, reported, engineVars>>

\* A tick of the worker, or a poll.
InspectAgain(j) ==
    /\ At(j, "none")
    /\ j \in handles
    /\ Inspect(FALSE)
    /\ UNCHANGED <<dispatcherVars, serviceVars, engineVars>>

\* resolve finds exactly one candidate, and publish_glb finds it valid.  Anything else
\* is a PublicationError here; JobSystem has the publication that raises otherwise.
Publishable(files) == files = "valid"

\* What the service makes of an observation.
Decided(j, observed, code) ==
    CASE Decide(observed) = "queued" ->
           UNCHANGED <<dispatcherVars, serviceVars, over>>
      [] Decide(observed) = "processing" ->
           /\ stage' = [stage EXCEPT ![j] = "processing"]
           /\ UNCHANGED <<dispatcherVars, reason, handles, saved, reported, over>>
      [] Decide(observed) = "completed" ->
           IF Publishable(output[j])
           THEN End(j, "completed", "none")
           ELSE End(j, "failed", "invalid_result")
      [] Decide(observed) = "cancelled" -> End(j, "cancelled", "generation_cancelled")
      [] OTHER                          -> End(j, "failed", code)

\* The call returns; the first observation is dropped.
Observed(j, observed, code) ==
    /\ IF first
       THEN UNCHANGED <<dispatcherVars, serviceVars, over>>
       ELSE Decided(j, observed, code)
    /\ call' = "none"
    /\ first' = FALSE
    /\ tries' = 0
    /\ UNCHANGED engineVars

\* Mutant: unfinished work is never over.
UnfinishedForever(j, observed) == Observed(j, observed, "none")

\* Unfinished work becomes unknown once timeout_seconds are over.
Unfinished(j, observed) ==
    IF over THEN Observed(j, "unknown", "generation_timeout")
            ELSE Observed(j, observed, "none")

\* The history has the prompt.
ReadEnding(j) ==
    /\ At(j, "history")
    /\ j \in history
    /\ CASE ended[j] = "success"     -> Observed(j, "succeeded", "none")
         [] ended[j] = "error"       -> Observed(j, "failed", "generation_failed")
         [] ended[j] = "interrupted" -> Observed(j, "cancelled", "none")
         [] OTHER                    -> Unfinished(j, "processing")

\* It has not, so the queue is asked next.
ReadNoEnding(j) ==
    /\ At(j, "history")
    /\ j \notin history
    /\ call' = "queue"
    /\ tries' = 0
    /\ UNCHANGED <<dispatcherVars, serviceVars, first, over, engineVars>>

\* Mutant: a prompt that is nowhere counts as done.
ReadQueueDone(j) ==
    /\ At(j, "queue")
    /\ IF j = running \/ j \in ToSet(pending)
       THEN Unfinished(j, "processing")
       ELSE Observed(j, "succeeded", "none")

ReadQueue(j) ==
    /\ At(j, "queue")
    /\ CASE j = running           -> Unfinished(j, "processing")
         [] j \in ToSet(pending)  -> Unfinished(j, "queued")
         [] OTHER                 -> Observed(j, "unknown", "engine_unavailable")

\* Mutant: the number of tries is not bounded.
ReadTimesOutAlways(j) ==
    /\ At(j, "history") \/ At(j, "queue")
    /\ tries' = tries + 1
    /\ UNCHANGED <<dispatcherVars, serviceVars, call, first, over, engineVars>>

\* A read that times out is tried again, twice.
ReadTimesOut(j) ==
    /\ At(j, "history") \/ At(j, "queue")
    /\ tries < StatusPollRetries
    /\ tries' = tries + 1
    /\ UNCHANGED <<dispatcherVars, serviceVars, call, first, over, engineVars>>

\* Mutant: an engine that cannot be reached has dropped the prompt.
ReadFailsCancelled(j) ==
    /\ At(j, "history") \/ At(j, "queue")
    /\ Observed(j, "cancelled", "none")

\* The last try times out too, or the connection or the answer is broken.
ReadFails(j) ==
    \/ /\ At(j, "history")
       /\ tries = StatusPollRetries
       /\ Observed(j, "unknown", "generation_timeout")
    \/ /\ At(j, "history") \/ At(j, "queue")
       /\ Observed(j, "unknown", "engine_unavailable")

\* Time goes by.
TimeoutPasses ==
    /\ active \in handles
    /\ ~over
    /\ over' = TRUE
    /\ UNCHANGED <<dispatcherVars, serviceVars, call, first, tries, engineVars>>

-------------------------------------------------------------------------------
(* Restart of the API process *)

\* Mutant: what was reserved is queued again.
RestartRequeues ==
    /\ active' = NoJob
    /\ handles' = {}
    /\ stage' = [j \in Jobs |-> IF stage[j] \in {"reserved", "processing"}
                                THEN "waiting" ELSE stage[j]]
    /\ queue' = IF active = NoJob THEN queue ELSE <<active>> \o queue
    /\ call' = "none"
    /\ first' = FALSE
    /\ tries' = 0
    /\ over' = FALSE
    /\ UNCHANGED <<reason, saved, reported, engineVars>>

\* What waits is queued again; what was reserved is failed, and reported if it
\* was seen processing.
Restart ==
    /\ active' = NoJob
    /\ handles' = {}
    /\ stage' = [j \in Jobs |-> IF stage[j] \in {"reserved", "processing"}
                                THEN "failed" ELSE stage[j]]
    /\ reason' = [j \in Jobs |-> IF stage[j] \in {"reserved", "processing"}
                                 THEN "restart_recovery" ELSE reason[j]]
    /\ reported' = reported \cup {j \in saved : stage[j] = "processing"}
    /\ call' = "none"
    /\ first' = FALSE
    /\ tries' = 0
    /\ over' = FALSE
    /\ UNCHANGED <<queue, saved, engineVars>>

===============================================================================
