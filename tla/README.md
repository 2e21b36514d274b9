# Verification of the local 3D generation service

This directory holds TLA+ models of the service in `src/`, the TLC runs that
check them on small instances, and TLAPS proofs of what matters most.

The service turns one photo into one 3D model on one GPU. A FastAPI process
(`apps/api`) accepts uploads into SQLite, queues them behind a single slot, sends
each job's prompt to ComfyUI exactly once, watches it, publishes the GLB, and
serves status, cancellation and the result to a Next.js client (`apps/web`).
Operator scripts (`scripts/windows`) run the processes and the tunnel.

## 1. Inventory

| Component | Source | State | Operations | Model |
|---|---|---|---|---|
| Job state machine | `domain/jobs.py`, `services/generation_coordinator.py` | the fields of `GenerationJob` | `transition`, `record_progress`, `set_sequence`, `decide` | `JobDomain` |
| Serial dispatcher | `services/serial_dispatcher.py` | `_queue`, `_active` | `enqueue`, `claim_next`, `complete`, `cancel_pending`, `position` | `SerialDispatcher` |
| Job store | `persistence/*.py`, `schema.sql` | job rows, assets, event log | `accept_job`, `reserve_submission`, `update_job`, `persist_transition`, `append_event`, queries, deletes | `JobStore`, `Admission` |
| Job service | `services/job_service.py` | `_jobs`, `_handles`, `_requests`, `_advance_lock`, worker and maintenance tasks | `create_job`, `read_job`, `cancel_job`, `_advance_unlocked`, `cleanup_expired`, `read_result` | `JobService`, `Retention` |
| Restart recovery | `services/recovery.py`, `main.py` | none of its own | `reconcile`, `_mark_restart_failure`, `_record_missing_output` | `JobSystem`, `Retention` |
| ComfyUI adapter | `adapters/generation/comfy.py`, `comfy_client.py`, `output_resolver.py` | start time per handle; the engine's queue and history | `submit`, `inspect`, output discovery | `ComfyAdapter`, `ComfyEngine` (an oracle in `JobService`) |
| Mock adapter, workflow mapper, image validation, tokens | `adapters/generation/mock.py`, `workflow_mapper.py`, `services/image_validation.py`, `job_tokens.py` | none, or a test double's | pure functions | not modelled |
| Storage, retention, publication | `storage/job_storage.py`, `services/glb_publication.py` | directories and files of each job | write, publish, delete, orphan scan | `JobFiles`, `Retention` |
| Admission control | `persistence/jobs.py`, `config.py` | the rows, by status and age | the three limits in `accept_job` | `Admission` |
| HTTP API | `api/jobs.py` | none | translate HTTP to the service | `JobsApi` |
| Health, logging, configuration | `api/health.py`, `observability/`, `config.py` | none | probes, log lines, settings | not modelled |
| Web client | `apps/web/app`, `apps/web/lib`, `apps/web/components` | the shown job, session storage, timers | submit, poll, cancel, download | `WebClient` |
| Single-node services | `scripts/windows/*_single_node.ps1`, `deploy/windows/services` | the status of four services | start with rollback, stop | `ServiceStack` |
| Quick tunnel | `scripts/windows/*_quick_tunnel.ps1` | a process and a state file | session, stop | `QuickTunnel`, `Operations` |

How they interact. Everything in the API process runs on one asyncio event loop,
so code is interrupted only where it awaits. `JobService` owns the dispatcher and
talks to the store (each call is one SQLite transaction on a thread) and to the
adapter (HTTP to ComfyUI). Three kinds of tasks meet at `_advance_lock`: the
background worker, one task for each status poll that kicks its job, and one for
each cancellation. Before the API serves, recovery reads every non-terminal row and
either puts it back into memory or fails it. The only state that survives a
restart is SQLite, the files, and whatever the engine still does.

What is hard, and what makes each part correct:

- *The process can die between any two steps.* The reservation is written before the
  prompt is sent; the engine's identifier after. Correct: a prompt is sent at most
  once (`AtMostOneSubmission`), no accepted job is forgotten (`NoJobForgotten`).
- *Memory runs ahead of the row.* `transition` changes the object, the write
  comes later, may fail, and is read by clients meanwhile. Correct: what a client was
  told stays true once it is durable (`ToldEndHolds`, `CancelledIsNeverSent`; section 4 says
  how far).
- *Tasks choose before they wait.* The worker and a poll name a job and then queue for
  the lock; by the time they hold it the job may be cancelled, active or over.
  Correct: one job in the slot (`SerialExecution`), handles only for it
  (`HandleOwnsSlot`), a queue that holds only claimable jobs (`QueueIsClaimable`),
  first come first served (`NoOvertaking`).
- *Event numbers are counters in objects* that recovery and cancellation rebuild;
  `UNIQUE(job_id, sequence)` rejects a collision (`EventsNeverCollide`).
- *Every accepted job must end* (`EveryJobEnds`): what goes wrong in the same way on every tick
  makes no progress (`EveryJobEndsOrStuck`).
- *The engine is another process.* Its answers get lost, it is restarted on its own, and
  its state is read in two requests. Correct: what the service says of a job is what
  the engine did (`EndIsEngineTruth`), work left at the engine is known to be unsure
  (`StrayWorkIsUnsure`), and a silent engine stops nobody (`EveryJobEnds`).
- *Files and rows are two stores.* An upload's files come before its row, a model before
  its job's completion, and a cleanup removes files before rows while uploads, downloads
  and recovery go on. Correct: nothing that is needed is removed (`LiveFilesKept`), nothing
  is left behind (`FilesHaveRows`, `NothingStays`), and what recovery reports as lost was
  lost (`MissingIsReal`).
- *Limits are counted by a clock.* `created_at` is taken before the transaction that
  counts it. Correct: `PendingBounded`, `RateBounded`.
- *The browser's answers overtake each other.* Correct: a stale view is still being polled
  (`StaleViewIsPolled`), the model on the screen is the shown job's (`LiveModelIsShown`),
  an earlier job does not come back (`ViewMovesOn`), and an end is shown (`EndIsShown`), also
  over a restart of the service, unless the restart took it back (section 4).
- *Operator scripts share a file and four services* and can end anywhere. Correct: a failed
  start is rolled back (`RollbackIsComplete`), a start that passed left everything running
  (`PassedMeansRunning`), and the state file names the one tunnel that runs (`OneTunnel`,
  `TunnelIsRecorded`).

## 2. Modules

```
JobDomain ── SerialDispatcher ─┐
    └─────── JobStore ─────────┴─ JobService ── JobSystem ── MCJobSystem (TLC)
                                                   │  └ Ledger == INSTANCE JobLedger
   DispatcherProofs                                └ JobSystemProofs ── JobRecordProofs
                                                                            └ JobLedgerProofs

SerialDispatcher ── ComfyEngine ── ComfyAdapter ── GenerationRun ── MCGenerationRun (TLC)
                                                       │  └ Ledger == INSTANCE JobLedger
                                                       └ GenerationRunProofs

JobDomain ── JobFiles ──┐
    └─────── Admission ─┴─ Retention ── MCRetention (TLC)
                              └ RetentionProofs

JobsApi ── WebClient ── MCWebClient (TLC)
               └ WebClientProofs

ServiceStack ─┐
QuickTunnel ──┴─ Operations ── MCOperations (TLC)
                  └ OperationsProofs
```

`JobSystem` and `GenerationRun` are two views of the same service, and both
implement `JobLedger`. `JobSystem` has every interleaving of tasks, failing writes and
recovery, with an engine that may answer anything. `GenerationRun` has the engine and
the HTTP exchanges, with a service reduced to its durable stages. `Retention` is a third
view, of files, rows and clocks, in which a job starts and ends when it likes; and to the
browser (`WebClient`) the service is only the answers of its endpoints. One model with all
of them would be beyond TLC.

| Module | What it is |
|---|---|
| `JobDomain` | The job record, the transition table, `Decide`. |
| `SerialDispatcher` | `queue` and `active`; each method is one action. |
| `JobStore` | `row[j]` and the set of jobs with an orphan event; each transaction is one action. The log of a job is abstracted to the number of its last event. |
| `JobService` | The API process while it is up. |
| `JobSystem` | `JobService` with crashes and recovery, the specification, fairness and every property. |
| `JobLedger` | The abstract specification: the promise about a job seen from its durable record alone. |
| `ComfyEngine` | ComfyUI as the adapter sees it: prompts on the wire, queue, history, output. External: modelled from the routes and fields `comfy_client.py` uses. |
| `ComfyAdapter` | `submit` and `inspect` cut at every HTTP exchange, and what the service decides from an observation. |
| `GenerationRun` | Service, adapter and engine together: specification, fairness, properties. |
| `JobFiles` | The storage root: one tree for each job, with its image, its model and its age. |
| `Admission` | The rows by status and age, and the limits of `accept_job`. |
| `Retention` | Uploads, publication, reads, the cleanup pass, recovery, crashes and time over both. |
| `JobsApi` | What each endpoint answers, by the public status of a job. |
| `WebClient` | One tab: page, form, result view, polling hook, and the requests on their way. |
| `ServiceStack` | The four Windows services, the start script with its rollback, the stop script, the service manager. |
| `QuickTunnel` | Sessions of the start script, cloudflared processes, the state file, the stop script. |
| `Operations` | Both: a tunnel is started only in front of a healthy chain. |
| `MCJobSystem`, `MCGenerationRun`, `MCRetention`, `MCWebClient`, `MCOperations` | The TLC instances. |
| `DispatcherProofs`, `JobSystemProofs`, `JobRecordProofs`, `JobLedgerProofs`, `GenerationRunProofs`, `OperationsProofs`, `RetentionProofs`, `WebClientProofs` | Theorems and proofs. |

### How state and actions correspond to the code

`mem[j]` is `_jobs[j]`, `handles` and `requests` are the keys of `_handles` and
`_requests`. `line` is the FIFO of `_advance_lock`: its head holds the lock, and
`at` is the `await` the head is suspended at. `asyncio.Lock` hands over in order
of arrival, so the head is always the oldest waiter. `creating[j]` is how far
`create_job` has come. `phase`, `todo` and `crashes` are the life of the process.
`prompts`, `told`, `arrivals` and `preceding` record what happened at the border
of the process, so that properties can speak of it. `raised` says that the engine is done with the
active job and that looking at its result raised: the job is not seen waiting or processing after
that. Which jobs this may happen to (`Unpublishable`) is a constant; how often is not bounded.

| Code | Actions |
|---|---|
| `create_job` | `BeginUpload` (validated and stored, `queued_at` taken), `CommitUpload` (`accept_job` committed), `FinishUpload` (memory and queue), `RefuseUpload` |
| `_worker_loop` | `WorkerTick` |
| `read_job` | `Poll` |
| `_advance_unlocked`, no handle | `ClaimNothing`, `ClaimOther`, `ClaimOwn`, `Reserve`, `SubmitAccepted`/`SubmitRefused`/`SubmitAnswerLost`, `SaveHandle`, `FirstInspect`, `SubmissionRaises`, `GiveUpCommit` |
| `_advance_unlocked`, handle | `InspectQueued`, `InspectProcessing`, `InspectSucceeded`, `BridgeCommit`, `InspectEnded`, `InspectRaises`, `PersistCommit`, `PersistRaises` |
| `cancel_job` | `AskCancel`, `CancelStart`, `CancelRead`, `CancelCommit`, `CancelRaises` |
| process end, `recover_jobs`, lifespan | `Crash`, `Restart`, `Rehydrate`, `FailQueued`, `ReportOrphan`, `FailProcessing`, `Serve` |

One action is the code between two awaits that matter. A step that ends with an
awaited transaction is split at the await: the change of memory before it
(`InspectSucceeded`), the commit and what runs after it (`PersistCommit`). A commit
and the code after it are one action: the worker thread's commit and the
coroutine's resumption are not separated, except in `create_job`, where a crash
between them matters (`CommitUpload`, `FinishUpload`).

Abstracted: times, tokens, messages, file contents, the text of events, and the
engine, which may give any answer to any inspection. Progress never falls.

In `ComfyAdapter`, `call` is the HTTP exchange the adapter waits for, `tries` the reads
that timed out, `first` tells the observation the service drops after a submission
from the later ones, and `over` that `timeout_seconds` have passed.

| Code | Actions |
|---|---|
| `ComfyGenerationAdapter.submit` | `UploadImage`, `PostPrompt`, `PromptAnswered`, `SubmitFails` (any of the exchanges fails or times out) |
| `_advance_unlocked` around it | `Claim`, `SaveHandle`, `InspectAgain` |
| `reconcile`, `_observation_from_history` | `ReadEnding` or `ReadNoEnding` for the history, then `ReadQueue` |
| `_get_json` | `ReadTimesOut` (a retry), `ReadFails` (retries used up, or the connection breaks) |
| `inspect`'s timeout | `TimeoutPasses`, `Unfinished` |
| `decide`, publication, the end of a job | `Observed`, `Decided`, `Publishable`, `End` |
| end of the process and recovery | `Restart` |
| ComfyUI | `EngineReceive`, `EngineRefuse`, `EngineStart`, `EngineWrite`, `EngineEnd`, `EngineRestart` |

The answer to `POST /prompt` may be lost although the engine takes the prompt
(`SubmitFails` before `EngineReceive`), and prompts still on the wire outlive a
restart of the service. An engine's job has at most one prompt, because a job is
submitted at most once: that is `AtMostOneSubmission` of `JobSystem`, and here part of
`LedgerKept`. The error codes `unknown_execution` and `engine_disconnect` are one value,
since the coordinator makes `engine_unavailable` of both. The content of an output folder
is one of three values: nothing, one valid model, anything else; a job's engine writes
only below its own folder. Left out here, and present in `JobSystem`: waiting clients,
client cancellations, failing writes, progress.

In `Retention`, `trees[j]` is the directory of job j, `rows[j]` its row, `age[j]` the time since
`created_at`, and `pass` the cleanup pass: what it read and where it is suspended. Time is
a tick, and every period is a small number of ticks that keeps the order of the real ones.

| Code | Actions |
|---|---|
| `create_job` | `StoreUpload` (files, `created_at`), `AcceptUpload`, `RefuseUpload` (files removed) |
| `_advance_unlocked`, publication | `StartJob`, `PublishModel`, `CompleteJob`, `EndJob` |
| `result_available` | `ReadStatus` (makes the directories again) |
| `read_result`, `FileResponse` | `AskResult` (checked, waits for `_cleanup_lock`), `GetResult`, `OpenResult`, `CloseResult` |
| `cleanup_expired` | `StartPass`, `CleanFiles`, `CleanRow`, `ListRows`, `ScanOrphans`; an exception is `FailFiles` (an open file, on Windows) or `FailPass` (a query) |
| `_maintenance_loop` | `StartPass` again, until an exception: `Abandon` |
| lifespan, recovery | `Crash`, `Restart`, then the pass, `RecoverQueued`, `RecoverFailed`, `RecordMissingOutput`, `Serve` |

`LoseTree` is an operator or a disk that loses a directory, so that there is something
for recovery to report. `RefuseUpload` can come to any upload: the files are removed on every
exception of `accept_job`, a full queue or an error of the database.

In `WebClient`, `current` is the page's job, `view` the hook's, `polls[j]` the request or
answer of the effect for job j, `timer` its next poll, `cancel` and `fetch` the requests of the
result view, `src` the model it shows. A React render and its effects are one step with the state change
that causes them. The poll of an effect that was cleaned up is still answered, and ignored.
Statuses and messages abstract the JSON; a refusal is an error whatever its code. The service answers
from memory, before an end is written: the write may raise, or the process die first, and a client cannot tell.
`Restart` therefore takes back any end, but for those in `durable`: the ends an earlier restart found in the
database, and the cancellations that were answered. `misled` remembers the jobs
whose end the tab had been told, `missed` that the model request for the view as it is failed, and
`left` the cancellations of a tab that was reloaded.

| Code | Actions |
|---|---|
| `generation-form.tsx`, `page.tsx` | `Submit`, `AnswerSubmit`, `DeliverSubmit` (`handleCreated`), `Reload` (what is on its way still reaches the service: `AnswerLeft`) |
| `use-job-status.ts` | `StartPolling`, `FireTimer`, `AnswerPoll`, `DeliverPoll` |
| `generation-result.tsx` | `RunModelEffect`, `AnswerModel`, `DeliverModel`, `AskCancel`, `AnswerCancel`, `DeliverCancel` (`replaceJob`), `Download` |
| `api/jobs.py` | `CreateJob`, `GetJob`, `GetModel`, `CancelJob`, `PublicJob` |
| the service below | `Run`, `End`, `Expire`, `LoseModel` (together `JobMoves`), `Restart` in `RestartService` |

In `ServiceStack` and `QuickTunnel` every statement of a script that another script, a
service or the operator can come between is an action of its own: `BeginStart`,
`SkipRunning`, `StartService`, `WaitForStatus` or `WaitTimesOut`, `RollBack`, `RolledBack`;
`BeginStop`, `StopNext`, `StopFails`, `StopPasses`; `Check`, `Clear`, `Launch`, `Record`,
`Finish`, `Forget`, with `AbortLaunch` and `CloseConsole` for the ends that skip the `finally`
block; `ReadRecord`, `StopProcess`, `StopDenied`, `RemoveRecord`. `overlapped` remembers that a session began
before the scripts before it were over. What the service manager
does is external: it starts what a service depends on, stops what depends on it, and
restarts a service that failed.

## 3. Runs

| Run | Bounds | What it shows |
|---|---|---|
| `JobSafety` | two jobs, one polled, both cancellable, one client task at the lock beside the worker, one exception, two crashes | Type correctness; one submission; one job in the slot; no job forgotten; a claimable queue; fresh event numbers; handles only in the slot; first come first served; an end a client was shown is taken back only by a crash before its write; until the first exception the durable status follows the transition table; a job whose cancellation a client was told is not sent; and the ledger is implemented. |
| `JobProgress` | two jobs, one polled, one cancellable, whose result may raise any number of times; one exception of the database, one crash, with fairness | Every accepted job ends, unless through findings F1, F2 and F6. |
| `JobStolenSlot`, `JobLostWrite`, `JobPublishLoop` | the smallest that shows the finding | The findings F1, F2 and F6: `EveryJobEnds` is false. |
| `EngineTruth` | two jobs, an engine that ends prompts in all four ways or never, restarts of either side without bound, with fairness | Type correctness; a durable end is what the engine did; stray work is unsure work; the ledger is implemented; every accepted job ends, whatever the engine does. |
| `EngineFinished`, `EngineOrphan` | as `EngineTruth` | The findings F3 and F4. |
| `Retention` | two jobs with the same image, one of them read, grace 1, retention 3, window 2, a commit that waits up to 1; one crash; one failing query or one lost directory; limits that are reached, with fairness | Type correctness; both limits; needed files are kept; files without a row come from a crash; a reported model was lost; what is over goes, unless the maintenance task has ended. |
| `RetentionStops` | as `Retention`, with room for both jobs and nothing that fails from outside | The finding F5. |
| `WebClient` | two jobs, one reload, and one failed request, lost model or crash of the service, with fairness | Type correctness; a stale view is polled; the model is the shown job's; the view moves on; the end of the job comes to be shown, or an end that the tab was told and a crash took back. |
| `Operations` | four services, two runs of the start script, one crash, any number of stops; two sessions, one run of the tunnel's stop script | Type correctness; one recorded tunnel, while sessions do not overlap; a start that passed left all four running; a failed start is rolled back. |

Why the bounds are enough. Two jobs are what it takes for one to hold the slot
while another waits, for a task to claim the wrong one, and for two to be queued
out of order; every property relates at most two jobs. The second crash lets a
crash hit a recovery that is itself the consequence of one, at every step; a third
starts from the same durable states. One exception of the database or of a submission, at every step that can raise,
already separates memory from the row; a second one can only repeat this for
the other job. The exception that comes back on every tick (`InspectRaises`) is not bounded. `MaxClients` bounds clients' tasks at the lock at one time, not
over a run: with one client and the worker every order of two tasks at the lock
occurs. A second task of the same kind for the
same job finds what the first left and is not admitted. The job that is polled can
be the older one or the younger one, since either can be uploaded first. Progress is left out of the runs (`MaxProgress` is 0): it
numbers events as the other transitions do, and the theorems hold with it. Symmetry is used only for the
sessions of `Operations`, and only for safety.

In `Retention` an age beyond a threshold changes nothing, so ages stop counting there;
retention, window and grace are the smallest numbers in the order the settings have
(window < retention, delay <= window, delay <= grace), with one unit between them so that a
pass can begin before a boundary and end after it. Both jobs upload the same image in two
deployments: one whose queue is full with one job, one whose two rates are. In `WebClient`
two jobs are what it takes for an answer to come late, one reload comes at any
point of every request, and one failure or one crash hits any of them and takes back any end; a crash of
the service is also a failure of every request in its hands. `FirstIsA` leaves out the behaviours that differ from
others only in the names of the jobs. `StaleViewIsPolled`, `LiveModelIsShown` and `ViewMovesOn` are proved for any number of crashes. In `Operations` the chain is the deployment's; two sessions are
the one that runs and the one that should not.

`CHECK_DEADLOCK FALSE` is stated for `JobSystem`, `WebClient` and `Operations`: when all jobs
have ended, or the operator's runs are used up, the model stops, as the real thing idles.
`GenerationRun` and `Retention` are checked for deadlock.

Fairness, and why the code justifies it. The event loop runs whatever is ready and
asyncio's lock is FIFO (weak fairness of a step of the lock's holder). The
worker ticks every poll interval and survives every exception (weak fairness of
`WorkerTick`). SQLite answers an upload (weak fairness of its steps). The service
manager restarts the process, and startup runs recovery to its end (weak fairness
of `Restart`, `Recover`, `Serve`). The engine may answer "queued" or "processing" as
often as it likes, but the adapter turns unfinished work into "unknown" when
`timeout_seconds` are over (`comfy.py:120-130`): a job that is inspected again and again is
decided in the end, or looking at its result raises (strong fairness of
`InspectSucceeded \/ InspectEnded \/ InspectRaises`); nothing makes it stop raising. `EngineTruth` shows
why that is justified: in `GenerationRun`, where those observations have a cause, nothing
is asked of the engine, only that the worker ticks, that every HTTP exchange answers or
times out (each has a timeout of its own), and that `timeout_seconds` pass. `Retention` asks
that time passes, that an upload's transaction and a publication come to their end, that the maintenance timer
fires and a pass goes on, and that the service manager restarts the process; `WebClient`
that timers fire and that a request is answered or fails (a poll is aborted after 1.5 s, and the
browser gives up on the others). No fairness is assumed of clients, of users, of crashes
or of exceptions.

## 4. Findings

- **F1, `JobStolenSlot`** (`job_service.py:328`). `claim_next` pops the head of the queue
  whichever job the caller came for. When a poll of B gets the lock before the
  worker's task for the older A, A becomes active and `_advance_unlocked(B)` returns. A has
  no handle, so every later advance of A calls `claim_next` again, which returns
  `None` while a job is active. A is never submitted, nor any job after it, until a
  restart. (SC-001: "no job remains indefinitely non-terminal".)
- **F2, `JobLostWrite`** (`job_service.py:412`). A terminal transition changes memory before
  its write. When the write raises, the slot is not given up and every later
  advance returns early, since the object is terminal. The comment at
  `job_service.py:129-130` expects a safe retry.
- **F3, `EngineFinished`** (`comfy_client.py:175`). `reconcile` reads the history and then the
  queue. A prompt that ends in between is in neither answer, which counts as unknown, and
  the coordinator fails an unknown job at once. `comfyui-adapter.md:96`: "unknown before
  timeout: keep latest durable state"; `tasks.md:141`: "unknown observations fail only at the
  configured job timeout".
- **F4, `EngineOrphan`** (`recovery.py:17`). A row stays queued after its engine identifier is
  written, until an inspection is seen processing. A restart in between fails it through
  the queued branch, which writes no orphan event. `data-model.md:241`: "report to operator".

- **F5, `RetentionStops`** (`job_service.py:161`). `_maintenance_loop` has no `try`. The first
  exception of a pass ends the task: on Windows, `rmtree` of a model that a download still has
  open; anywhere, a locked database. Nothing is removed after that until a restart.
  `spec.md:218-219` (FR-018): job files "MUST be removed automatically after expiry";
  `spec.md:165` names cleanup during a download. `NothingStays` shows that the task's end is
  the only way for something to stay.
- **F6, `JobPublishLoop`** (`job_service.py:379`). Only a `PublicationError` of `publish_glb` fails the
  job. A full disk (`glb_publication.py:83-92`) or a model whose `asset` is not an object
  (`glb_publication.py:42`) raises something else. The worker's loop survives it and does the same
  on the next tick, with the slot taken, until a restart. `spec.md:221-223` (FR-019): accepted work is "to
  continue or fail safely if its output cannot be written"; SC-001 as in F1.
What else memory that is changed before the write leads to, what holds all the same, and where no run
has a finding of its own:

- *A lost write of `processing`* (`job_service.py:375`) is not repeated, and the bridge before completion
  (`job_service.py:402-410`) is skipped, since it looks at the object: the row goes from queued to
  completed. That is why `LifecycleFollowed` holds until the first exception, and `LedgerKept`, to which a job
  that was reserved and not seen processing may complete, does not notice it.
- *A cancellation whose write failed* (`job_service.py:286`) is confirmed to the retry from memory, although its
  row is queued, and a restart puts the job back into the queue (`openapi.yaml:92`: "Cancellation is
  durable and idempotent"). `CancelledIsNeverSent` is what holds: before a crash whatever fails, and after one if
  no write failed and the client learnt it from the answer to its request.
- *A poll between the change of the object and the commit* (`job_service.py:259`) is shown an end that a crash
  there takes back (`openapi.yaml:63`: "Read the latest durable public job state"). `ToldEndHolds`: there is no other way. The
  browser's hook stops at the first end it is told (`use-job-status.ts:51`), so the tab then shows the
  wrong end until it is reloaded: `misled` in `EndIsShown`.

Disagreements with what a reader would expect, met while modelling and visible as exceptions
in the properties or as behaviour of the actions:

- *Web client.* `GenerationResult` has no key, so after a second upload it goes on
  with the first job's state until the first poll of the second one answers. In between
  its model, download and cancel requests carry the first job's id and the second one's
  token, and get 404; the alert stays until the next cancellation. A cancellation of the
  first job that is answered later replaces the view for good, when the second job's
  polling is over (`crossed`). `modelSrc` is never cleared, so the old model stays on the screen
  behind a revoked URL. A job that is gone is polled for ever. A reload during the upload
  loses the job's token.
- *Quick tunnel.* `OneTunnel` and `TunnelIsRecorded` are about sessions that do not overlap:
  `overlapped` excludes a session that starts between the end of the last one's process and that session's notice,
  up to two seconds later, whose `finally` block removes the new one's state file
  (`start_quick_tunnel.ps1:100`), and sessions that begin at the same time, whose checks nothing makes
  atomic; `aborted` excludes a session that is broken off between `Start-Process` and the `try`
  block, whose process nobody stops.
- *Single node.* A service that timed out is not in the list that is rolled back
  (`start_single_node.ps1:15`), and may come up later; `RollbackIsComplete` excepts it, and nothing else but a
  service the rollback could not stop.
- *Copies at the engine.* The image that is uploaded to ComfyUI and the model ComfyUI writes
  are outside the storage root, and nothing in `src/` removes them.

`EveryJobEndsOrStuck` names what F1 and F2 leave behind (`SlotStolen`, `WriteLost`) and what F6 does
for ever (`InspectRaises`), and shows that nothing else in the model stops the queue, when crashes
and exceptions of the database come to an end. While they go on nothing is promised: a
database that is locked for good stops every queue.

`EndIsShown` says what the tab comes to show when the current job has ended for good: that end. The
exceptions are a late cancellation of another job (`crossed`), a job that is in `misled`, of
which it shows the end it was told; and for the model, that the one request for it failed, which
is shown (`missed /\ alert`: an alert of something earlier is no excuse).

## 5. Proofs

Every invariant, action property and refinement that a passing run checks is also a theorem;
the liveness properties are not. The theorems about `JobSystem` and `GenerationRun` hold for any
set of jobs, any clients, any number of progress levels, exceptions and crashes; those about
`Retention` for any set of jobs (not only a finite one), any limits and any periods in the order
below; those about `WebClient` for any set of jobs and any number of reloads, failed
requests and crashes; those about `Operations` for any number of sessions, stops, runs and crashes, and
chains of up to four services. Assumptions:

- `NoJobAssumption`, `ApiAssumption`: None is no job; `ApiAssumption` also that the bound of faults is
  a natural number.
- `ServiceAssumption`, `CrashAssumption`: the clients are of jobs, and so are the jobs whose result
  may raise; the bounds are natural numbers.
- `EndingAssumption`: the endings are among the four.
- `GraceAssumption`, `AdmissionAssumption`, `RetentionAssumption`: the periods are natural
  numbers; a commit waits at most `MaxDelay`, which is at most the window and the grace period;
  the window is shorter than the retention; the limits are at least one. These are the ranges
  and defaults of `config.py`, but for `MaxDelay`: it is SQLite's busy timeout, and seconds.
- `WebAssumption`: the bound of reloads is a natural number.
- `TunnelAssumption`, `StackAssumption`: no session is a session, the length of the chain, the bounds.

| Theorem | Statement | Argument |
|---|---|---|
| `JobSystemProofs!TypeCorrect` | `Spec => []TypeOK` | inductive as it stands, one step per action |
| `JobSystemProofs!SubmittedOnce` | `Spec => []AtMostOneSubmission` | `SubmissionInv` |
| `JobSystemProofs!SlotIsSerial` | `Spec => []SerialExecution` | `SlotInv` |
| `JobSystemProofs!OnlyActiveInspected` | `Spec => []HandleOwnsSlot` | `SlotInv` |
| `JobSystemProofs!QueueStaysClaimable` | `Spec => []QueueIsClaimable` | `SlotInv` |
| `JobRecordProofs!NothingForgotten` | `Spec => []NoJobForgotten` | `RecordInv` |
| `JobRecordProofs!EventsAreNew` | `Spec => []EventsNeverCollide` | `RecordInv` |
| `JobLedgerProofs!SystemImplementsLedger` | `Spec => LedgerKept` | `SlotInv`, `RecordInv` |
| `JobLedgerProofs!ToldEndsHold` | `Spec => ToldEndHolds` | `RecordInv`, `ToldInv` |
| `JobLedgerProofs!FirstComeFirstServed` | `Spec => NoOvertaking` | `RecordInv`, `OrderInv` |
| `JobLedgerProofs!StatusFollowsTable` | `Spec => LifecycleFollowed` | `RecordInv`, `FollowInv` |
| `JobLedgerProofs!CancelledStays` | `Spec => CancelledIsNeverSent` | `ToldInv`, `FollowInv` |
| `GenerationRunProofs!RunTypeCorrect` | `Spec => []TypeOK` | inductive as it stands |
| `GenerationRunProofs!EndsAreTrue` | `Spec => []EndIsEngineTruth` | `RunInv` |
| `GenerationRunProofs!StrayWorkIsKnown` | `Spec => []StrayWorkIsUnsure` | `RunInv` |
| `GenerationRunProofs!ImplementsLedger` | `Spec => LedgerKept` | `RunInv`, `LedgerInv` |
| `OperationsProofs!OperationsTypeCorrect` | `Spec => []TypeOK` | inductive as it stands |
| `OperationsProofs!TunnelRecorded` | `Spec => []TunnelIsRecorded` | `TunnelInv` |
| `OperationsProofs!OneTunnelAtATime` | `Spec => []OneTunnel` | `TunnelInv` |
| `OperationsProofs!PassedMeansUp` | `Spec => []PassedMeansRunning` | `StackInv` |
| `OperationsProofs!RollbackComplete` | `Spec => RollbackIsComplete` | `RollbackInv` |
| `RetentionProofs!RetentionTypeCorrect` | `Spec => []TypeOK` | inductive as it stands |
| `RetentionProofs!PendingWithinLimit` | `Spec => []PendingBounded` | `LimitsInv` in `RetentionInv` |
| `RetentionProofs!RateWithinLimits` | `Spec => []RateBounded` | `LimitsInv`, `Clocks` in `RetentionInv` |
| `RetentionProofs!NeededFilesKept` | `Spec => []LiveFilesKept` | `Files`, `PassInv` in `RetentionInv` |
| `RetentionProofs!LeftFilesHaveRows` | `Spec => []FilesHaveRows` | `Files` in `RetentionInv` |
| `RetentionProofs!ReportsAreReal` | `Spec => []MissingIsReal` | `Files` (`Torn`) in `RetentionInv` |
| `WebClientProofs!WebTypeCorrect` | `Spec => []TypeOK` | inductive as it stands |
| `WebClientProofs!StaleIsPolled` | `Spec => []StaleViewIsPolled` | `WebInv` |
| `WebClientProofs!LiveIsShown` | `Spec => []LiveModelIsShown` | `WebInv` |
| `WebClientProofs!ViewStaysCurrent` | `Spec => ViewMovesOn` | `WebInv` |

`AtMostOneSubmission` is not inductive: a state in which a job was sent although its row
counts no attempt would be left by a second reservation. `SubmissionInv` adds that the prompts of
a job never exceed the attempts of its row, that an object in memory never writes back
a count other than its row's, that before its upload is answered nobody touches a
job, and that the holder of the lock sends a prompt only on a reservation of its own.
`DispatcherProofs` holds the lemmas on the queue (what `RemoveFirst` removes and keeps).

`SlotInv` makes `SerialExecution`, `HandleOwnsSlot` and `QueueIsClaimable` inductive together, on top of
`SubmissionInv`: none of them is alone, because giving up the slot is safe only if its owner
has ended, and claiming is safe only if nothing else is in the slot. It says that while the
service is up every job in the slot is the active one, that after a restart it is among those
recovery still has to end, and what the lock's holder may assume at each of its awaits
(`HolderOwnsSlot`, `CancelLeavesSlotAlone`). Three lemmas (`HolderStays`, `HolderReleases`,
`HolderLeavesSlot`) cover the shapes the holder's steps have.

`RecordInv` (in `JobSystem`, on top of `SlotInv`) says how the object, the row and the
dispatcher agree about a job. `NotForgotten`: what has not ended is somewhere, also during
recovery, where "somewhere" is the list of jobs still to handle. `MemoryIsAhead`: an object that
has not ended has at least the row's event number, and the row has its status or is still queued.
`BegunWasReserved`: what is processing, or has a handle, was reserved. `HolderExpects`: what
the lock's holder may rely on at each of its awaits, above all that the number of the event it
is about to write is new. `NoJobForgotten` and `EventsNeverCollide` are parts of it; neither is
inductive, since recovery and cancellation take their numbers from the row while the
service takes its own from memory.

With `RecordInv` every step of `JobSystem` is a step of `JobLedger` or a stutter
(`SystemLedgerStep`). Sixteen kinds of steps at the lock do not touch the record
(`SilentIsNoStep`); a reservation is `Take`, because the slot's only owner is the active job
(`SlotInv`); sending is `Send`, because of `SubmissionInv`; and every write is `Start`,
`Complete`, `Fail` or `Cancel` of a job that had not ended (`WriteIsLedgerStep`).

`ToldInv` adds that memory has no other end than the row, and until the first crash has the end
that a client was told; with it, what a poll or a cancellation says next can differ from what was
said before only after a crash, and only if the row does not have that end (`ToldEndsHold`).
`OrderInv` is why nobody is overtaken. For a job k whose upload was answered before that of j
began, `Precedes(k, j)` follows k through the three orders there are: `queued_at` in the rows,
the list recovery works off, and the queue. While both are queued k is in front; once j is in
recovery's queue, k is no longer in its list; and when j is active, k is not in the queue.
Five lemmas say what the dispatcher's operations do to that order (`OrderKept`, `OrderWhenEmpty`,
`OrderShrinks`, `OrderGrows`, `OrderOnArrival`). `RecordInv` then gives the theorem: a job that
could still be reserved is in the queue or active, unless memory holds it as ended.

`FollowInv` says that until the first exception the row has the status memory has, except while
the lock's holder is writing that very job (`Writing`): every write is then one step of the
table from where the row is. `LifecycleFollowed` and `CancelledIsNeverSent` state their own
exceptions (an exception in a write; after a crash, a client that learnt of the end from a
poll), because with them they are false (F2), and the invariant fails at the same places.

TLC checked `SubmissionInv`, `SlotInv`, `RecordInv`, `ToldInv`, `OrderInv` and `FollowInv` on the
constants of `JobSafety` before they were proved.

`RunInv` (in `GenerationRun`) says that the dispatcher and the durable stages agree, that a
prompt is sent only by the job in the slot, and that the engine holds a prompt in one
place and only until it ends it. The last part is what makes `EndIsEngineTruth` stay true:
a job that has ended at the engine is never run again, so neither its ending nor its
output changes after the service has judged it. `LedgerInv` adds what each exchange of the adapter
may assume of the active job; with both, every step of `Next` is a step of the ledger or a
stutter (`LedgerStep`). TLC checked both on the constants of `EngineTruth` first.

`TunnelInv` (in `QuickTunnel`) is about the behaviours in which no session was broken off
and no two overlapped: one session is under way; until it launches nothing runs, and after that
only its own tunnel; and a stop script knows the tunnel that runs, and keeps new sessions from
starting. `StackInv` (in `ServiceStack`) says that a start script that has come to service i
without a failure has left all services before i running; the stop script does not run
beside it. TLC checked both on the constants of `Operations` first.

`RollbackInv` accounts for every service that is not stopped while the start script is under
way: it ran before or came up without the script (`found`), the script started it (`started`), or
it is the one waited for. What the script gives up on is therefore what it still has to roll back,
or one of the exceptions that `RollbackIsComplete` names.

`RetentionInv` is one invariant for all the properties of `Retention`, because the parts hold each
other. `LimitsInv` counts what `accept_job` counts, by `created_at` (`Recent`), and that
there are finitely many rows, since they are accepted one at a time;
`Clocks` ties `created_at` to the commit and to the age of the directory, which turns the limits
by `created_at` into `RateBounded`, about commits, and protects an upload from the scan: until
its row is committed its directory is younger than the grace period. `Files` says where the image and
the model of each job are, and that a completed job whose model is gone without having been lost
(`Torn`) is expired and still on the pass's list; recovery, which begins only after a pass that
did not fail, thus never meets one. `PassInv` says what stays true of the pass's reads while it is suspended:
the jobs it read stay expired and terminal, and a job accepted since its list of rows has a
directory younger than the grace period. `PublishInv` keeps a job processing between its model and its
completion. TLC checked it on the constants of `Retention`, with two exceptions, first.

`WebInv` adds to two of its properties what is true of the messages on their way. `AnswersBelong`: an
answer is about the job it was asked for. `FetchIsForView`: the model request under way was sent
for the view as it is now, so an answer with a result is the current job's; every change
of the view runs the effect again and drops the request. `StaleViewIsPolled` is inductive with
them, since the only step that ends the polling is the answer that makes the view right, and
the only step that makes it wrong without polling is the late cancellation (`crossed`). A crash breaks
the requests on their way, which leaves them requests about the same job, and changes nothing that is shown. TLC checked it on the
constants of `WebClient` first.

Only model-checked: liveness (`EveryJobEnds`, `EveryJobEndsOrStuck`, `NothingStays`,
`EndIsShown`), since it rests on fairness and so on ENABLED, which is out of the prover's reach; and
the findings, which are counterexamples and need no proof.

## 6. Not modelled

- Pure functions (image validation, workflow mapping, tokens, GLB checks, path parsing, the
  disk check), health probes, logging and configuration: they keep no state that a
  behaviour of the system depends on.
- `SerialDispatcher.position`: a read that is shown as approximate.
- The watchdog and the health chain (they probe, and write a report of their own), the tunnel's
  log files, and a PID that Windows gives to another process.
- The adapter's websocket watch, its cancel and its liveness probe: the job service calls
  none of them while a job runs.
- The mock adapter: its answers are among those the model's engine may give.
- Verification scripts, compatibility matrices, proxy and firewall configuration:
  operator tooling and static configuration.

## 7. Plan

What would come next, in order of what matters most: an abstract specification of the browser's
promise and of the retention's, with `WebClient` and `Retention` shown to implement them, in the way
the two views of the service implement `JobLedger`; the safety half of the liveness arguments
(what must be true of a job that has not ended, so that one more fair step brings it nearer),
as `NoJobForgotten` is for `EveryJobEnds`.
