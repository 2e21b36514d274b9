-------------------------------- MODULE JobsApi --------------------------------
(***************************************************************************)
(* The job endpoints (api/jobs.py) as a browser sees them: what each       *)
(* answers, on the public status of a job.  The service below them runs,   *)
(* ends, writes and expires the job: JobSystem and Retention model that in *)
(* detail, this module only what a client can tell apart.  One thing it    *)
(* can: the service answers from memory, and a restart takes back an end   *)
(* that was not written yet.                                               *)
(***************************************************************************)
EXTENDS Naturals

CONSTANTS
    Jobs,        \* the jobs the browser creates, each with its own token
    NoJob,
    MaxFaults    \* bound: failed requests, lost models and crashes, together

ASSUME ApiAssumption == NoJob \notin Jobs /\ MaxFaults \in Nat

VARIABLES
    status,    \* the public status; none: not created, gone: expired and removed
    hasModel,  \* whether the published model is there
    durable,   \* jobs whose end is known to be written
    faults

apiVars == <<status, hasModel, durable>>

Fault == faults < MaxFaults /\ faults' = faults + 1

Ended == {"completed", "failed", "cancelled"}

Status == {"queued", "running"} \cup Ended

\* A request on its way, or its answer: the job it is about, its token, and, in an
\* answer that is not an error, the job's status and whether it has result URLs.
Message == [kind : {"none", "sent", "job", "error"}, job : Jobs \cup {NoJob},
            token : Jobs \cup {NoJob}, status : Status \cup {"none"}, urls : BOOLEAN]

NoMessage == [kind |-> "none", job |-> NoJob, token |-> NoJob,
              status |-> "none", urls |-> FALSE]

Request(j, token) == [NoMessage EXCEPT !.kind = "sent", !.job = j, !.token = token]

Error(request) == [request EXCEPT !.kind = "error"]

\* Mutant: the service's own name of the state is sent.
PublicJobRaw(request, s, urls) ==
    [request EXCEPT !.kind = "job", !.urls = s = "completed" /\ urls,
                    !.status = IF s = "running" THEN "processing" ELSE s]

\* _public_job: the URLs are there only for a completed job with a model.
PublicJob(request, s, urls) ==
    [request EXCEPT !.kind = "job", !.status = s, !.urls = s = "completed" /\ urls]

\* An unknown job, an expired one and a wrong token are the same 404.
Found(request) ==
    /\ request.job \in Jobs
    /\ request.token = request.job
    /\ status[request.job] \in Status

\* GET /{job_id}
GetJob(request) ==
    IF Found(request)
    THEN PublicJob(request, status[request.job], hasModel[request.job])
    ELSE Error(request)

\* GET /{job_id}/model and /download; 404, or 409 while there is no result.
GetModel(request) ==
    IF Found(request) /\ status[request.job] = "completed" /\ hasModel[request.job]
    THEN PublicJob(request, "completed", TRUE)
    ELSE Error(request)

\* POST /{job_id}/cancel.  A job that waits and is not reserved is cancelled: polls
\* see it at once, and the request is answered if the write commits, else with an
\* error.  A job found cancelled is answered as such, written or not.  Anything else
\* is an error: unknown (404), reserved or over (409).
CancelJob(request, answer) ==
    \/ /\ Found(request)
       /\ status[request.job] = "queued"
       /\ status' = [status EXCEPT ![request.job] = "cancelled"]
       /\ \/ /\ durable' = durable \cup {request.job}
             /\ answer = PublicJob(request, "cancelled", FALSE)
          \/ /\ UNCHANGED durable
             /\ answer = Error(request)
    \/ /\ Found(request)
       /\ status[request.job] = "cancelled"
       /\ answer = PublicJob(request, "cancelled", FALSE)
       /\ UNCHANGED <<status, durable>>
    \/ /\ ~(Found(request) /\ status[request.job] = "cancelled")
       /\ answer = Error(request)
       /\ UNCHANGED <<status, durable>>

\* POST /jobs: 201, with the token.
CreateJob(j) ==
    /\ status[j] = "none"
    /\ status' = [status EXCEPT ![j] = "queued"]
    /\ UNCHANGED <<hasModel, durable>>

-------------------------------------------------------------------------------
(* The service below *)

\* A job is taken to the engine, and seen at work there.
Run(j) ==
    /\ status[j] = "queued"
    /\ status' = [status EXCEPT ![j] = "running"]
    /\ UNCHANGED <<hasModel, durable>>

\* It ends in memory, where polls see it: with its model published, or failed, or
\* interrupted at the engine.  Then it is written, or the write raises, or the
\* process dies before it commits: only a restart shows which.
End(j) ==
    /\ \/ /\ status[j] = "running"
          /\ status' = [status EXCEPT ![j] = "completed"]
          /\ hasModel' = [hasModel EXCEPT ![j] = TRUE]
       \/ /\ status[j] \in {"queued", "running"}
          /\ \E end \in {"failed", "cancelled"} : status' = [status EXCEPT ![j] = end]
          /\ UNCHANGED hasModel
    /\ UNCHANGED durable

IsEnded(j) == status[j] \in Ended

\* The process dies, and recovery reads the database.  What ran has failed, and so
\* has what completed or was reserved without being written; what was not reserved
\* is queued, and that includes a cancellation, or a failed reservation, whose write
\* did not come.  The public status does not tell who was reserved: any of these may.
\* What recovery has read is durable, which no longer matters after the last crash.
Restart ==
    /\ Fault
    /\ \E lost \in SUBSET {j \in Jobs \ durable : IsEnded(j)} :
       LET redone == lost \cup {j \in Jobs : status[j] \in {"queued", "running"}} IN
       \E requeued \in SUBSET {j \in redone : status[j] \notin {"running", "completed"}} :
           status' = [j \in Jobs |-> IF j \in requeued THEN "queued"
                                     ELSE IF j \in redone THEN "failed" ELSE status[j]]
    /\ durable' = IF faults' < MaxFaults THEN {j \in Jobs : IsEnded(j)'} ELSE {}
    /\ UNCHANGED hasModel

\* Its time is over: 404 from now on, and its files go.
Expire(j) ==
    /\ status[j] \in Status
    /\ status' = [status EXCEPT ![j] = "gone"]
    /\ hasModel' = [hasModel EXCEPT ![j] = FALSE]
    /\ UNCHANGED durable

\* An operator or the disk loses the file.
LoseModel(j) ==
    /\ Fault
    /\ hasModel[j]
    /\ hasModel' = [hasModel EXCEPT ![j] = FALSE]
    /\ UNCHANGED <<status, durable>>

===============================================================================
