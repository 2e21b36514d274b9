------------------------------- MODULE WebClient -------------------------------
(***************************************************************************)
(* One browser tab: the page that keeps the last job (app/page.tsx), the   *)
(* form that creates one (generation-form.tsx), the result view            *)
(* (generation-result.tsx) and the polling hook under it                   *)
(* (lib/jobs/use-job-status.ts).  Requests, answers, the timer and the     *)
(* user interleave; a React render and the effects it triggers are one     *)
(* step with the state change that causes them.  The service below moves   *)
(* its jobs at any time, and crashes.                                      *)
(***************************************************************************)
EXTENDS JobsApi

CONSTANTS
    MaxReloads  \* bound: page reloads

ASSUME WebAssumption == MaxReloads \in Nat

VARIABLES
    current,   \* the page's job, whose id and token the result view gets
    stored,    \* sessionStorage: local3d:last-job
    posting,   \* the form's POST
    view,      \* the hook's job: what the user sees of it
    timer,     \* the hook's next poll is scheduled
    polls,     \* each job's poll on its way (an effect has one at a time)
    cancel,    \* the cancellation on its way: the view's `cancelling`
    left,      \* jobs with a cancellation on its way that nobody waits for any more
    fetch,     \* the view's model request
    src,       \* modelSrc: whose model the viewer has, and if its URL is still valid
    alert,     \* the view's error, which only a new cancellation clears
    reloads,
    \* Bookkeeping of the model
    missed,    \* the model request for the view as it is has failed
    crossed,   \* a cancellation was answered after another job had become current
    misled     \* jobs whose end the tab was told, and a crash took back

pageVars == <<current, stored, posting>>
cancelVars == <<cancel, left>>
modelVars == <<fetch, src, missed>>
ghostVars == <<crossed, misled>>
boundVars == <<reloads, faults>>
vars == <<apiVars, pageVars, view, timer, polls, cancelVars, modelVars, alert,
          ghostVars, boundVars>>

View == [job : Jobs \cup {NoJob}, status : Status \cup {"none"}, urls : BOOLEAN]

NoView == [job |-> NoJob, status |-> "none", urls |-> FALSE]

\* What POST answered, and what sessionStorage keeps.
Created(j) == [job |-> j, status |-> "queued", urls |-> FALSE]

Shown(answer) ==
    [job |-> answer.job, status |-> answer.status, urls |-> answer.urls]

NoSource == [job |-> NoJob, live |-> FALSE]

TypeOK ==
    /\ status \in [Jobs -> Status \cup {"none", "gone"}]
    /\ hasModel \in [Jobs -> BOOLEAN]
    /\ durable \subseteq Jobs
    /\ current \in Jobs \cup {NoJob} /\ stored \in Jobs \cup {NoJob}
    /\ posting \in Message
    /\ view \in View
    /\ timer \in BOOLEAN
    /\ polls \in [Jobs -> Message]
    /\ cancel \in Message /\ left \subseteq Jobs
    /\ fetch \in Message
    /\ src \in [job : Jobs \cup {NoJob}, live : BOOLEAN]
    /\ alert \in BOOLEAN /\ missed \in BOOLEAN /\ crossed \in BOOLEAN
    /\ misled \subseteq Jobs
    /\ reloads \in Nat /\ faults \in Nat

NoPolls == [j \in Jobs |-> NoMessage]

Init ==
    /\ status = [j \in Jobs |-> "none"]
    /\ hasModel = [j \in Jobs |-> FALSE]
    /\ durable = {}
    /\ current = NoJob /\ stored = NoJob
    /\ posting = NoMessage
    /\ view = NoView
    /\ timer = FALSE
    /\ polls = NoPolls
    /\ cancel = NoMessage /\ left = {}
    /\ fetch = NoMessage
    /\ src = NoSource
    /\ alert = FALSE /\ missed = FALSE /\ crossed = FALSE
    /\ misled = {}
    /\ reloads = 0 /\ faults = 0

-------------------------------------------------------------------------------
(* The model effect of generation-result.tsx *)

\* Mutant: the clean-up neither deactivates the request nor revokes the URL.
RunModelEffectUnclean(next, token) ==
    IF next = view /\ token = current
    THEN UNCHANGED modelVars
    ELSE /\ fetch' = IF next.status = "completed" /\ next.urls
                     THEN Request(next.job, token) ELSE fetch
         /\ missed' = FALSE
         /\ UNCHANGED src

\* It depends on the shown job, its status and URL, and the current job's token: a
\* change drops the request on its way, revokes the URL, and asks again if there is
\* a result.  modelSrc itself is not cleared.
RunModelEffect(next, token) ==
    IF next = view /\ token = current
    THEN UNCHANGED modelVars
    ELSE /\ fetch' = IF next.status = "completed" /\ next.urls
                     THEN Request(next.job, token) ELSE NoMessage
         /\ src' = [src EXCEPT !.live = FALSE]
         /\ missed' = FALSE

Show(next) ==
    /\ view' = next
    /\ RunModelEffect(next, current)

AnswerModel ==
    /\ fetch.kind = "sent"
    /\ \/ fetch' = GetModel(fetch) /\ UNCHANGED faults
       \/ fetch' = Error(fetch) /\ Fault
    /\ UNCHANGED <<apiVars, pageVars, view, timer, polls, cancelVars, src, missed,
                   alert, ghostVars, reloads>>

DeliverModel ==
    /\ fetch.kind \in {"job", "error"}
    /\ fetch' = NoMessage
    /\ IF fetch.kind = "job"
       THEN src' = [job |-> fetch.job, live |-> TRUE] /\ UNCHANGED <<alert, missed>>
       ELSE alert' = TRUE /\ missed' = TRUE /\ UNCHANGED src
    /\ UNCHANGED <<apiVars, pageVars, view, timer, polls, cancelVars, ghostVars,
                   boundVars>>

-------------------------------------------------------------------------------
(* The form and the page *)

\* The button is disabled while a submission is on its way.
Submit(j) ==
    /\ posting = NoMessage
    /\ status[j] = "none"
    /\ posting' = Request(j, j)
    /\ UNCHANGED <<apiVars, current, stored, view, timer, polls, cancelVars,
                   modelVars, alert, ghostVars, boundVars>>

\* Created, refused with an error status, or lost on either way.
AnswerSubmit ==
    /\ posting.kind = "sent"
    /\ \/ /\ CreateJob(posting.job)
          /\ posting' = PublicJob(posting, "queued", FALSE)
          /\ UNCHANGED faults
       \/ /\ Fault
          /\ posting' = Error(posting)
          /\ CreateJob(posting.job) \/ UNCHANGED apiVars
    /\ UNCHANGED <<current, stored, view, timer, polls, cancelVars, modelVars, alert,
                   ghostVars, reloads>>

\* The hook's effect for job j: the old timer goes, the first poll is sent at once.
StartPolling(j) ==
    /\ timer' = FALSE
    /\ polls' = [polls EXCEPT ![j] = Request(j, j)]

\* handleCreated: the result view is mounted with the new job, or keeps the job it
\* shows, because the hook's state is initialised once, until the first poll answers.
DeliverSubmit ==
    /\ posting.kind \in {"job", "error"}
    /\ posting' = NoMessage
    /\ IF posting.kind = "error"
       THEN UNCHANGED <<current, stored, view, timer, polls, modelVars>>
       ELSE LET j == posting.job
                next == IF view = NoView THEN Created(j) ELSE view IN
            /\ current' = j /\ stored' = j
            /\ view' = next
            /\ RunModelEffect(next, j)
            /\ StartPolling(j)
    /\ UNCHANGED <<apiVars, cancelVars, alert, ghostVars, boundVars>>

\* A cancellation on its way goes on without the tab, if its token is the job's.
Unawaited == {j \in Jobs : cancel = Request(j, j)}

\* The tab forgets everything but sessionStorage, and restores the job from there.
\* What is on its way still reaches the service: an upload makes a job that nobody
\* has the token of, a cancellation may be carried out later.
Reload ==
    /\ reloads < MaxReloads
    /\ reloads' = reloads + 1
    /\ current' = stored
    /\ posting' = NoMessage
    /\ UNCHANGED apiVars \/ (posting.kind = "sent" /\ CreateJob(posting.job))
    /\ view' = IF stored = NoJob THEN NoView ELSE Created(stored)
    /\ timer' = FALSE
    /\ polls' = IF stored = NoJob THEN NoPolls
                ELSE [NoPolls EXCEPT ![stored] = Request(stored, stored)]
    /\ cancel' = NoMessage /\ left' = left \cup Unawaited
    /\ fetch' = NoMessage /\ src' = NoSource /\ missed' = FALSE
    /\ alert' = FALSE /\ crossed' = FALSE /\ misled' = {}
    /\ UNCHANGED <<stored, faults>>

-------------------------------------------------------------------------------
(* Polling: use-job-status.ts *)

FireTimer ==
    /\ timer
    /\ timer' = FALSE
    /\ polls' = [polls EXCEPT ![current] = Request(current, current)]
    /\ UNCHANGED <<apiVars, pageVars, view, cancelVars, modelVars, alert, ghostVars,
                   boundVars>>

\* The server answers; or the request fails, or is aborted after 1.5 s.
AnswerPoll(j) ==
    /\ polls[j].kind = "sent"
    /\ \/ polls' = [polls EXCEPT ![j] = GetJob(@)] /\ UNCHANGED faults
       \/ polls' = [polls EXCEPT ![j] = Error(@)] /\ Fault
    /\ UNCHANGED <<apiVars, pageVars, view, timer, cancelVars, modelVars, alert,
                   ghostVars, reloads>>

Answer(j) ==
    /\ polls[j].kind \in {"job", "error"}
    /\ polls' = [polls EXCEPT ![j] = NoMessage]

\* Mutants: the answer of an effect that was cleaned up is shown all the same; the
\* hook stops as soon as the job is cancelled in the view; an error stops the polling.
DeliverAnyPoll(j) ==
    /\ Answer(j)
    /\ IF polls[j].kind = "error"
       THEN timer' = TRUE /\ UNCHANGED <<view, modelVars>>
       ELSE /\ Show(Shown(polls[j]))
            /\ timer' = (polls[j].status \notin Ended)
    /\ UNCHANGED <<apiVars, pageVars, cancelVars, alert, ghostVars, boundVars>>

DeliverPollUnlessEnded(j) ==
    /\ Answer(j)
    /\ IF j # current \/ polls[j].kind = "error"
       THEN timer' = (timer \/ j = current) /\ UNCHANGED <<view, modelVars>>
       ELSE /\ Show(Shown(polls[j]))
            /\ timer' = (polls[j].status \notin Ended /\ view.status \notin Ended)
    /\ UNCHANGED <<apiVars, pageVars, cancelVars, alert, ghostVars, boundVars>>

DeliverPollOnce(j) ==
    /\ Answer(j)
    /\ IF j # current \/ polls[j].kind = "error"
       THEN UNCHANGED <<view, timer, modelVars>>
       ELSE /\ Show(Shown(polls[j]))
            /\ timer' = (polls[j].status \notin Ended)
    /\ UNCHANGED <<apiVars, pageVars, cancelVars, alert, ghostVars, boundVars>>

\* An answer counts while its effect is active.  An error is shown and polling goes
\* on; the end of the job stops it.
DeliverPoll(j) ==
    /\ Answer(j)
    /\ \/ /\ j # current
          /\ UNCHANGED <<view, timer, modelVars>>
       \/ /\ j = current
          /\ polls[j].kind = "error"
          /\ timer' = TRUE
          /\ UNCHANGED <<view, modelVars>>
       \/ /\ j = current
          /\ polls[j].kind = "job"
          /\ Show(Shown(polls[j]))
          /\ timer' = (polls[j].status \notin Ended)
    /\ UNCHANGED <<apiVars, pageVars, cancelVars, alert, ghostVars, boundVars>>

-------------------------------------------------------------------------------
(* Cancellation and download: generation-result.tsx *)

\* handleCancel: the shown job, with the current job's token.
AskCancel ==
    /\ view.status = "queued"
    /\ cancel = NoMessage
    /\ cancel' = Request(view.job, current)
    /\ alert' = FALSE
    /\ UNCHANGED <<apiVars, pageVars, view, timer, polls, left, modelVars, ghostVars,
                   boundVars>>

\* The service answers; or the answer is lost, and the request may still be carried
\* out.
AnswerCancel ==
    /\ cancel.kind = "sent"
    /\ \/ /\ \E answer \in {PublicJob(cancel, "cancelled", FALSE), Error(cancel)} :
                 CancelJob(cancel, answer) /\ cancel' = answer
          /\ UNCHANGED <<left, faults>>
       \/ /\ Fault
          /\ cancel' = Error(cancel)
          /\ left' \in {left, left \cup Unawaited}
          /\ UNCHANGED <<status, durable>>
    /\ UNCHANGED <<hasModel, pageVars, view, timer, polls, modelVars, alert,
                   ghostVars, reloads>>

\* The service carries out, or refuses, a cancellation that nobody waits for.
AnswerLeft(j) ==
    /\ j \in left
    /\ left' = left \ {j}
    /\ \E answer \in {PublicJob(Request(j, j), "cancelled", FALSE), Error(Request(j, j))} :
           CancelJob(Request(j, j), answer)
    /\ UNCHANGED <<hasModel, pageVars, view, timer, polls, cancel, modelVars,
                   alert, ghostVars, boundVars>>

\* replaceJob, whatever job is current by now.
DeliverCancel ==
    /\ cancel.kind \in {"job", "error"}
    /\ cancel' = NoMessage
    /\ IF cancel.kind = "job"
       THEN Show(Shown(cancel)) /\ UNCHANGED alert
       ELSE alert' = TRUE /\ UNCHANGED <<view, modelVars>>
    /\ crossed' = (crossed \/ (cancel.kind = "job" /\ cancel.job # current))
    /\ UNCHANGED <<apiVars, pageVars, timer, polls, left, misled, boundVars>>

\* handleDownload, as one exchange: a failure is shown.
Download ==
    /\ view.status = "completed"
    /\ view.urls
    /\ GetModel(Request(view.job, current)).kind = "error"
    /\ alert' = TRUE
    /\ UNCHANGED <<apiVars, pageVars, view, timer, polls, cancelVars, modelVars,
                   ghostVars, boundVars>>

-------------------------------------------------------------------------------

(* The service below *)

tabVars == <<pageVars, view, timer, polls, cancelVars, modelVars, alert, ghostVars,
             reloads>>

JobMoves(j) ==
    /\ \/ /\ Run(j) \/ End(j) \/ Expire(j)
          /\ UNCHANGED faults
       \/ LoseModel(j)
    /\ UNCHANGED tabVars

\* An end of j that the tab shows, or has the answer of.
ToldEnd(j) ==
    \/ view.job = j /\ view.status \in Ended
    \/ polls[j].kind = "job" /\ polls[j].status \in Ended
    \/ cancel.kind = "job" /\ cancel.job = j

Broken(request) == IF request.kind = "sent" THEN Error(request) ELSE request

\* The service crashes and comes back: the requests it had in hand fail.
RestartService ==
    /\ Restart
    /\ misled' = misled \cup
           {j \in Jobs : status[j] \in Ended /\ status'[j] # status[j] /\ ToldEnd(j)}
    /\ posting' = Broken(posting)
    /\ polls' = [j \in Jobs |-> Broken(polls[j])]
    /\ cancel' = Broken(cancel) /\ left' = {}
    /\ fetch' = Broken(fetch)
    /\ UNCHANGED <<current, stored, view, timer, src, missed, alert, crossed, reloads>>

-------------------------------------------------------------------------------

Next ==
    \/ \E j \in Jobs : Submit(j) \/ AnswerPoll(j) \/ DeliverPoll(j)
    \/ \E j \in Jobs : AnswerLeft(j) \/ JobMoves(j)
    \/ AnswerSubmit \/ DeliverSubmit \/ Reload \/ RestartService
    \/ FireTimer \/ AnswerModel \/ DeliverModel
    \/ AskCancel \/ AnswerCancel \/ DeliverCancel \/ Download

Spec == Init /\ [][Next]_vars

\* Timers fire, every request is answered or fails, and what comes back is taken in; the
\* user and the service are not obliged to anything.
Fairness ==
    /\ WF_vars(FireTimer)
    /\ \A j \in Jobs : WF_vars(AnswerPoll(j) \/ DeliverPoll(j))
    /\ WF_vars(AnswerModel \/ DeliverModel)
    /\ WF_vars(AnswerCancel \/ DeliverCancel)

FairSpec == Spec /\ Fairness

-------------------------------------------------------------------------------
(* Safety *)

Polling == timer \/ polls[current].kind # "none"

\* Whatever arrives in whatever order, a view that does not show an end of the current
\* job is still being polled: a poll that overtakes a cancellation and puts "queued" back
\* is corrected by the next one.  The exception is a cancellation of an earlier job
\* that is answered after another one was created: it replaces the view for good.
StaleViewIsPolled ==
    current # NoJob =>
        Polling \/ crossed \/ (view.job = current /\ view.status \in Ended)

\* A model whose object URL is valid is the model of the shown job, which is the
\* current one and completed: no late answer puts another job's model into the view.
LiveModelIsShown ==
    src.live =>
        /\ src.job = view.job
        /\ view.job = current
        /\ view.status = "completed" /\ view.urls

\* Once the current job is shown, an earlier one is not shown again by a poll that
\* was on its way.
ViewMovesOn ==
    [][view.job = current /\ current' = current => view'.job = current \/ crossed']_vars

-------------------------------------------------------------------------------
(* Why they hold: the inductive invariant *)

\* What is on its way is about the job it was sent for: an answer that arrives can
\* be late, but it cannot be of another request.
AnswersBelong ==
    /\ \A j \in Jobs : polls[j].kind # "none" => polls[j].job = j
    /\ posting.kind # "none" => posting.job \in Jobs
    /\ cancel.kind = "job" => cancel.status = "cancelled"

\* The model request on its way is for the view as it is, with the current job's
\* token: an answer with a result is therefore the current job's.
FetchIsForView ==
    fetch.kind # "none" =>
        /\ fetch.job = view.job /\ fetch.token = current
        /\ view.status = "completed" /\ view.urls
        /\ fetch.kind = "job" => fetch.token = fetch.job

WebInv == AnswersBelong /\ FetchIsForView /\ LiveModelIsShown /\ StaleViewIsPolled

-------------------------------------------------------------------------------
(* Liveness *)

\* When the current job has ended, the view comes to show that end and keeps it; and
\* its model, unless the only request for it failed, which is shown.  That holds
\* whatever polls, cancellations, timeouts, reloads and crashes were under way.  The
\* exceptions are a late cancellation of another job, and an end that the tab was told
\* before it was written and a crash took back: then the view keeps an end that is not
\* the job's, because an end stops the polling, until the page is reloaded.
EndIsShown ==
    \A j \in Jobs :
        <>[](current = j /\ status[j] \in Ended) =>
            <>[](/\ \/ crossed
                    \/ view.job = j /\ view.status = status[j]
                    \/ view.job = j /\ view.status \in Ended /\ j \in misled
                 /\ view.urls /\ hasModel[j] =>
                        src = [job |-> j, live |-> TRUE] \/ (missed /\ alert))

===============================================================================
