----------------------------- MODULE WebClientProofs -----------------------------
(***************************************************************************)
(* Theorems about WebClient for every set of jobs and any number of        *)
(* reloads, failed requests and crashes of the service: its types; a stale *)
(* view is still being polled (StaleViewIsPolled); the model in the viewer *)
(* is the shown job's (LiveModelIsShown); and an earlier job does not come *)
(* back (ViewMovesOn).  All follow from WebInv.                            *)
(***************************************************************************)
EXTENDS WebClient, TLAPS

-------------------------------------------------------------------------------
(* Messages *)

\* The types of a message's fields.
LEMMA MessageFields ==
    ASSUME NEW m \in Message
    PROVE  /\ m.kind \in {"none", "sent", "job", "error"}
           /\ m.job \in Jobs \cup {NoJob} /\ m.token \in Jobs \cup {NoJob}
           /\ m.status \in Status \cup {"none"} /\ m.urls \in BOOLEAN
BY DEF Message

\* Nothing on its way, and a request that leaves.
LEMMA RequestFields ==
    /\ NoMessage \in Message /\ NoMessage.kind = "none"
    /\ \A j, token \in Jobs \cup {NoJob} :
           /\ Request(j, token) \in Message /\ Request(j, token).kind = "sent"
           /\ Request(j, token).job = j /\ Request(j, token).token = token
<1>1. NoMessage \in Message /\ NoMessage.kind = "none"
    BY DEF NoMessage, Message
<1>2. ASSUME NEW j \in Jobs \cup {NoJob}, NEW token \in Jobs \cup {NoJob}
      PROVE  /\ Request(j, token) \in Message /\ Request(j, token).kind = "sent"
             /\ Request(j, token).job = j /\ Request(j, token).token = token
    <2>1. ASSUME NEW m \in Message, NEW r, r = [m EXCEPT !.kind = "sent", !.job = j, !.token = token]
          PROVE  r \in Message /\ r.kind = "sent" /\ r.job = j /\ r.token = token
        BY <2>1 DEF Message
    <2> QED BY <1>1, <2>1 DEF Request
<1> QED BY <1>1, <1>2

\* An answer without a result is about the job that was asked for.
LEMMA ErrorFields ==
    ASSUME NEW m \in Message
    PROVE  /\ Error(m) \in Message /\ Error(m).kind = "error"
           /\ Error(m).job = m.job /\ Error(m).token = m.token
BY DEF Error, Message

\* So is an answer with a result.
LEMMA PublicJobFields ==
    ASSUME NEW m \in Message, NEW s \in Status, NEW urls \in BOOLEAN
    PROVE  /\ PublicJob(m, s, urls) \in Message /\ PublicJob(m, s, urls).kind = "job"
           /\ PublicJob(m, s, urls).job = m.job /\ PublicJob(m, s, urls).token = m.token
           /\ PublicJob(m, s, urls).status = s
BY DEF PublicJob, Message

\* What an endpoint answers about a job the browser has created.
LEMMA GetJobFields ==
    ASSUME TypeOK, NEW m \in Message, m.job \in Jobs
    PROVE  /\ GetJob(m) \in Message /\ GetJob(m).job = m.job
           /\ GetJob(m).kind \in {"job", "error"}
<1>1. CASE Found(m)
    <2>1. status[m.job] \in Status /\ hasModel[m.job] \in BOOLEAN
        BY <1>1 DEF Found, TypeOK
    <2> QED BY <1>1, <2>1, PublicJobFields DEF GetJob
<1>2. CASE ~Found(m)
    BY <1>2, ErrorFields DEF GetJob
<1> QED BY <1>1, <1>2

\* A model is only answered to the token of its job.
LEMMA GetModelFields ==
    ASSUME NEW m \in Message
    PROVE  /\ GetModel(m) \in Message
           /\ GetModel(m).job = m.job /\ GetModel(m).token = m.token
           /\ GetModel(m).kind \in {"job", "error"}
           /\ GetModel(m).kind = "job" => m.token = m.job
<1>1. CASE Found(m) /\ status[m.job] = "completed" /\ hasModel[m.job]
    <2>1. "completed" \in Status /\ TRUE \in BOOLEAN /\ m.token = m.job
        BY <1>1 DEF Found, Status, Ended
    <2>2. GetModel(m) = PublicJob(m, "completed", TRUE)
        BY <1>1 DEF GetModel
    <2>3. /\ PublicJob(m, "completed", TRUE) \in Message
          /\ PublicJob(m, "completed", TRUE).kind = "job"
          /\ PublicJob(m, "completed", TRUE).job = m.job
          /\ PublicJob(m, "completed", TRUE).token = m.token
        BY <2>1, PublicJobFields
    <2> QED BY <2>1, <2>2, <2>3
<1>2. CASE ~(Found(m) /\ status[m.job] = "completed" /\ hasModel[m.job])
    <2>1. GetModel(m) = Error(m)
        BY <1>2 DEF GetModel
    <2> QED BY <2>1, ErrorFields
<1> QED BY <1>1, <1>2

\* What the view makes of an answer.
LEMMA ShownFields ==
    ASSUME NEW m \in Message
    PROVE  /\ Shown(m) \in View
           /\ Shown(m).job = m.job /\ Shown(m).status = m.status /\ Shown(m).urls = m.urls
BY DEF Shown, View, Message

LEMMA CreatedFields ==
    /\ NoView \in View /\ NoView.job = NoJob /\ NoView.status = "none"
    /\ \A j \in Jobs : Created(j) \in View /\ Created(j).job = j
BY DEF NoView, Created, View, Status

-------------------------------------------------------------------------------
(* The shapes of the steps *)

Source == [job : Jobs \cup {NoJob}, live : BOOLEAN]

\* The model effect asks for the view it has, or for nothing, and revokes what the
\* viewer has when the view or the current job changes.
LEMMA ModelEffect ==
    ASSUME TypeOK, WebInv, NEW next \in View, NEW token \in Jobs \cup {NoJob},
           view' = next, current' = token, RunModelEffect(next, token)
    PROVE  /\ FetchIsForView' /\ LiveModelIsShown'
           /\ fetch' \in Message /\ src' \in Source /\ missed' \in BOOLEAN
<1> USE DEF modelVars
<1>1. CASE next = view /\ token = current
    <2>1. /\ fetch' = fetch /\ src' = src /\ missed' = missed
          /\ view' = view /\ current' = current
        BY <1>1 DEF RunModelEffect
    <2> QED BY <2>1 DEF WebInv, FetchIsForView, LiveModelIsShown, TypeOK, Source
<1>2. CASE ~(next = view /\ token = current)
    <2>1. /\ fetch' = IF next.status = "completed" /\ next.urls
                      THEN Request(next.job, token) ELSE NoMessage
          /\ src' = [src EXCEPT !.live = FALSE] /\ missed' = FALSE
        BY <1>2 DEF RunModelEffect
    <2>2. src' \in Source /\ src'.live = FALSE /\ missed' \in BOOLEAN
        BY <2>1 DEF TypeOK, Source
    <2>3. next.job \in Jobs \cup {NoJob}
        BY DEF View
    <2>4. CASE next.status = "completed" /\ next.urls
        <3>1. /\ fetch' \in Message /\ fetch'.kind = "sent"
              /\ fetch'.job = next.job /\ fetch'.token = token
            BY <2>1, <2>3, <2>4, RequestFields
        <3> QED BY <2>2, <2>4, <3>1 DEF FetchIsForView, LiveModelIsShown
    <2>5. CASE ~(next.status = "completed" /\ next.urls)
        <3>1. fetch' \in Message /\ fetch'.kind = "none"
            BY <2>1, <2>5, RequestFields
        <3> QED BY <2>2, <3>1 DEF FetchIsForView, LiveModelIsShown
    <2> QED BY <2>4, <2>5
<1> QED BY <1>1, <1>2

\* What the service keeps of its jobs.
ApiTypeOK ==
    /\ status \in [Jobs -> Status \cup {"none", "gone"}]
    /\ hasModel \in [Jobs -> BOOLEAN]
    /\ durable \subseteq Jobs

\* A job moves from one status to another, by a request, by itself or in a crash.
LEMMA StatusSteps ==
    ASSUME ApiTypeOK
    PROVE  /\ \A j \in Jobs :
                  CreateJob(j) \/ Run(j) \/ End(j) \/ Expire(j) \/ LoseModel(j) => ApiTypeOK'
           /\ \A request, answer :
                  CancelJob(request, answer) /\ UNCHANGED hasModel => ApiTypeOK'
           /\ Restart => ApiTypeOK'
<1> USE DEF ApiTypeOK, Status, Ended
<1>1. ASSUME NEW j \in Jobs, CreateJob(j) \/ Run(j) \/ Expire(j) \/ LoseModel(j)
      PROVE  ApiTypeOK'
    BY <1>1 DEF CreateJob, Run, Expire, LoseModel
<1>2. ASSUME NEW j \in Jobs, End(j) PROVE ApiTypeOK'
    <2>1. durable' \subseteq Jobs
        BY <1>2 DEF End
    <2>2. status' \in [Jobs -> Status \cup {"none", "gone"}] /\ hasModel' \in [Jobs -> BOOLEAN]
        BY <1>2 DEF End
    <2> QED BY <2>1, <2>2
<1>3. ASSUME NEW request, NEW answer, CancelJob(request, answer),
             UNCHANGED hasModel
      PROVE  ApiTypeOK'
    <2>1. durable' \subseteq Jobs
        BY <1>3 DEF CancelJob, Found
    <2>2. status' \in [Jobs -> Status \cup {"none", "gone"}]
        BY <1>3 DEF CancelJob
    <2> QED BY <1>3, <2>1, <2>2
<1>4. ASSUME Restart PROVE ApiTypeOK'
    <2>1. status' \in [Jobs -> Status \cup {"none", "gone"}]
        BY <1>4 DEF Restart
    <2> QED BY <1>4, <2>1 DEF Restart
<1> QED BY <1>1, <1>2, <1>3, <1>4

\* What the answer of a cancellation can be.
LEMMA CancelAnswers ==
    ASSUME TypeOK
    PROVE  \A answer \in {PublicJob(cancel, "cancelled", FALSE), Error(cancel)} :
               /\ answer \in Message /\ answer.kind \in {"job", "error"}
               /\ answer.kind = "job" => answer.status = "cancelled"
<1>1. cancel \in Message /\ "cancelled" \in Status /\ FALSE \in BOOLEAN
    BY DEF TypeOK, Status, Ended
<1>2. /\ PublicJob(cancel, "cancelled", FALSE) \in Message
      /\ PublicJob(cancel, "cancelled", FALSE).kind = "job"
      /\ PublicJob(cancel, "cancelled", FALSE).status = "cancelled"
    BY <1>1, PublicJobFields
<1>3. Error(cancel) \in Message /\ Error(cancel).kind = "error"
    BY <1>1, ErrorFields
<1> QED BY <1>2, <1>3

-------------------------------------------------------------------------------
(* The invariant *)

\* A step of the client or of the service keeps the types and WebInv.
LEMMA WebStep ==
    ASSUME TypeOK, WebInv, [Next]_vars
    PROVE  TypeOK' /\ WebInv'
<1> USE DEF apiVars, pageVars, cancelVars, modelVars, ghostVars, boundVars, Source
<1>1. ASSUME NEW j \in Jobs, Submit(j) PROVE TypeOK' /\ WebInv'
    <2>1. posting' \in Message /\ posting'.job = j
        BY <1>1, RequestFields DEF Submit
    <2> QED BY <1>1, <2>1
        DEF Submit, TypeOK, WebInv, AnswersBelong, FetchIsForView, LiveModelIsShown,
            StaleViewIsPolled, Polling
<1>2. ASSUME NEW j \in Jobs, AnswerPoll(j) PROVE TypeOK' /\ WebInv'
    <2>1. polls[j] \in Message /\ polls[j].job = j
        BY <1>2 DEF AnswerPoll, TypeOK, WebInv, AnswersBelong
    <2>2. PICK answer : /\ polls' = [polls EXCEPT ![j] = answer]
                        /\ answer \in {GetJob(polls[j]), Error(polls[j])}
                        /\ faults' = faults \/ Fault
        BY <1>2 DEF AnswerPoll, TypeOK
    <2>3. answer \in Message /\ answer.job = j /\ answer.kind \in {"job", "error"}
        BY <2>1, <2>2, GetJobFields, ErrorFields
    <2>4. /\ polls' \in [Jobs -> Message]
          /\ \A k \in Jobs : polls'[k].kind # "none" => polls'[k].job = k
          /\ \A k \in Jobs : polls[k].kind # "none" => polls'[k].kind # "none"
        BY <2>2, <2>3 DEF TypeOK, WebInv, AnswersBelong
    <2>5. faults' \in Nat
        BY <2>2 DEF Fault, TypeOK
    <2>6. TypeOK'
        BY <1>2, <2>4, <2>5 DEF AnswerPoll, TypeOK
    <2>7. AnswersBelong'
        BY <1>2, <2>4 DEF AnswerPoll, WebInv, AnswersBelong
    <2>8. FetchIsForView' /\ LiveModelIsShown'
        BY <1>2 DEF AnswerPoll, WebInv, FetchIsForView, LiveModelIsShown
    <2>9. StaleViewIsPolled'
        <3>1. /\ current' = current /\ timer' = timer /\ crossed' = crossed /\ view' = view
              /\ current \in Jobs \cup {NoJob}
            BY <1>2 DEF AnswerPoll, TypeOK
        <3> QED BY <2>4, <3>1 DEF WebInv, StaleViewIsPolled, Polling
    <2> QED BY <2>6, <2>7, <2>8, <2>9 DEF WebInv
<1>3. ASSUME NEW j \in Jobs, DeliverPoll(j) PROVE TypeOK' /\ WebInv'
    <2>1. polls[j] \in Message /\ polls[j].job = j
        BY <1>3 DEF DeliverPoll, Answer, TypeOK, WebInv, AnswersBelong
    <2>2. polls' = [polls EXCEPT ![j] = NoMessage]
        BY <1>3 DEF DeliverPoll, Answer
    <2>3. /\ polls' \in [Jobs -> Message]
          /\ \A k \in Jobs : polls'[k].kind # "none" => polls'[k].job = k
          /\ \A k \in Jobs : k # j => polls'[k] = polls[k]
        BY <2>2, RequestFields DEF TypeOK, WebInv, AnswersBelong
    <2>4. AnswersBelong'
        BY <1>3, <2>3 DEF DeliverPoll, WebInv, AnswersBelong
    <2>5. /\ current' = current /\ crossed' = crossed
          /\ current \in Jobs \cup {NoJob} /\ view \in View
          /\ fetch \in Message /\ src \in Source
        BY <1>3 DEF DeliverPoll, TypeOK, Source
    <2>6. /\ timer' \in BOOLEAN /\ view' \in View
          /\ fetch' \in Message /\ src' \in Source /\ missed' \in BOOLEAN
          /\ FetchIsForView' /\ LiveModelIsShown'
          /\ current # NoJob =>
                 \/ j # current /\ timer' = timer /\ view' = view
                 \/ timer' = TRUE
                 \/ view'.job = current /\ view'.status \in Ended
        <3>1. CASE j # current /\ UNCHANGED <<view, timer, modelVars>>
            BY <2>5, <3>1 DEF TypeOK, WebInv, FetchIsForView, LiveModelIsShown
        <3>2. CASE /\ j = current /\ polls[j].kind = "error" /\ timer' = TRUE
                   /\ UNCHANGED <<view, modelVars>>
            BY <2>5, <3>2 DEF TypeOK, WebInv, FetchIsForView, LiveModelIsShown
        <3>3. CASE /\ j = current /\ polls[j].kind = "job"
                   /\ Show(Shown(polls[j])) /\ timer' = (polls[j].status \notin Ended)
            <4>1. PICK next \in View : next = Shown(polls[j])
                BY <2>1, ShownFields
            <4>2. next.job = j /\ next.status = polls[j].status
                BY <2>1, <4>1, ShownFields
            <4>3. view' = next /\ RunModelEffect(next, current)
                BY <3>3, <4>1 DEF Show
            <4>4. /\ FetchIsForView' /\ LiveModelIsShown'
                  /\ fetch' \in Message /\ src' \in Source /\ missed' \in BOOLEAN
                BY <2>5, <4>3, ModelEffect
            <4>5. timer' = TRUE \/ (timer' = FALSE /\ polls[j].status \in Ended)
                BY <3>3
            <4> QED BY <3>3, <4>2, <4>3, <4>4, <4>5
        <3> QED BY <1>3, <3>1, <3>2, <3>3 DEF DeliverPoll
    <2>7. TypeOK'
        BY <1>3, <2>3, <2>6 DEF DeliverPoll, TypeOK, Source
    <2>8. StaleViewIsPolled'
        BY <2>3, <2>5, <2>6 DEF WebInv, StaleViewIsPolled, Polling
    <2> QED BY <2>4, <2>6, <2>7, <2>8 DEF WebInv
<1>4. ASSUME NEW j \in Jobs, JobMoves(j) PROVE TypeOK' /\ WebInv'
    <2>1. ApiTypeOK'
        BY <1>4, StatusSteps DEF JobMoves, TypeOK, ApiTypeOK
    <2>2. faults' \in Nat
        <3>1. faults' = faults \/ faults' = faults + 1
            BY <1>4 DEF JobMoves, LoseModel, Fault
        <3>2. faults \in Nat
            BY DEF TypeOK
        <3> QED BY <3>1, <3>2
    <2> QED BY <1>4, <2>1, <2>2
        DEF JobMoves, tabVars, ApiTypeOK, TypeOK, WebInv, AnswersBelong, FetchIsForView,
            LiveModelIsShown, StaleViewIsPolled, Polling
<1>5. ASSUME AnswerSubmit PROVE TypeOK' /\ WebInv'
    <2>1. posting \in Message /\ posting.job \in Jobs
        BY <1>5 DEF AnswerSubmit, TypeOK, WebInv, AnswersBelong
    <2>2. posting' \in {PublicJob(posting, "queued", FALSE), Error(posting)}
        BY <1>5 DEF AnswerSubmit
    <2>3. posting' \in Message /\ posting'.job \in Jobs
        <3>1. "queued" \in Status /\ FALSE \in BOOLEAN
            BY DEF Status
        <3>2. /\ PublicJob(posting, "queued", FALSE) \in Message
              /\ PublicJob(posting, "queued", FALSE).job = posting.job
            BY <2>1, <3>1, PublicJobFields
        <3>3. Error(posting) \in Message /\ Error(posting).job = posting.job
            BY <2>1, ErrorFields
        <3> QED BY <2>1, <2>2, <3>2, <3>3
    <2>4. ApiTypeOK'
        BY <1>5, <2>1, StatusSteps DEF AnswerSubmit, TypeOK, ApiTypeOK
    <2>5. faults' \in Nat
        <3>1. faults' = faults \/ faults' = faults + 1
            BY <1>5 DEF AnswerSubmit, Fault
        <3>2. faults \in Nat
            BY DEF TypeOK
        <3> QED BY <3>1, <3>2
    <2>6. TypeOK'
        BY <1>5, <2>3, <2>4, <2>5 DEF AnswerSubmit, TypeOK, ApiTypeOK
    <2> QED BY <1>5, <2>3, <2>6
        DEF AnswerSubmit, WebInv, AnswersBelong, FetchIsForView, LiveModelIsShown,
            StaleViewIsPolled, Polling
<1>6. ASSUME DeliverSubmit PROVE TypeOK' /\ WebInv'
    <2>1. posting \in Message /\ posting.job \in Jobs
        BY <1>6 DEF DeliverSubmit, TypeOK, WebInv, AnswersBelong
    <2>2. posting' \in Message /\ posting'.kind = "none"
        BY <1>6, RequestFields DEF DeliverSubmit
    <2>3. CASE posting.kind = "error"
        <3>1. UNCHANGED <<current, stored, view, timer, polls, modelVars>>
            BY <1>6, <2>3 DEF DeliverSubmit
        <3>2. TypeOK'
            BY <1>6, <2>2, <3>1 DEF DeliverSubmit, TypeOK
        <3> QED BY <1>6, <2>2, <3>1, <3>2
            DEF DeliverSubmit, WebInv, AnswersBelong, FetchIsForView, LiveModelIsShown,
                StaleViewIsPolled, Polling
    <2>4. CASE posting.kind # "error"
        <3>1. PICK j \in Jobs : j = posting.job
            BY <2>1
        <3>2. PICK next \in View : next = IF view = NoView THEN Created(j) ELSE view
            BY CreatedFields DEF TypeOK
        <3>3. /\ current' = j /\ stored' = j /\ view' = next
              /\ RunModelEffect(next, j) /\ StartPolling(j)
            BY <1>6, <2>4, <3>1, <3>2 DEF DeliverSubmit
        <3>4. /\ FetchIsForView' /\ LiveModelIsShown'
              /\ fetch' \in Message /\ src' \in Source /\ missed' \in BOOLEAN
            BY <3>3, ModelEffect
        <3>5. /\ Request(j, j) \in Message /\ Request(j, j).kind = "sent"
              /\ Request(j, j).job = j
            BY RequestFields
        <3>6. timer' = FALSE /\ polls' = [polls EXCEPT ![j] = Request(j, j)]
            BY <3>3 DEF StartPolling
        <3>7. /\ polls' \in [Jobs -> Message] /\ polls'[j].kind = "sent"
              /\ \A k \in Jobs : polls'[k].kind # "none" => polls'[k].job = k
            BY <3>5, <3>6 DEF TypeOK, WebInv, AnswersBelong
        <3>8. TypeOK'
            BY <1>6, <2>2, <3>3, <3>4, <3>6, <3>7 DEF DeliverSubmit, TypeOK, Source
        <3>9. AnswersBelong'
            BY <1>6, <2>2, <3>7 DEF DeliverSubmit, WebInv, AnswersBelong
        <3>10. StaleViewIsPolled'
            BY <3>3, <3>7 DEF StaleViewIsPolled, Polling
        <3> QED BY <3>4, <3>8, <3>9, <3>10 DEF WebInv
    <2> QED BY <2>3, <2>4
<1>7. ASSUME Reload PROVE TypeOK' /\ WebInv'
    <2>1. /\ posting' = NoMessage /\ cancel' = NoMessage /\ fetch' = NoMessage
          /\ src' = NoSource
        BY <1>7 DEF Reload
    <2>2. src' \in Source /\ src'.live = FALSE
        BY <2>1 DEF NoSource, Source
    <2>3. view' \in View
        BY <1>7, CreatedFields DEF Reload, TypeOK
    <2>4. NoPolls \in [Jobs -> Message] /\ \A k \in Jobs : NoPolls[k].kind = "none"
        BY RequestFields DEF NoPolls
    <2>5. /\ polls' \in [Jobs -> Message]
          /\ \A k \in Jobs : polls'[k].kind # "none" => polls'[k].job = k
          /\ stored # NoJob => polls'[stored].kind # "none"
        <3>1. CASE stored = NoJob
            BY <1>7, <2>4, <3>1 DEF Reload
        <3>2. CASE stored # NoJob
            <4>1. stored \in Jobs
                BY <3>2 DEF TypeOK
            <4>2. /\ Request(stored, stored) \in Message
                  /\ Request(stored, stored).kind = "sent"
                  /\ Request(stored, stored).job = stored
                BY <4>1, RequestFields
            <4>3. polls' = [NoPolls EXCEPT ![stored] = Request(stored, stored)]
                BY <1>7, <3>2 DEF Reload
            <4> QED BY <2>4, <4>1, <4>2, <4>3
        <3> QED BY <3>1, <3>2
    <2>6. TypeOK'
        <3>1. posting' \in Message /\ cancel' \in Message /\ fetch' \in Message
            BY <2>1, RequestFields
        <3>2. /\ timer' = FALSE /\ alert' = FALSE /\ crossed' = FALSE
              /\ current' = stored /\ stored' = stored /\ reloads' = reloads + 1
              /\ missed' = FALSE /\ misled' = {} /\ faults' = faults
              /\ left' = left \cup Unawaited
            BY <1>7 DEF Reload
        <3>3. /\ stored \in Jobs \cup {NoJob} /\ reloads \in Nat /\ faults \in Nat
              /\ left \subseteq Jobs /\ Unawaited \subseteq Jobs
            BY DEF TypeOK, Unawaited
        <3>4. /\ current' \in Jobs \cup {NoJob} /\ stored' \in Jobs \cup {NoJob}
              /\ reloads' \in Nat /\ faults' \in Nat
              /\ left' \subseteq Jobs /\ misled' \subseteq Jobs
            BY <3>2, <3>3
        <3>5. /\ timer' \in BOOLEAN /\ alert' \in BOOLEAN
              /\ crossed' \in BOOLEAN /\ missed' \in BOOLEAN
            BY <3>2
        <3>6. ApiTypeOK'
            <4>1. ApiTypeOK
                BY DEF TypeOK, ApiTypeOK
            <4>2. CASE UNCHANGED apiVars
                BY <4>1, <4>2 DEF ApiTypeOK
            <4>3. CASE posting.kind = "sent" /\ CreateJob(posting.job)
                BY <4>1, <4>3, StatusSteps DEF WebInv, AnswersBelong
            <4> QED BY <1>7, <4>2, <4>3 DEF Reload
        <3> QED BY <2>2, <2>3, <2>5, <3>1, <3>4, <3>5, <3>6 DEF TypeOK, ApiTypeOK
    <2>7. AnswersBelong' /\ FetchIsForView' /\ LiveModelIsShown'
        BY <2>1, <2>2, <2>5, RequestFields
            DEF AnswersBelong, FetchIsForView, LiveModelIsShown
    <2>8. StaleViewIsPolled'
        BY <1>7, <2>5 DEF Reload, StaleViewIsPolled, Polling
    <2> QED BY <2>6, <2>7, <2>8 DEF WebInv
<1>8. ASSUME FireTimer PROVE TypeOK' /\ WebInv'
    <2>1. polls' = [polls EXCEPT ![current] = Request(current, current)]
        BY <1>8 DEF FireTimer
    <2>2. /\ current \in Jobs \cup {NoJob}
          /\ Request(current, current) \in Message
          /\ Request(current, current).kind = "sent"
          /\ Request(current, current).job = current
        BY RequestFields DEF TypeOK
    <2>3. /\ polls' \in [Jobs -> Message]
          /\ \A k \in Jobs : polls'[k].kind # "none" => polls'[k].job = k
          /\ current # NoJob => polls'[current].kind = "sent"
        BY <2>1, <2>2 DEF TypeOK, WebInv, AnswersBelong
    <2>4. TypeOK'
        BY <1>8, <2>3 DEF FireTimer, TypeOK
    <2>5. AnswersBelong' /\ FetchIsForView' /\ LiveModelIsShown'
        BY <1>8, <2>3
            DEF FireTimer, WebInv, AnswersBelong, FetchIsForView, LiveModelIsShown
    <2>6. StaleViewIsPolled'
        BY <1>8, <2>3 DEF FireTimer, StaleViewIsPolled, Polling
    <2> QED BY <2>4, <2>5, <2>6 DEF WebInv
<1>9. ASSUME AnswerModel PROVE TypeOK' /\ WebInv'
    <2>1. fetch \in Message /\ fetch.kind = "sent"
        BY <1>9 DEF AnswerModel, TypeOK
    <2>2. fetch' \in {GetModel(fetch), Error(fetch)}
        BY <1>9 DEF AnswerModel
    <2>3. /\ fetch' \in Message /\ fetch'.job = fetch.job /\ fetch'.token = fetch.token
          /\ fetch'.kind = "job" => fetch'.token = fetch'.job
        BY <2>1, <2>2, GetModelFields, ErrorFields
    <2>4. faults' \in Nat
        BY <1>9 DEF AnswerModel, Fault, TypeOK
    <2>5. TypeOK'
        BY <1>9, <2>3, <2>4 DEF AnswerModel, TypeOK
    <2>6. FetchIsForView'
        BY <1>9, <2>1, <2>3 DEF AnswerModel, WebInv, FetchIsForView
    <2>7. AnswersBelong' /\ LiveModelIsShown' /\ StaleViewIsPolled'
        BY <1>9
            DEF AnswerModel, WebInv, AnswersBelong, LiveModelIsShown, StaleViewIsPolled, Polling
    <2> QED BY <2>5, <2>6, <2>7 DEF WebInv
<1>10. ASSUME DeliverModel PROVE TypeOK' /\ WebInv'
    <2>1. fetch \in Message /\ fetch' \in Message /\ fetch'.kind = "none"
        BY <1>10, RequestFields DEF DeliverModel, TypeOK
    <2>2. CASE fetch.kind = "job"
        <3>1. src' = [job |-> fetch.job, live |-> TRUE] /\ UNCHANGED <<alert, missed>>
            BY <1>10, <2>2 DEF DeliverModel
        <3>2. src' \in Source /\ src'.job = fetch.job
            BY <2>1, <3>1, MessageFields DEF Source
        <3>3. TypeOK'
            BY <1>10, <2>1, <3>1, <3>2 DEF DeliverModel, TypeOK, Source
        <3>4. LiveModelIsShown'
            BY <1>10, <2>2, <3>2 DEF DeliverModel, WebInv, FetchIsForView, LiveModelIsShown
        <3> QED BY <1>10, <2>1, <3>3, <3>4
            DEF DeliverModel, WebInv, AnswersBelong, FetchIsForView, StaleViewIsPolled, Polling
    <2>3. CASE fetch.kind # "job"
        <3>1. src' = src /\ alert' = TRUE /\ missed' = TRUE
            BY <1>10, <2>3 DEF DeliverModel
        <3>2. TypeOK'
            BY <1>10, <2>1, <3>1 DEF DeliverModel, TypeOK
        <3> QED BY <1>10, <2>1, <3>1, <3>2
            DEF DeliverModel, WebInv, AnswersBelong, FetchIsForView, LiveModelIsShown,
                StaleViewIsPolled, Polling
    <2> QED BY <2>2, <2>3
<1>11. ASSUME AskCancel PROVE TypeOK' /\ WebInv'
    <2>1. view.job \in Jobs \cup {NoJob} /\ current \in Jobs \cup {NoJob}
        BY DEF TypeOK, View
    <2>2. cancel' \in Message /\ cancel'.kind = "sent"
        BY <1>11, <2>1, RequestFields DEF AskCancel
    <2>3. TypeOK'
        BY <1>11, <2>2 DEF AskCancel, TypeOK
    <2> QED BY <1>11, <2>2, <2>3
        DEF AskCancel, WebInv, AnswersBelong, FetchIsForView, LiveModelIsShown,
            StaleViewIsPolled, Polling
<1>12. ASSUME AnswerCancel PROVE TypeOK' /\ WebInv'
    <2>1. cancel' \in {PublicJob(cancel, "cancelled", FALSE), Error(cancel)}
        BY <1>12 DEF AnswerCancel
    <2>2. cancel' \in Message /\ (cancel'.kind = "job" => cancel'.status = "cancelled")
        BY <2>1, CancelAnswers
    <2>3. ApiTypeOK' /\ left' \subseteq Jobs
        <3>1. ApiTypeOK /\ left \subseteq Jobs /\ Unawaited \subseteq Jobs
            BY DEF TypeOK, ApiTypeOK, Unawaited
        <3>2. CASE /\ \E answer \in {PublicJob(cancel, "cancelled", FALSE), Error(cancel)} :
                          CancelJob(cancel, answer) /\ cancel' = answer
                   /\ UNCHANGED <<left, faults>>
            BY <1>12, <3>1, <3>2, StatusSteps DEF AnswerCancel
        <3>3. CASE left' \in {left, left \cup Unawaited} /\ UNCHANGED <<status, durable>>
            BY <1>12, <3>1, <3>3 DEF AnswerCancel, ApiTypeOK
        <3> QED BY <1>12, <3>2, <3>3 DEF AnswerCancel
    <2>4. faults' \in Nat
        <3>1. faults' = faults \/ faults' = faults + 1
            BY <1>12 DEF AnswerCancel, Fault
        <3>2. faults \in Nat
            BY DEF TypeOK
        <3> QED BY <3>1, <3>2
    <2>5. TypeOK'
        BY <1>12, <2>2, <2>3, <2>4 DEF AnswerCancel, TypeOK, ApiTypeOK
    <2> QED BY <1>12, <2>2, <2>5
        DEF AnswerCancel, WebInv, AnswersBelong, FetchIsForView, LiveModelIsShown,
            StaleViewIsPolled, Polling
<1>13. ASSUME DeliverCancel PROVE TypeOK' /\ WebInv'
    <2>1. cancel \in Message /\ cancel' \in Message /\ cancel'.kind = "none"
        BY <1>13, RequestFields DEF DeliverCancel, TypeOK
    <2>2. /\ current' = current /\ timer' = timer /\ polls' = polls /\ posting' = posting
          /\ current \in Jobs \cup {NoJob}
        BY <1>13 DEF DeliverCancel, TypeOK
    <2>3. AnswersBelong'
        BY <2>1, <2>2 DEF WebInv, AnswersBelong
    <2>4. crossed' \in BOOLEAN /\ (crossed => crossed')
        BY <1>13 DEF DeliverCancel
    <2>5. CASE cancel.kind = "job"
        <3>1. PICK next \in View : next = Shown(cancel)
            BY <2>1, ShownFields
        <3>2. next.job = cancel.job /\ next.status = "cancelled"
            BY <2>1, <2>5, <3>1, ShownFields DEF WebInv, AnswersBelong
        <3>3. view' = next /\ RunModelEffect(next, current) /\ alert' = alert
            BY <1>13, <2>5, <3>1 DEF DeliverCancel, Show
        <3>4. /\ FetchIsForView' /\ LiveModelIsShown'
              /\ fetch' \in Message /\ src' \in Source /\ missed' \in BOOLEAN
            BY <2>2, <3>3, ModelEffect
        <3>5. TypeOK'
            BY <1>13, <2>1, <2>4, <3>3, <3>4 DEF DeliverCancel, TypeOK, Source
        <3>6. crossed' \/ (view'.job = current /\ view'.status \in Ended)
            BY <1>13, <2>5, <3>2, <3>3 DEF DeliverCancel, Ended
        <3>7. StaleViewIsPolled'
            BY <2>2, <3>6 DEF StaleViewIsPolled
        <3> QED BY <2>3, <3>4, <3>5, <3>7 DEF WebInv
    <2>6. CASE cancel.kind # "job"
        <3>1. alert' = TRUE /\ UNCHANGED <<view, modelVars>>
            BY <1>13, <2>6 DEF DeliverCancel
        <3>2. TypeOK'
            BY <1>13, <2>1, <2>4, <3>1 DEF DeliverCancel, TypeOK
        <3>3. FetchIsForView' /\ LiveModelIsShown'
            BY <2>2, <3>1 DEF WebInv, FetchIsForView, LiveModelIsShown
        <3>4. StaleViewIsPolled'
            BY <2>2, <2>4, <3>1 DEF WebInv, StaleViewIsPolled, Polling
        <3> QED BY <2>3, <3>2, <3>3, <3>4 DEF WebInv
    <2> QED BY <2>5, <2>6
<1>14. ASSUME Download PROVE TypeOK' /\ WebInv'
    <2>1. TypeOK'
        BY <1>14 DEF Download, TypeOK
    <2> QED BY <1>14, <2>1
        DEF Download, WebInv, AnswersBelong, FetchIsForView, LiveModelIsShown,
            StaleViewIsPolled, Polling
<1>15. ASSUME NEW j \in Jobs, AnswerLeft(j) PROVE TypeOK' /\ WebInv'
    <2>1. ApiTypeOK' /\ left' \subseteq Jobs
        BY <1>15, StatusSteps DEF AnswerLeft, TypeOK, ApiTypeOK
    <2>2. TypeOK'
        BY <1>15, <2>1 DEF AnswerLeft, TypeOK, ApiTypeOK
    <2> QED BY <1>15, <2>2
        DEF AnswerLeft, WebInv, AnswersBelong, FetchIsForView, LiveModelIsShown,
            StaleViewIsPolled, Polling
<1>16. ASSUME RestartService PROVE TypeOK' /\ WebInv'
    <2>1. ASSUME NEW m \in Message
          PROVE  /\ Broken(m) \in Message
                 /\ Broken(m).kind = "none" <=> m.kind = "none"
                 /\ Broken(m).kind = "job" => Broken(m) = m
                 /\ Broken(m).job = m.job /\ Broken(m).token = m.token
        BY ErrorFields DEF Broken
    <2>2. ApiTypeOK'
        BY <1>16, StatusSteps DEF RestartService, TypeOK, ApiTypeOK
    <2>3. /\ posting' = Broken(posting) /\ cancel' = Broken(cancel) /\ fetch' = Broken(fetch)
          /\ polls' = [j \in Jobs |-> Broken(polls[j])]
          /\ left' = {} /\ misled' \subseteq Jobs
        BY <1>16 DEF RestartService, TypeOK
    <2>4. /\ posting \in Message /\ cancel \in Message /\ fetch \in Message
          /\ polls \in [Jobs -> Message]
        BY DEF TypeOK
    <2>5. /\ UNCHANGED <<current, stored, view, timer, src, missed, alert, crossed, reloads>>
          /\ faults' \in Nat
        BY <1>16 DEF RestartService, Restart, Fault, TypeOK
    <2>6. /\ polls' \in [Jobs -> Message]
          /\ \A k \in Jobs : /\ polls'[k].kind = "none" <=> polls[k].kind = "none"
                             /\ polls'[k].job = polls[k].job
        BY <2>1, <2>3, <2>4
    <2>7. TypeOK'
        <3>1. posting' \in Message /\ cancel' \in Message /\ fetch' \in Message
            BY <2>1, <2>3, <2>4
        <3> QED BY <2>2, <2>3, <2>5, <2>6, <3>1 DEF TypeOK, ApiTypeOK
    <2>8. AnswersBelong'
        BY <2>1, <2>3, <2>4, <2>6 DEF WebInv, AnswersBelong
    <2>9. FetchIsForView' /\ LiveModelIsShown'
        BY <2>1, <2>3, <2>4, <2>5 DEF WebInv, FetchIsForView, LiveModelIsShown
    <2>10. StaleViewIsPolled'
        <3>1. current \in Jobs \cup {NoJob}
            BY DEF TypeOK
        <3> QED BY <2>5, <2>6, <3>1 DEF WebInv, StaleViewIsPolled, Polling
    <2> QED BY <2>7, <2>8, <2>9, <2>10 DEF WebInv
<1>17. CASE UNCHANGED vars
    BY <1>17
        DEF vars, TypeOK, WebInv, AnswersBelong, FetchIsForView, LiveModelIsShown,
            StaleViewIsPolled, Polling
<1> QED
    BY <1>1, <1>2, <1>3, <1>4, <1>5, <1>6, <1>7, <1>8, <1>9, <1>10, <1>11, <1>12,
       <1>13, <1>14, <1>15, <1>16, <1>17
    DEF Next

\* Nothing is on its way, and nothing is shown, in a new tab.
LEMMA WebInit == Init => TypeOK /\ WebInv
<1> SUFFICES ASSUME Init PROVE TypeOK /\ WebInv
    OBVIOUS
<1>1. src \in Source /\ src.live = FALSE /\ view \in View
    BY CreatedFields DEF Init, NoSource, Source
<1>2. /\ NoPolls \in [Jobs -> Message]
      /\ \A k \in Jobs : NoPolls[k].kind = "none"
    BY RequestFields DEF NoPolls
<1>3. TypeOK
    BY <1>1, <1>2, RequestFields DEF Init, TypeOK, Source
<1>4. WebInv
    BY <1>1, <1>2, RequestFields
        DEF Init, WebInv, AnswersBelong, FetchIsForView, LiveModelIsShown, StaleViewIsPolled
<1> QED BY <1>3, <1>4

-------------------------------------------------------------------------------
(* The theorems *)

\* WebInv, with the types, is inductive.
THEOREM WebAlways == Spec => [](TypeOK /\ WebInv)
<1>1. (TypeOK /\ WebInv) /\ [Next]_vars => (TypeOK /\ WebInv)'
    BY WebStep
<1> QED BY <1>1, WebInit, PTL DEF Spec

\* TypeOK.
THEOREM WebTypeCorrect == Spec => []TypeOK
BY WebAlways, PTL

\* StaleViewIsPolled: whatever overtakes what, a view that is not the end of the
\* current job is corrected, because its poll or its timer is still there.
THEOREM StaleIsPolled == Spec => []StaleViewIsPolled
<1>1. WebInv => StaleViewIsPolled
    BY DEF WebInv
<1> QED BY <1>1, WebAlways, PTL

\* LiveModelIsShown: the viewer never has the model of another job than the one shown.
THEOREM LiveIsShown == Spec => []LiveModelIsShown
<1>1. WebInv => LiveModelIsShown
    BY DEF WebInv
<1> QED BY <1>1, WebAlways, PTL

\* ViewMovesOn: a poll of an earlier job that is still on its way, or a model that
\* arrives late, does not bring that job back into the view.
THEOREM ViewStaysCurrent == Spec => ViewMovesOn
<1>1. TypeOK /\ WebInv /\ [Next]_vars =>
          [view.job = current /\ current' = current => view'.job = current \/ crossed']_vars
    <2> SUFFICES ASSUME TypeOK, WebInv, Next, view.job = current, current' = current
                 PROVE  view'.job = current \/ crossed'
        OBVIOUS
    <2>1. ASSUME NEW j \in Jobs, DeliverPoll(j) PROVE view'.job = current
        <3>1. polls[j] \in Message /\ polls[j].job = j
            BY <2>1 DEF DeliverPoll, Answer, TypeOK, WebInv, AnswersBelong
        <3>2. view' = view \/ (j = current /\ view' = Shown(polls[j]))
            BY <2>1 DEF DeliverPoll, Show
        <3> QED BY <3>1, <3>2, ShownFields
    <2>2. ASSUME DeliverSubmit PROVE view'.job = current
        <3>1. CASE posting.kind = "error"
            BY <2>2, <3>1 DEF DeliverSubmit
        <3>2. CASE posting.kind # "error"
            <4>1. posting.job \in Jobs
                BY <2>2 DEF DeliverSubmit, WebInv, AnswersBelong
            <4>2. /\ current' = posting.job
                  /\ view' = IF view = NoView THEN Created(posting.job) ELSE view
                BY <2>2, <3>2 DEF DeliverSubmit
            <4>3. view # NoView
                BY <4>1, <4>2, CreatedFields, ApiAssumption
            <4> QED BY <4>2, <4>3
        <3> QED BY <3>1, <3>2
    <2>3. ASSUME Reload PROVE view'.job = current
        <3>1. current' = stored /\ stored \in Jobs \cup {NoJob}
            BY <2>3 DEF Reload, TypeOK
        <3>2. view' = IF stored = NoJob THEN NoView ELSE Created(stored)
            BY <2>3 DEF Reload
        <3> QED BY <3>1, <3>2, CreatedFields
    <2>4. ASSUME DeliverCancel PROVE view'.job = current \/ crossed'
        <3>1. cancel \in Message
            BY DEF TypeOK
        <3>2. \/ view' = view
              \/ cancel.kind = "job" /\ view' = Shown(cancel)
            BY <2>4 DEF DeliverCancel, Show
        <3>3. cancel.kind = "job" /\ cancel.job # current => crossed'
            BY <2>4 DEF DeliverCancel
        <3> QED BY <3>1, <3>2, <3>3, ShownFields
    <2>5. CASE view' = view
        BY <2>5
    <2>6. \/ view' = view \/ \E j \in Jobs : DeliverPoll(j)
          \/ DeliverSubmit \/ Reload \/ DeliverCancel
        BY DEF Next, Submit, AnswerPoll, AnswerLeft, JobMoves, tabVars, AnswerSubmit,
               RestartService, FireTimer, AnswerModel, DeliverModel, AskCancel,
               AnswerCancel, Download
    <2> QED BY <2>1, <2>2, <2>3, <2>4, <2>5, <2>6
<1> QED BY <1>1, WebAlways, PTL DEF Spec, ViewMovesOn

===============================================================================
