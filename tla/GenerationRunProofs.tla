--------------------------- MODULE GenerationRunProofs ---------------------------
(***************************************************************************)
(* Theorems about GenerationRun for every set of jobs: what the service    *)
(* says of a job's end is what the engine did, and work that is left with  *)
(* the engine belongs to the active job or to one given up as unsure.      *)
(* Both are parts of RunInv, which is inductive.                           *)
(***************************************************************************)
EXTENDS GenerationRun, DispatcherProofs

-------------------------------------------------------------------------------
(* Types *)

\* What a call is reset to.
LEMMA FreshCall == "none" \in Call /\ 0 \in 0 .. StatusPollRetries /\ FALSE \in BOOLEAN
BY DEF Call, StatusPollRetries

\* A job that joins the queue.
LEMMA EnqueueTypes ==
    ASSUME DispatcherTypeOK, NEW j \in Jobs, Enqueue(j)
    PROVE  DispatcherTypeOK'
BY GrownSet DEF DispatcherTypeOK, Enqueue

\* A job that ends.
LEMMA EndTypes ==
    ASSUME TypeOK, NEW j \in Jobs, NEW status \in Stage, NEW code \in Reason,
           End(j, status, code)
    PROVE  /\ stage' \in [Jobs -> Stage] /\ reason' \in [Jobs -> Reason]
           /\ handles' \subseteq Jobs /\ saved' \subseteq Jobs /\ reported' \subseteq Jobs
           /\ over' \in BOOLEAN
           /\ DispatcherTypeOK'
BY DEF TypeOK, AdapterTypeOK, DispatcherTypeOK, End, Complete

\* A call of the adapter that returns, with whatever it observed.
LEMMA ObservedTypes ==
    ASSUME TypeOK, NEW j \in Jobs, NEW observed, NEW code \in Reason,
           Observed(j, observed, code)
    PROVE  TypeOK'
<1>1. /\ call' = "none" /\ first' = FALSE /\ tries' = 0
      /\ UNCHANGED engineVars
    BY DEF Observed
<1>2. EngineTypeOK'
    BY <1>1 DEF TypeOK, EngineTypeOK, engineVars
<1>3. /\ stage' \in [Jobs -> Stage] /\ reason' \in [Jobs -> Reason]
      /\ handles' \subseteq Jobs /\ saved' \subseteq Jobs /\ reported' \subseteq Jobs
      /\ over' \in BOOLEAN
      /\ DispatcherTypeOK'
    <2>1. CASE UNCHANGED <<dispatcherVars, serviceVars, over>>
        BY <2>1 DEF TypeOK, AdapterTypeOK, DispatcherTypeOK, dispatcherVars, serviceVars
    <2>2. CASE /\ stage' = [stage EXCEPT ![j] = "processing"]
               /\ UNCHANGED <<dispatcherVars, reason, handles, saved, reported, over>>
        BY <2>2 DEF TypeOK, AdapterTypeOK, DispatcherTypeOK, dispatcherVars, Stage
    <2>3. CASE \E status \in Ended, c \in Reason : End(j, status, c)
        BY <2>3, EndTypes DEF Stage
    <2>4. {"none", "invalid_result", "generation_cancelled"} \subseteq Reason
        BY DEF Reason
    <2> QED BY <2>1, <2>2, <2>3, <2>4 DEF Observed, Decided, Ended
<1>4. AdapterTypeOK'
    BY <1>1, <1>3, FreshCall DEF AdapterTypeOK
<1> QED BY <1>2, <1>3, <1>4 DEF TypeOK

\* A step of the engine alone.
LEMMA EngineTypes ==
    ASSUME TypeOK, Engine
    PROVE  TypeOK'
<1>1. DispatcherTypeOK' /\ AdapterTypeOK'
    BY DEF Engine, adapterVars, dispatcherVars, serviceVars, callVars, TypeOK,
           DispatcherTypeOK, AdapterTypeOK
<1>2. EngineTypeOK
    BY DEF TypeOK
<1>3. EngineNext
    BY DEF Engine
<1>4. ASSUME NEW j \in Jobs, EngineReceive(j) PROVE EngineTypeOK'
    BY <1>2, <1>4, GrownSet DEF EngineReceive, EngineTypeOK
<1>5. ASSUME NEW j \in Jobs, EngineRefuse(j) PROVE EngineTypeOK'
    BY <1>2, <1>5 DEF EngineRefuse, EngineTypeOK
<1>6. ASSUME EngineStart PROVE EngineTypeOK'
    <2>1. pending \in Seq(Jobs) /\ pending # <<>>
        BY <1>2, <1>6 DEF EngineTypeOK, EngineStart
    <2>2. Head(pending) \in Jobs /\ Tail(pending) \in Seq(Jobs)
        BY <2>1, HeadTailProperties
    <2> QED BY <1>2, <1>6, <2>2 DEF EngineStart, EngineTypeOK
<1>7. ASSUME NEW j \in Jobs, EngineWrite(j) PROVE EngineTypeOK'
    BY <1>2, <1>7 DEF EngineWrite, EngineTypeOK
<1>8. ASSUME NEW j \in Jobs, EngineEnd(j) PROVE EngineTypeOK'
    BY <1>2, <1>8, EndingAssumption DEF EngineEnd, EngineTypeOK
<1>9. ASSUME EngineRestart PROVE EngineTypeOK'
    BY <1>2, <1>9 DEF EngineRestart, EngineTypeOK
<1>10. EngineTypeOK'
    BY <1>3, <1>4, <1>5, <1>6, <1>7, <1>8, <1>9 DEF EngineNext
<1> QED BY <1>1, <1>10 DEF TypeOK

\* A read of the engine's state returns an observation the service knows.
LEMMA ReadCases ==
    ASSUME TypeOK, NEW j \in Jobs, Read(j)
    PROVE  \/ ReadNoEnding(j) \/ ReadTimesOut(j)
           \/ \E observed \in {"queued", "processing"} : Observed(j, observed, "none")
           \/ /\ j \in history /\ ended[j] = "success"
              /\ Observed(j, "succeeded", "none")
           \/ /\ j \in history /\ ended[j] = "error"
              /\ Observed(j, "failed", "generation_failed")
           \/ /\ j \in history /\ ended[j] = "interrupted"
              /\ Observed(j, "cancelled", "none")
           \/ \E code \in Unsure : Observed(j, "unknown", code)
<1>1. {"generation_timeout", "engine_unavailable"} \subseteq Unsure
    BY DEF Unsure
<1>2. ASSUME NEW observed \in {"queued", "processing"}, Unfinished(j, observed)
      PROVE  \/ Observed(j, observed, "none")
             \/ \E code \in Unsure : Observed(j, "unknown", code)
    BY <1>1, <1>2, Zenon DEF Unfinished
<1>3. CASE ReadEnding(j)
    BY <1>2, <1>3, Zenon DEF ReadEnding
<1>4. CASE ReadQueue(j)
    BY <1>1, <1>2, <1>4, Zenon DEF ReadQueue
<1>5. CASE ReadFails(j)
    BY <1>1, <1>5, Zenon DEF ReadFails
<1> QED BY <1>3, <1>4, <1>5 DEF Read

\* Every step keeps the types.
LEMMA StepTypes ==
    ASSUME TypeOK, [Next]_vars
    PROVE  TypeOK'
<1> USE DEF TypeOK, DispatcherTypeOK, EngineTypeOK, AdapterTypeOK
<1>1. CASE UNCHANGED vars
    BY <1>1 DEF vars, adapterVars, dispatcherVars, serviceVars, callVars, engineVars
<1>2. ASSUME NEW j \in Jobs, Accept(j) PROVE TypeOK'
    <2>1. DispatcherTypeOK'
        BY <1>2, EnqueueTypes DEF Accept
    <2> QED BY <1>2, <2>1 DEF Accept, callVars, engineVars, Stage
<1>3. ASSUME NEW j \in Jobs, Claim(j) PROVE TypeOK'
    <2>1. queue \in Seq(Jobs) /\ queue # <<>>
        BY <1>3 DEF Claim, ClaimNext, NothingToClaim
    <2>2. Tail(queue) \in Seq(Jobs)
        BY <2>1, HeadTailProperties
    <2> QED BY <1>3, <2>2 DEF Claim, ClaimNext, Goto, engineVars, Stage, Call
<1>4. ASSUME NEW j \in Jobs, Submit(j) PROVE TypeOK'
    <2>1. CASE UploadImage(j)
        BY <2>1 DEF UploadImage, Goto, dispatcherVars, serviceVars, engineVars, Call
    <2>2. CASE PostPrompt(j)
        BY <2>2 DEF PostPrompt, Goto, dispatcherVars, serviceVars, Call
    <2>3. CASE PromptAnswered(j)
        BY <2>3 DEF PromptAnswered, Goto, dispatcherVars, serviceVars, engineVars, Call
    <2>4. CASE SubmitFails(j)
        <3>1. End(j, "failed", "engine_unavailable") /\ call' = "none"
              /\ UNCHANGED <<first, tries, engineVars>>
            BY <2>4 DEF SubmitFails
        <3>2. "failed" \in Stage /\ "engine_unavailable" \in Reason
            BY DEF Stage, Ended, Reason, Unsure
        <3> QED BY <3>1, <3>2, EndTypes DEF engineVars, Call
    <2>5. CASE SaveHandle(j)
        BY <2>5 DEF SaveHandle, Inspect, dispatcherVars, engineVars, Call, StatusPollRetries
    <2> QED BY <1>4, <2>1, <2>2, <2>3, <2>4, <2>5 DEF Submit
<1>5. ASSUME NEW j \in Jobs, InspectAgain(j) PROVE TypeOK'
    <2>1. "history" \in Call
        BY DEF Call
    <2> QED BY <1>5, <2>1, FreshCall
        DEF InspectAgain, Inspect, dispatcherVars, serviceVars, engineVars
<1>6. ASSUME NEW j \in Jobs, Read(j) PROVE TypeOK'
    <2>1. CASE ReadNoEnding(j)
        BY <2>1 DEF ReadNoEnding, dispatcherVars, serviceVars, engineVars, Call, StatusPollRetries
    <2>2. CASE ReadTimesOut(j)
        BY <2>2 DEF ReadTimesOut, dispatcherVars, serviceVars, engineVars, StatusPollRetries
    <2>3. CASE \E observed, code \in {"none", "generation_failed"} \cup Unsure
                   \cup {"queued", "processing", "succeeded", "failed", "cancelled", "unknown"} :
                   code \in Reason /\ Observed(j, observed, code)
        BY <2>3, ObservedTypes
    <2>4. Unsure \cup {"none", "generation_failed"} \subseteq Reason
        BY DEF Reason
    <2> QED BY <1>6, <2>1, <2>2, <2>3, <2>4, ReadCases
<1>7. CASE TimeoutPasses
    BY <1>7 DEF TimeoutPasses, dispatcherVars, serviceVars, engineVars
<1>8. CASE Restart
    <2>1. "failed" \in Stage /\ "restart_recovery" \in Reason
        BY DEF Stage, Ended, Reason, Unsure
    <2> QED BY <1>8, <2>1, FreshCall DEF Restart, engineVars
<1>9. CASE Engine
    BY <1>9, EngineTypes
<1> QED BY <1>1, <1>2, <1>3, <1>4, <1>5, <1>6, <1>7, <1>8, <1>9 DEF Next

\* Every variable keeps its type, whatever the engine, the network and the
\* restarts of either side do.
THEOREM RunTypeCorrect == Spec => []TypeOK
<1>1. Init => TypeOK
    <2>1. <<>> \in Seq(Jobs)
        BY EmptySeq
    <2>2. SUFFICES ASSUME Init PROVE TypeOK
        OBVIOUS
    <2>3. DispatcherTypeOK
        BY <2>1, <2>2 DEF Init, AdapterInit, DispatcherInit, DispatcherTypeOK
    <2>4. EngineTypeOK
        BY <2>1, <2>2 DEF Init, EngineInit, EngineTypeOK, Output
    <2>5. AdapterTypeOK
        BY <2>2, FreshCall DEF Init, AdapterInit, AdapterTypeOK, Stage, Reason
    <2> QED BY <2>3, <2>4, <2>5 DEF TypeOK
<1>2. TypeOK /\ [Next]_vars => TypeOK'
    BY StepTypes
<1> QED BY <1>1, <1>2, PTL DEF Spec

-------------------------------------------------------------------------------
(* The end of a job is the engine's truth *)

\* What an engine that has ended a prompt still has of it: nothing.
LEMMA EndedIsGone ==
    ASSUME TypeOK, RunInv, NEW j \in Jobs, ended[j] # "none"
    PROVE  ~AtEngine(j)
<1>1. wire[j] = "taken" /\ j \notin ToSet(pending)
    BY DEF RunInv
<1>2. j # running
    BY NoJobAssumption DEF RunInv
<1> QED BY <1>1, <1>2 DEF AtEngine

\* The active job ends, with a reason that fits what the engine did.
LEMMA EndStep ==
    ASSUME TypeOK, RunInv, NEW j \in Jobs, NEW status \in Ended, NEW code,
           End(j, status, code), call' = "none", UNCHANGED engineVars,
           status = "completed" => ended[j] = "success" /\ output[j] = "valid",
           status = "cancelled" => ended[j] = "interrupted",
           code = "generation_failed" => ended[j] = "error",
           code = "invalid_result" => ended[j] = "success" /\ output[j] # "valid",
           AtEngine(j) => status = "failed" /\ code \in Unsure
    PROVE  RunInv'
<1>1. /\ active = j /\ active' = NoJob /\ queue' = queue
      /\ stage'[j] = status /\ reason'[j] = code
      /\ \A k \in Jobs \ {j} : stage'[k] = stage[k] /\ reason'[k] = reason[k]
    BY DEF End, Complete, TypeOK, AdapterTypeOK
<1>2. /\ wire' = wire /\ pending' = pending /\ running' = running
      /\ ended' = ended /\ history' = history /\ output' = output
    BY DEF engineVars
<1>3. stage[j] \in {"reserved", "processing"} /\ NoJob # j
    BY <1>1, NoJobAssumption DEF RunInv
<1>4. \A k \in ToSet(queue) : k \in Jobs \ {j}
    BY <1>3 DEF RunInv, TypeOK, DispatcherTypeOK, ToSet
<1>5. EndIsEngineTruth'
    BY <1>1, <1>2 DEF RunInv, EndIsEngineTruth
<1>6. \A k \in Jobs : AtEngine(k)' <=> AtEngine(k)
    BY <1>2 DEF AtEngine
<1>7. StrayWorkIsUnsure'
    BY <1>1, <1>6 DEF RunInv, StrayWorkIsUnsure
<1> QED BY <1>1, <1>2, <1>3, <1>4, <1>5, <1>7 DEF RunInv, Ended

\* Nothing but the call changes, and no submission begins.
LEMMA CallStep ==
    ASSUME RunInv, call' \in {"upload", "post"} => call \in {"upload", "post"},
           UNCHANGED queue, UNCHANGED active, UNCHANGED stage, UNCHANGED reason,
           UNCHANGED engineVars
    PROVE  RunInv'
BY DEF RunInv, EndIsEngineTruth, StrayWorkIsUnsure, AtEngine, engineVars

\* The active job is seen processing.
LEMMA ProcessingStep ==
    ASSUME TypeOK, RunInv, NEW j \in Jobs, active = j, call' = "none",
           stage' = [stage EXCEPT ![j] = "processing"],
           UNCHANGED <<queue, active, reason, engineVars>>
    PROVE  RunInv'
<1>1. /\ stage'[j] = "processing"
      /\ \A k \in Jobs \ {j} : stage'[k] = stage[k]
    BY DEF TypeOK, AdapterTypeOK
<1>2. /\ wire' = wire /\ pending' = pending /\ running' = running
      /\ ended' = ended /\ history' = history /\ output' = output
    BY DEF engineVars
<1>3. \A k \in ToSet(queue) : k \in Jobs \ {j}
    BY NoJobAssumption DEF RunInv, TypeOK, DispatcherTypeOK, ToSet
<1>4. EndIsEngineTruth'
    BY <1>1, <1>2 DEF RunInv, EndIsEngineTruth
<1>5. StrayWorkIsUnsure'
    BY <1>1, <1>2 DEF RunInv, StrayWorkIsUnsure, AtEngine
<1> QED BY <1>1, <1>2, <1>3, <1>4, <1>5 DEF RunInv

\* A call returns with an observation that fits what the engine did.
LEMMA ObservedStep ==
    ASSUME TypeOK, RunInv, NEW j \in Jobs, active = j, NEW observed, NEW code,
           Observed(j, observed, code),
           observed = "succeeded" => ended[j] = "success",
           observed = "cancelled" => ended[j] = "interrupted",
           observed = "failed" => ended[j] = "error" /\ code = "generation_failed",
           observed = "unknown" => code \in Unsure,
           observed \in {"queued", "processing", "succeeded", "failed", "cancelled", "unknown"}
    PROVE  RunInv'
<1>1. call' = "none" /\ UNCHANGED engineVars
    BY DEF Observed
<1>2. CASE UNCHANGED <<dispatcherVars, serviceVars, over>>
    BY <1>1, <1>2, CallStep DEF dispatcherVars, serviceVars
<1>3. CASE Decided(j, observed, code)
    <2>1. CASE observed = "queued"
        BY <1>1, <1>2, <1>3, <2>1 DEF Decided, Decide
    <2>2. CASE observed = "processing"
        BY <1>1, <1>3, <2>2, ProcessingStep DEF Decided, Decide, dispatcherVars
    <2>3. CASE observed = "succeeded"
        <3>1. ended[j] = "success" /\ ~AtEngine(j)
            BY <2>3, EndedIsGone
        <3>2. \/ output[j] = "valid" /\ End(j, "completed", "none")
              \/ output[j] # "valid" /\ End(j, "failed", "invalid_result")
            BY <1>3, <2>3 DEF Decided, Decide, Publishable
        <3> QED BY <1>1, <3>1, <3>2, EndStep DEF Ended
    <2>4. CASE observed = "cancelled"
        <3>1. ended[j] = "interrupted" /\ ~AtEngine(j)
            BY <2>4, EndedIsGone
        <3>2. End(j, "cancelled", "generation_cancelled")
            BY <1>3, <2>4 DEF Decided, Decide
        <3> QED BY <1>1, <3>1, <3>2, EndStep DEF Ended
    <2>5. CASE observed = "failed"
        <3>1. ended[j] = "error" /\ ~AtEngine(j)
            BY <2>5, EndedIsGone
        <3>2. End(j, "failed", "generation_failed")
            BY <1>3, <2>5 DEF Decided, Decide
        <3> QED BY <1>1, <3>1, <3>2, EndStep DEF Ended
    <2>6. CASE observed = "unknown"
        <3>1. End(j, "failed", code) /\ code \in Unsure
            BY <1>3, <2>6 DEF Decided, Decide
        <3> QED BY <1>1, <3>1, EndStep DEF Ended, Unsure
    <2> QED BY <2>1, <2>2, <2>3, <2>4, <2>5, <2>6
<1> QED BY <1>2, <1>3 DEF Observed

\* A step of the engine alone.
LEMMA EngineStep ==
    ASSUME TypeOK, RunInv, Engine
    PROVE  RunInv'
<1>1. UNCHANGED <<queue, active, stage, reason, call>>
    BY DEF Engine, adapterVars, dispatcherVars, serviceVars, callVars
<1>2. /\ pending \in Seq(Jobs) /\ running \in Jobs \cup {NoJob}
      /\ wire \in [Jobs -> {"none", "sent", "taken", "refused"}]
      /\ ended \in [Jobs -> Ending \cup {"none"}] /\ output \in [Jobs -> Output]
      /\ active \in Jobs \cup {NoJob}
    BY DEF TypeOK, EngineTypeOK, DispatcherTypeOK
<1>3. \A k \in ToSet(pending) : k \in Jobs
    BY <1>2 DEF ToSet
<1> USE NoJobAssumption
<1>4. ASSUME NEW j \in Jobs, EngineReceive(j) PROVE RunInv'
    <2>1. /\ wire[j] = "sent" /\ wire'[j] = "taken" /\ j \notin ToSet(pending) /\ running # j
          /\ \A k \in Jobs \ {j} : wire'[k] = wire[k]
          /\ UNCHANGED <<running, ended, history, output>>
        BY <1>2, <1>4 DEF EngineReceive, RunInv
    <2>2. ToSet(pending') = ToSet(pending) \cup {j} /\ IsInjective(pending')
        BY <1>2, <1>4, <2>1, GrownSet DEF EngineReceive, RunInv
    <2>3. \A k \in Jobs : AtEngine(k)' <=> AtEngine(k)
        BY <2>1, <2>2 DEF AtEngine
    <2>4. EndIsEngineTruth' /\ StrayWorkIsUnsure'
        BY <1>1, <2>1, <2>3 DEF RunInv, EndIsEngineTruth, StrayWorkIsUnsure
    <2> QED BY <1>1, <1>2, <1>3, <2>1, <2>2, <2>4 DEF RunInv
<1>5. ASSUME NEW j \in Jobs, EngineRefuse(j) PROVE RunInv'
    <2>1. /\ wire[j] = "sent" /\ wire'[j] = "refused"
          /\ \A k \in Jobs \ {j} : wire'[k] = wire[k]
          /\ UNCHANGED <<pending, running, ended, history, output>>
        BY <1>2, <1>5 DEF EngineRefuse
    <2>2. \A k \in Jobs : AtEngine(k)' => AtEngine(k)
        BY <2>1 DEF AtEngine
    <2>3. EndIsEngineTruth' /\ StrayWorkIsUnsure'
        BY <1>1, <2>1, <2>2 DEF RunInv, EndIsEngineTruth, StrayWorkIsUnsure
    <2> QED BY <1>1, <1>2, <1>3, <2>1, <2>3 DEF RunInv
<1>6. ASSUME EngineStart PROVE RunInv'
    <2>1. /\ running = NoJob /\ pending # <<>> /\ running' = Head(pending)
          /\ pending' = Tail(pending)
          /\ UNCHANGED <<wire, ended, history, output>>
        BY <1>6 DEF EngineStart
    <2>2. /\ Head(pending) \in ToSet(pending)
          /\ ToSet(pending') = ToSet(pending) \ {Head(pending)} /\ IsInjective(pending')
        BY <1>2, <2>1, ShrunkSet DEF RunInv
    <2>3. \A k \in Jobs : AtEngine(k)' <=> AtEngine(k)
        BY <2>1, <2>2 DEF AtEngine
    <2>4. EndIsEngineTruth' /\ StrayWorkIsUnsure'
        BY <1>1, <2>1, <2>3 DEF RunInv, EndIsEngineTruth, StrayWorkIsUnsure
    <2> QED BY <1>1, <1>2, <1>3, <2>1, <2>2, <2>4 DEF RunInv
<1>7. ASSUME NEW j \in Jobs, EngineWrite(j) PROVE RunInv'
    <2>1. /\ running = j /\ \A k \in Jobs \ {j} : output'[k] = output[k]
          /\ UNCHANGED <<wire, pending, running, ended, history>>
        BY <1>2, <1>7 DEF EngineWrite
    <2>2. ended[j] = "none"
        BY <2>1 DEF RunInv
    <2>3. EndIsEngineTruth'
        BY <1>1, <2>1, <2>2 DEF RunInv, EndIsEngineTruth
    <2>4. StrayWorkIsUnsure'
        BY <1>1, <2>1 DEF RunInv, StrayWorkIsUnsure, AtEngine
    <2> QED BY <1>1, <2>1, <2>3, <2>4 DEF RunInv
<1>8. ASSUME NEW j \in Jobs, EngineEnd(j) PROVE RunInv'
    <2>1. /\ running = j /\ running' = NoJob /\ history' = history \cup {j}
          /\ ended'[j] \in Ending
          /\ \A k \in Jobs \ {j} : ended'[k] = ended[k]
          /\ UNCHANGED <<wire, pending, output>>
        BY <1>2, <1>8, EndingAssumption DEF EngineEnd
    <2>2. ended[j] = "none" /\ wire[j] = "taken" /\ j \notin ToSet(pending) /\ ended'[j] # "none"
        BY <2>1 DEF RunInv, Ending
    <2>3. EndIsEngineTruth'
        BY <1>1, <2>1, <2>2 DEF RunInv, EndIsEngineTruth
    <2>4. \A k \in Jobs : AtEngine(k)' => AtEngine(k)
        BY <2>1 DEF AtEngine
    <2>5. StrayWorkIsUnsure'
        BY <1>1, <2>4 DEF RunInv, StrayWorkIsUnsure
    <2>6. \A k \in ToSet(pending) : k \in Jobs \ {j}
        BY <1>3, <2>2
    <2>7. history \subseteq Jobs
        BY DEF TypeOK, EngineTypeOK
    <2> QED BY <1>1, <2>1, <2>2, <2>3, <2>5, <2>6, <2>7 DEF RunInv
<1>9. ASSUME EngineRestart PROVE RunInv'
    <2>1. /\ pending' = <<>> /\ running' = NoJob /\ history' = {}
          /\ UNCHANGED <<wire, ended, output>>
        BY <1>9 DEF EngineRestart
    <2>2. ToSet(pending') = {} /\ IsInjective(pending')
        BY <2>1 DEF ToSet, IsInjective
    <2>3. \A k \in Jobs : AtEngine(k)' => AtEngine(k)
        BY <2>1, <2>2 DEF AtEngine
    <2>4. EndIsEngineTruth' /\ StrayWorkIsUnsure'
        BY <1>1, <2>1, <2>3 DEF RunInv, EndIsEngineTruth, StrayWorkIsUnsure
    <2> QED BY <1>1, <2>1, <2>2, <2>4 DEF RunInv
<1> QED BY <1>4, <1>5, <1>6, <1>7, <1>8, <1>9 DEF Engine, EngineNext

\* Every step keeps RunInv.
LEMMA RunStep ==
    ASSUME TypeOK, RunInv, [Next]_vars
    PROVE  RunInv'
<1>1. CASE UNCHANGED vars
    BY <1>1, CallStep DEF vars, adapterVars, dispatcherVars, serviceVars, callVars
<1>2. ASSUME NEW j \in Jobs, Accept(j) PROVE RunInv'
    <2>1. /\ stage[j] = "absent" /\ stage'[j] = "waiting"
          /\ \A k \in Jobs \ {j} : stage'[k] = stage[k]
          /\ UNCHANGED <<active, reason, call, wire, pending, running, ended, history, output>>
        BY <1>2 DEF Accept, Enqueue, callVars, engineVars, TypeOK, AdapterTypeOK
    <2>2. j \notin ToSet(queue) /\ j # active
        BY <2>1, NoJobAssumption DEF RunInv
    <2>3. ToSet(queue') = ToSet(queue) \cup {j} /\ IsInjective(queue')
        BY <1>2, <2>2, GrownSet DEF Accept, Enqueue, RunInv, TypeOK, DispatcherTypeOK
    <2>4. \A k \in ToSet(queue) : k \in Jobs
        BY DEF TypeOK, DispatcherTypeOK, ToSet
    <2>5. EndIsEngineTruth'
        BY <2>1 DEF RunInv, EndIsEngineTruth
    <2>6. StrayWorkIsUnsure'
        BY <2>1, <2>2 DEF RunInv, StrayWorkIsUnsure, AtEngine
    <2>7. active \in Jobs \cup {NoJob}
        BY DEF TypeOK, DispatcherTypeOK
    <2> QED BY <2>1, <2>2, <2>3, <2>4, <2>5, <2>6, <2>7 DEF RunInv
<1>3. ASSUME NEW j \in Jobs, Claim(j) PROVE RunInv'
    <2>1. /\ active = NoJob /\ queue # <<>> /\ j = Head(queue) /\ active' = j
          /\ queue' = Tail(queue) /\ stage'[j] = "reserved" /\ call' = "upload"
          /\ \A k \in Jobs \ {j} : stage'[k] = stage[k]
          /\ UNCHANGED <<reason, wire, pending, running, ended, history, output>>
        BY <1>3 DEF Claim, ClaimNext, NothingToClaim, Goto, engineVars, TypeOK, AdapterTypeOK
    <2>2. /\ j \in ToSet(queue) /\ ToSet(queue') = ToSet(queue) \ {j}
          /\ IsInjective(queue')
        BY <2>1, ShrunkSet DEF RunInv, TypeOK, DispatcherTypeOK
    <2>3. stage[j] = "waiting" /\ wire[j] = "none"
        BY <2>2 DEF RunInv
    <2>4. \A k \in ToSet(queue) : k \in Jobs
        BY DEF TypeOK, DispatcherTypeOK, ToSet
    <2>5. EndIsEngineTruth'
        BY <2>1 DEF RunInv, EndIsEngineTruth
    <2>6. StrayWorkIsUnsure'
        BY <2>1, NoJobAssumption DEF RunInv, StrayWorkIsUnsure, AtEngine
    <2> QED BY <2>1, <2>2, <2>3, <2>4, <2>5, <2>6, NoJobAssumption DEF RunInv
<1>4. ASSUME NEW j \in Jobs, Submit(j) PROVE RunInv'
    <2>1. CASE UploadImage(j)
        BY <2>1, CallStep DEF UploadImage, At, Goto, dispatcherVars, serviceVars
    <2>2. CASE PostPrompt(j)
        <3>1. /\ active = j /\ call = "post" /\ wire'[j] = "sent" /\ call' = "answer"
              /\ \A k \in Jobs \ {j} : wire'[k] = wire[k]
              /\ UNCHANGED <<queue, active, stage, reason, pending, running, ended, history, output>>
            BY <2>2 DEF PostPrompt, At, Goto, dispatcherVars, serviceVars, TypeOK, EngineTypeOK
        <3>2. stage[j] \in {"reserved", "processing"} /\ wire[j] = "none"
            BY <3>1, NoJobAssumption DEF RunInv
        <3>3. j \notin ToSet(pending) /\ j # running /\ ended[j] = "none"
            BY <3>2, NoJobAssumption DEF RunInv
        <3>4. EndIsEngineTruth'
            BY <3>1 DEF RunInv, EndIsEngineTruth
        <3>5. StrayWorkIsUnsure'
            BY <3>1 DEF RunInv, StrayWorkIsUnsure, AtEngine
        <3>6. \A k \in ToSet(pending) : k \in Jobs \ {j}
            BY <3>3 DEF TypeOK, EngineTypeOK, ToSet
        <3>7. running \in Jobs \cup {NoJob}
            BY DEF TypeOK, EngineTypeOK
        <3> QED BY <3>1, <3>2, <3>3, <3>4, <3>5, <3>6, <3>7 DEF RunInv
    <2>3. CASE PromptAnswered(j)
        BY <2>3, CallStep DEF PromptAnswered, At, Goto, dispatcherVars, serviceVars
    <2>4. CASE SubmitFails(j)
        <3>1. End(j, "failed", "engine_unavailable") /\ call' = "none" /\ UNCHANGED engineVars
            BY <2>4 DEF SubmitFails
        <3> QED BY <3>1, EndStep DEF Ended, Unsure
    <2>5. CASE SaveHandle(j)
        BY <2>5, CallStep DEF SaveHandle, Inspect, dispatcherVars
    <2> QED BY <1>4, <2>1, <2>2, <2>3, <2>4, <2>5 DEF Submit
<1>5. ASSUME NEW j \in Jobs, InspectAgain(j) PROVE RunInv'
    BY <1>5, CallStep DEF InspectAgain, Inspect, dispatcherVars, serviceVars
<1>6. ASSUME NEW j \in Jobs, Read(j) PROVE RunInv'
    <2>1. active = j /\ call \in {"history", "queue"}
        BY <1>6 DEF Read, ReadEnding, ReadNoEnding, ReadQueue, ReadTimesOut, ReadFails, At
    <2>2. CASE ReadNoEnding(j)
        BY <2>2, CallStep DEF ReadNoEnding, At, dispatcherVars, serviceVars
    <2>3. CASE ReadTimesOut(j)
        BY <2>1, <2>3, CallStep DEF ReadTimesOut, At, dispatcherVars, serviceVars
    <2> QED BY <1>6, <2>1, <2>2, <2>3, ReadCases, ObservedStep
<1>7. CASE TimeoutPasses
    BY <1>7, CallStep DEF TimeoutPasses, dispatcherVars, serviceVars
<1>8. CASE Restart
    <2>1. /\ active' = NoJob /\ queue' = queue /\ call' = "none"
          /\ \A k \in Jobs : stage[k] \in {"reserved", "processing"} =>
                 stage'[k] = "failed" /\ reason'[k] = "restart_recovery"
          /\ \A k \in Jobs : stage[k] \notin {"reserved", "processing"} =>
                 stage'[k] = stage[k] /\ reason'[k] = reason[k]
          /\ UNCHANGED <<wire, pending, running, ended, history, output>>
        BY <1>8 DEF Restart, engineVars
    <2>2. \A k \in ToSet(queue) : k \in Jobs
        BY DEF TypeOK, DispatcherTypeOK, ToSet
    <2>3. EndIsEngineTruth'
        BY <2>1 DEF RunInv, EndIsEngineTruth
    <2>4. \A k \in Jobs : AtEngine(k)' <=> AtEngine(k)
        BY <2>1 DEF AtEngine
    <2>5. StrayWorkIsUnsure'
        BY <2>1, <2>4, NoJobAssumption DEF RunInv, StrayWorkIsUnsure, Unsure
    <2> QED BY <2>1, <2>2, <2>3, <2>5 DEF RunInv
<1>9. CASE Engine
    BY <1>9, EngineStep
<1> QED BY <1>1, <1>2, <1>3, <1>4, <1>5, <1>6, <1>7, <1>8, <1>9 DEF Next

LEMMA RunAlways == Spec => []RunInv
<1>1. Init => RunInv
    <2>1. SUFFICES ASSUME Init PROVE RunInv
        OBVIOUS
    <2>2. ToSet(<<>>) = {} /\ IsInjective(<<>>)
        BY DEF ToSet, IsInjective
    <2> QED BY <2>1, <2>2, NoJobAssumption
        DEF Init, AdapterInit, EngineInit, DispatcherInit, RunInv, EndIsEngineTruth,
            StrayWorkIsUnsure, AtEngine
<1>2. TypeOK /\ RunInv /\ [Next]_vars => RunInv'
    BY RunStep
<1> QED BY <1>1, <1>2, RunTypeCorrect, PTL DEF Spec

\* What the service durably says of a job's end is what the engine did with its
\* prompt, for any number of jobs, restarts of either side and lost answers.
THEOREM EndsAreTrue == Spec => []EndIsEngineTruth
<1>1. RunInv => EndIsEngineTruth
    BY DEF RunInv
<1> QED BY <1>1, RunAlways, PTL

\* Work left with the engine is the active job's, or was given up as unsure.
THEOREM StrayWorkIsKnown == Spec => []StrayWorkIsUnsure
<1>1. RunInv => StrayWorkIsUnsure
    BY DEF RunInv
<1> QED BY <1>1, RunAlways, PTL

-------------------------------------------------------------------------------
(* The durable stages implement the ledger *)

\* Every step keeps LedgerInv.
LEMMA LedgerInvStep ==
    ASSUME TypeOK, RunInv, LedgerInv, [Next]_vars
    PROVE  LedgerInv'
<1> USE NoJobAssumption
<1>1. handles \subseteq Jobs /\ active \in Jobs \cup {NoJob}
      /\ wire \in [Jobs -> {"none", "sent", "taken", "refused"}]
      /\ stage \in [Jobs -> Stage]
    BY DEF TypeOK, AdapterTypeOK, DispatcherTypeOK, EngineTypeOK
<1>2. ASSUME UNCHANGED active, UNCHANGED stage, UNCHANGED handles, UNCHANGED call,
             \A j \in Jobs : wire[j] = "taken" => wire'[j] = "taken"
      PROVE  LedgerInv'
    BY <1>1, <1>2 DEF LedgerInv
<1>3. ASSUME NEW j \in Jobs, NEW status, NEW code, End(j, status, code), call' = "none",
             UNCHANGED engineVars
      PROVE  LedgerInv'
    BY <1>1, <1>3 DEF LedgerInv, End, engineVars
<1>4. ASSUME NEW j \in Jobs, NEW observed, NEW code, Observed(j, observed, code)
      PROVE  LedgerInv'
    <2>1. call' = "none" /\ UNCHANGED engineVars
        BY <1>4 DEF Observed
    <2>2. CASE handles' = handles
        BY <2>1, <2>2 DEF LedgerInv, engineVars
    <2>3. CASE \E status, c : End(j, status, c)
        BY <1>3, <2>1, <2>3
    <2> QED BY <1>4, <2>2, <2>3 DEF Observed, Decided, serviceVars
<1>5. CASE UNCHANGED vars
    BY <1>2, <1>5 DEF vars, adapterVars, dispatcherVars, serviceVars, callVars, engineVars
<1>6. ASSUME NEW j \in Jobs, Accept(j) PROVE LedgerInv'
    <2>1. /\ stage[j] = "absent"
          /\ \A k \in Jobs \ {j} : stage'[k] = stage[k]
          /\ UNCHANGED <<active, call, handles, wire>>
        BY <1>1, <1>6 DEF Accept, Enqueue, callVars, engineVars
    <2> QED BY <1>1, <2>1 DEF LedgerInv
<1>7. ASSUME NEW j \in Jobs, Claim(j) PROVE LedgerInv'
    BY <1>1, <1>7 DEF Claim, Goto, LedgerInv, engineVars
<1>8. ASSUME NEW j \in Jobs, Submit(j) PROVE LedgerInv'
    <2>1. CASE UploadImage(j)
        BY <2>1 DEF UploadImage, At, Goto, LedgerInv, dispatcherVars, serviceVars, engineVars
    <2>2. CASE PostPrompt(j)
        <3>1. wire[j] = "none"
            BY <2>2 DEF PostPrompt, At, RunInv
        <3> QED BY <1>1, <2>2, <3>1 DEF PostPrompt, At, Goto, LedgerInv, dispatcherVars, serviceVars
    <2>3. CASE PromptAnswered(j)
        BY <2>3 DEF PromptAnswered, At, Goto, LedgerInv, dispatcherVars, serviceVars, engineVars
    <2>4. CASE SubmitFails(j)
        BY <1>3, <2>4 DEF SubmitFails
    <2>5. CASE SaveHandle(j)
        BY <2>5 DEF SaveHandle, At, Inspect, LedgerInv, dispatcherVars, engineVars
    <2> QED BY <1>8, <2>1, <2>2, <2>3, <2>4, <2>5 DEF Submit
<1>9. ASSUME NEW j \in Jobs, InspectAgain(j) PROVE LedgerInv'
    BY <1>9 DEF InspectAgain, At, Inspect, LedgerInv, dispatcherVars, serviceVars, engineVars
<1>10. ASSUME NEW j \in Jobs, Read(j) PROVE LedgerInv'
    <2>1. CASE ReadNoEnding(j)
        BY <2>1 DEF ReadNoEnding, At, LedgerInv, dispatcherVars, serviceVars, engineVars
    <2>2. CASE ReadTimesOut(j)
        BY <1>2, <2>2 DEF ReadTimesOut, dispatcherVars, serviceVars, engineVars
    <2> QED BY <1>4, <1>10, <2>1, <2>2, ReadCases
<1>11. CASE TimeoutPasses
    BY <1>2, <1>11 DEF TimeoutPasses, dispatcherVars, serviceVars, engineVars
<1>12. CASE Restart
    BY <1>12 DEF Restart, LedgerInv, engineVars
<1>13. CASE Engine
    <2>1. UNCHANGED <<active, stage, handles, call>>
        BY <1>13 DEF Engine, adapterVars, dispatcherVars, serviceVars, callVars
    <2>2. \A j \in Jobs : wire[j] = "taken" => wire'[j] = "taken"
        BY <1>1, <1>13 DEF Engine, EngineNext, EngineReceive, EngineRefuse, EngineStart,
                           EngineWrite, EngineEnd, EngineRestart
    <2> QED BY <1>2, <2>1, <2>2
<1> QED BY <1>5, <1>6, <1>7, <1>8, <1>9, <1>10, <1>11, <1>12, <1>13 DEF Next

\* The end of the active job is a step of the ledger.
LEMMA EndIsLedgerStep ==
    ASSUME TypeOK, RunInv, NEW j \in Jobs, NEW status \in Ended, NEW code,
           End(j, status, code), UNCHANGED engineVars,
           status \in {"completed", "cancelled"} => wire[j] # "none"
    PROVE  Ledger!LedgerNext
<1>1. stage[j] \in {"reserved", "processing"} /\ stage' = [stage EXCEPT ![j] = status]
    BY NoJobAssumption DEF End, Complete, RunInv
<1>2. wire' = wire
    BY DEF engineVars
<1>3. CASE status = "completed"
    <2>1. Ledger!Complete(j)
        BY <1>1, <1>2, <1>3 DEF Ledger!Complete, Ledger!Becomes, Ledger!InSlot
    <2> QED BY <2>1 DEF Ledger!LedgerNext
<1>4. CASE status = "failed"
    <2>1. Ledger!Fail(j)
        BY <1>1, <1>2, <1>4 DEF Ledger!Fail, Ledger!Becomes, Ledger!Ended
    <2> QED BY <2>1 DEF Ledger!LedgerNext
<1>5. CASE status = "cancelled"
    <2>1. Ledger!Cancel(j)
        BY <1>1, <1>2, <1>5 DEF Ledger!Cancel, Ledger!Becomes, Ledger!InSlot
    <2> QED BY <2>1 DEF Ledger!LedgerNext
<1> QED BY <1>3, <1>4, <1>5 DEF Ended

\* Every step is a step of the ledger, or none of its concern.
LEMMA LedgerStep ==
    ASSUME TypeOK, RunInv, LedgerInv, [Next]_vars
    PROVE  Ledger!LedgerNext \/ UNCHANGED Ledger!ledgerVars
<1> USE NoJobAssumption
<1>1. /\ stage \in [Jobs -> Stage] /\ active \in Jobs \cup {NoJob}
      /\ wire \in [Jobs -> {"none", "sent", "taken", "refused"}]
    BY DEF TypeOK, AdapterTypeOK, DispatcherTypeOK, EngineTypeOK
<1>2. ASSUME UNCHANGED stage, \A j \in Jobs : wire'[j] # "none" <=> wire[j] # "none"
      PROVE  UNCHANGED Ledger!ledgerVars
    BY <1>2 DEF Ledger!ledgerVars
<1>3. CASE UNCHANGED vars
    BY <1>2, <1>3 DEF vars, adapterVars, serviceVars, engineVars
<1>4. ASSUME NEW j \in Jobs, Accept(j) PROVE Ledger!LedgerNext
    <2>1. Ledger!Accept(j)
        BY <1>4 DEF Accept, engineVars, Ledger!Accept, Ledger!Becomes
    <2> QED BY <2>1 DEF Ledger!LedgerNext
<1>5. ASSUME NEW j \in Jobs, Claim(j) PROVE Ledger!LedgerNext
    <2>1. /\ active = NoJob /\ j = Head(queue) /\ queue # <<>>
          /\ stage' = [stage EXCEPT ![j] = "reserved"] /\ wire' = wire
        BY <1>5 DEF Claim, ClaimNext, NothingToClaim, engineVars
    <2>2. stage[j] = "waiting"
        BY <2>1, ShrunkSet DEF RunInv, TypeOK, DispatcherTypeOK
    <2>3. \A k \in Jobs : stage[k] \notin {"reserved", "processing"}
        BY <2>1 DEF RunInv
    <2>4. Ledger!Take(j)
        BY <2>1, <2>2, <2>3 DEF Ledger!Take, Ledger!Becomes, Ledger!InSlot
    <2> QED BY <2>4 DEF Ledger!LedgerNext
<1>6. ASSUME NEW j \in Jobs, Submit(j)
      PROVE  Ledger!LedgerNext \/ UNCHANGED Ledger!ledgerVars
    <2>1. CASE UploadImage(j) \/ PromptAnswered(j) \/ SaveHandle(j)
        BY <1>2, <2>1 DEF UploadImage, PromptAnswered, SaveHandle, serviceVars, engineVars
    <2>2. CASE PostPrompt(j)
        <3>1. active = j /\ stage[j] = "reserved" /\ wire[j] = "none"
              /\ wire' = [wire EXCEPT ![j] = "sent"] /\ stage' = stage
            BY <2>2 DEF PostPrompt, At, LedgerInv, RunInv, serviceVars
        <3>2. [k \in Jobs |-> wire'[k] # "none"]
                = [[k \in Jobs |-> wire[k] # "none"] EXCEPT ![j] = TRUE]
            BY <1>1, <3>1
        <3>3. Ledger!Send(j)
            BY <3>1, <3>2 DEF Ledger!Send
        <3> QED BY <3>3 DEF Ledger!LedgerNext
    <2>3. CASE SubmitFails(j)
        BY <2>3, EndIsLedgerStep DEF SubmitFails, Ended
    <2> QED BY <1>6, <2>1, <2>2, <2>3 DEF Submit
<1>7. ASSUME NEW j \in Jobs, Read(j)
      PROVE  Ledger!LedgerNext \/ UNCHANGED Ledger!ledgerVars
    <2>1. active = j /\ call \in {"history", "queue"}
        BY <1>7 DEF Read, ReadEnding, ReadNoEnding, ReadQueue, ReadTimesOut, ReadFails, At
    <2>2. wire[j] = "taken" /\ stage[j] \in {"reserved", "processing"}
        BY <2>1 DEF LedgerInv, RunInv
    <2>3. CASE ReadNoEnding(j) \/ ReadTimesOut(j)
        BY <1>2, <2>3 DEF ReadNoEnding, ReadTimesOut, serviceVars, engineVars
    <2>4. ASSUME NEW observed, NEW code, Observed(j, observed, code)
          PROVE  Ledger!LedgerNext \/ UNCHANGED Ledger!ledgerVars
        <3>1. UNCHANGED engineVars
            BY <2>4 DEF Observed
        <3>2. CASE UNCHANGED stage
            BY <1>2, <3>1, <3>2 DEF engineVars
        <3>3. CASE stage' = [stage EXCEPT ![j] = "processing"]
            <4>1. CASE stage[j] = "processing"
                BY <1>1, <3>2, <3>3, <4>1
            <4>2. CASE stage[j] = "reserved"
                <5>1. Ledger!Start(j)
                    BY <2>2, <3>1, <3>3, <4>2 DEF Ledger!Start, Ledger!Becomes, engineVars
                <5> QED BY <5>1 DEF Ledger!LedgerNext
            <4> QED BY <2>2, <4>1, <4>2
        <3>4. CASE \E status \in Ended : \E c : End(j, status, c)
            BY <2>2, <3>1, <3>4, EndIsLedgerStep
        <3> QED BY <2>4, <3>2, <3>3, <3>4 DEF Observed, Decided, serviceVars, Ended
    <2> QED BY <1>7, <2>3, <2>4, ReadCases
<1>8. ASSUME NEW j \in Jobs, InspectAgain(j) PROVE UNCHANGED Ledger!ledgerVars
    BY <1>2, <1>8 DEF InspectAgain, serviceVars, engineVars
<1>9. CASE TimeoutPasses
    BY <1>2, <1>9 DEF TimeoutPasses, serviceVars, engineVars
<1>10. CASE Restart
    <2>1. wire' = wire
        BY <1>10 DEF Restart, engineVars
    <2>2. CASE active = NoJob
        <3>1. stage' = stage
            BY <1>1, <1>10, <2>2 DEF Restart, RunInv
        <3> QED BY <1>2, <2>1, <3>1
    <2>3. CASE active # NoJob
        <3>1. active \in Jobs /\ stage[active] \in {"reserved", "processing"}
            BY <1>1, <2>3 DEF RunInv
        <3>2. stage' = [stage EXCEPT ![active] = "failed"]
            BY <1>1, <1>10, <3>1 DEF Restart, RunInv
        <3>3. Ledger!Fail(active)
            BY <2>1, <3>1, <3>2 DEF Ledger!Fail, Ledger!Becomes, Ledger!Ended
        <3> QED BY <3>1, <3>3 DEF Ledger!LedgerNext
    <2> QED BY <2>2, <2>3
<1>11. CASE Engine
    <2>1. stage' = stage
        BY <1>11 DEF Engine, adapterVars, serviceVars
    <2>2. \A j \in Jobs : wire'[j] # "none" <=> wire[j] # "none"
        BY <1>1, <1>11 DEF Engine, EngineNext, EngineReceive, EngineRefuse, EngineStart,
                           EngineWrite, EngineEnd, EngineRestart
    <2> QED BY <1>2, <2>1, <2>2
<1> QED BY <1>3, <1>4, <1>5, <1>6, <1>7, <1>8, <1>9, <1>10, <1>11 DEF Next

\* The service, the adapter and the engine together implement JobLedger: a job is
\* sent once, while it owns the slot, and ends once.
THEOREM ImplementsLedger == Spec => LedgerKept
<1>1. Init => Ledger!LedgerInit
    <2> SUFFICES ASSUME Init PROVE Ledger!LedgerInit
        OBVIOUS
    <2>1. stage = [j \in Jobs |-> "absent"]
        BY DEF Init, AdapterInit
    <2>2. \A j \in Jobs : (wire[j] # "none") = FALSE
        BY DEF Init, EngineInit
    <2>3. [j \in Jobs |-> wire[j] # "none"] = [j \in Jobs |-> FALSE]
        BY <2>2, Zenon
    <2> QED BY <2>1, <2>3 DEF Ledger!LedgerInit
<1>2. Init => LedgerInv
    BY DEF Init, AdapterInit, LedgerInv
<1>3. TypeOK /\ RunInv /\ LedgerInv /\ [Next]_vars => LedgerInv'
    BY LedgerInvStep
<1>4. TypeOK /\ RunInv /\ LedgerInv /\ [Next]_vars
        => [Ledger!LedgerNext]_(Ledger!ledgerVars)
    BY LedgerStep
<1> QED BY <1>1, <1>2, <1>3, <1>4, RunTypeCorrect, RunAlways, PTL
        DEF Spec, LedgerKept, Ledger!LedgerSpec

===============================================================================
