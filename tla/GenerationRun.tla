----------------------------- MODULE GenerationRun -----------------------------
(***************************************************************************)
(* The service, the adapter and the engine together: how a job's prompt    *)
(* runs, and what the service is entitled to say of it.                    *)
(***************************************************************************)
EXTENDS ComfyAdapter

vars == <<adapterVars, engineVars>>

TypeOK ==
    /\ DispatcherTypeOK
    /\ EngineTypeOK
    /\ AdapterTypeOK

Init == EngineInit /\ AdapterInit

Submit(j) ==
    UploadImage(j) \/ PostPrompt(j) \/ PromptAnswered(j) \/ SubmitFails(j) \/ SaveHandle(j)

Read(j) ==
    ReadEnding(j) \/ ReadNoEnding(j) \/ ReadQueue(j) \/ ReadTimesOut(j) \/ ReadFails(j)

Engine == EngineNext /\ UNCHANGED adapterVars

Next ==
    \/ \E j \in Jobs : Accept(j) \/ Claim(j) \/ Submit(j) \/ InspectAgain(j) \/ Read(j)
    \/ TimeoutPasses
    \/ Restart
    \/ Engine

Spec == Init /\ [][Next]_vars

\* The worker ticks, every HTTP exchange answers or times out, and time goes by.
\* Nothing is asked of the engine.
Fairness ==
    /\ WF_vars(\E j \in Jobs : Claim(j))
    /\ WF_vars(\E j \in Jobs : Submit(j))
    /\ WF_vars(\E j \in Jobs : InspectAgain(j))
    /\ WF_vars(\E j \in Jobs : Read(j))
    /\ WF_vars(TimeoutPasses)

FairSpec == Spec /\ Fairness

-------------------------------------------------------------------------------
(* Safety *)

\* What the service durably says of a job is what the engine did with it: a
\* completed job was run to success and left exactly one valid model, a cancelled
\* one was interrupted, and the other failures are named for what happened.  Lost
\* answers, restarts of either side and stale handles never change that.
EndIsEngineTruth ==
    \A j \in Jobs :
        /\ stage[j] = "completed" => ended[j] = "success" /\ output[j] = "valid"
        /\ stage[j] = "cancelled" => ended[j] = "interrupted"
        /\ reason[j] = "generation_failed" => ended[j] = "error"
        /\ reason[j] = "invalid_result" =>
               ended[j] = "success" /\ output[j] # "valid"

\* Work the engine has, or may still be handed, belongs to the job in the GPU
\* slot or to one the service gave up without knowing what became of it.
StrayWorkIsUnsure ==
    \A j \in Jobs : AtEngine(j) =>
        j = active \/ (stage[j] = "failed" /\ reason[j] \in Unsure)

\* Why they hold: an inductive strengthening.
RunInv ==
    \* The dispatcher and the durable stages agree on who waits and who has the slot.
    /\ IsInjective(queue)
    /\ \A j \in ToSet(queue) : stage[j] = "waiting"
    /\ active # NoJob => stage[active] \in {"reserved", "processing"}
    /\ \A j \in Jobs : stage[j] \in {"reserved", "processing"} => j = active
    \* A prompt is sent once, by the job in the slot.
    /\ \A j \in Jobs : stage[j] \in {"absent", "waiting"} => wire[j] = "none"
    /\ call \in {"upload", "post"} /\ active # NoJob => wire[active] = "none"
    \* The engine has a prompt in one place, and only until it ends it.
    /\ IsInjective(pending)
    /\ \A j \in ToSet(pending) : wire[j] = "taken" /\ ended[j] = "none" /\ running # j
    /\ running # NoJob => wire[running] = "taken" /\ ended[running] = "none"
    /\ \A j \in Jobs : wire[j] # "taken" => ended[j] = "none"
    /\ \A j \in history : ended[j] # "none"
    /\ EndIsEngineTruth
    /\ StrayWorkIsUnsure

\* The durable stages keep the promise of JobLedger, whatever the engine does.
Ledger == INSTANCE JobLedger WITH
    stage <- stage,
    sent  <- [j \in Jobs |-> wire[j] # "none"]

LedgerKept == Ledger!LedgerSpec

\* Why it is kept: what a call of the adapter may assume of the active job.
LedgerInv ==
    /\ call \in {"upload", "post"} => active # NoJob /\ stage[active] = "reserved"
    /\ call \in {"save", "history", "queue"} => active # NoJob /\ wire[active] = "taken"
    /\ \A j \in handles : wire[j] = "taken"

\* Before timeout_seconds are over, an engine that answers every read is not taken
\* for one that lost the prompt, when it has only just finished it.
FinishedWorkIsNotUnknown ==
    [][\A j \in Jobs :
           ReadQueue(j) /\ j \in history /\ ~over => stage'[j] # "failed"]_vars

\* Engine work the service has a handle of, and gives up in a restart, is reported.
OrphansAreReported ==
    \A j \in saved :
        AtEngine(j) /\ reason[j] = "restart_recovery" => j \in reported

-------------------------------------------------------------------------------
(* Liveness *)

\* Every accepted job ends, even if the engine never answers anything again.
EveryJobEnds == \A j \in Jobs : stage[j] = "waiting" ~> stage[j] \in Ended

===============================================================================
