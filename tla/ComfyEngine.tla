------------------------------ MODULE ComfyEngine ------------------------------
(***************************************************************************)
(* The ComfyUI server, as far as the adapter can tell (external: it is     *)
(* modelled from the routes and fields comfy_client.py uses).  A prompt is *)
(* known by its job, because a job is given to the engine at most once.    *)
(* The engine promises nothing: it may be slow, hang, or be restarted, and *)
(* a restart empties its queue and its history but not its output folder.  *)
(***************************************************************************)
EXTENDS SerialDispatcher

CONSTANT
    Endings  \* bound: the ways the engine ends a prompt, of those in Ending

Ending == {"success", "error", "interrupted", "odd"}  \* odd: no status_str

ASSUME EndingAssumption == Endings \subseteq Ending

VARIABLES
    wire,      \* wire[j]: POST /prompt of j: none, sent, taken or refused
    pending,   \* /queue: prompts the engine has not started, oldest first
    running,   \* /queue: the prompt the engine works on, or NoJob
    ended,     \* ended[j]: how the engine ended j, or "none"
    history,   \* prompts /history answers for
    output     \* output[j]: what is below output/jobs/<j>

engineVars == <<wire, pending, running, ended, history, output>>

\* No non-empty .glb; exactly one, a textured GLB; anything else.
Output == {"none", "valid", "unusable"}

EngineTypeOK ==
    /\ wire \in [Jobs -> {"none", "sent", "taken", "refused"}]
    /\ pending \in Seq(Jobs)
    /\ running \in Jobs \cup {NoJob}
    /\ ended \in [Jobs -> Ending \cup {"none"}]
    /\ history \subseteq Jobs
    /\ output \in [Jobs -> Output]

EngineInit ==
    /\ wire = [j \in Jobs |-> "none"]
    /\ pending = <<>>
    /\ running = NoJob
    /\ ended = [j \in Jobs |-> "none"]
    /\ history = {}
    /\ output = [j \in Jobs |-> "none"]

\* Also when the adapter has stopped waiting for the answer.
EngineReceive(j) ==
    /\ wire[j] = "sent"
    /\ wire' = [wire EXCEPT ![j] = "taken"]
    /\ pending' = Append(pending, j)
    /\ UNCHANGED <<running, ended, history, output>>

\* Rejected as invalid, or the connection is refused or broken.
EngineRefuse(j) ==
    /\ wire[j] = "sent"
    /\ wire' = [wire EXCEPT ![j] = "refused"]
    /\ UNCHANGED <<pending, running, ended, history, output>>

EngineStart ==
    /\ running = NoJob
    /\ pending # <<>>
    /\ running' = Head(pending)
    /\ pending' = Tail(pending)
    /\ UNCHANGED <<wire, ended, history, output>>

EngineWrite(j) ==
    /\ running = j
    /\ \E files \in Output \ {"none"} : output' = [output EXCEPT ![j] = files]
    /\ UNCHANGED <<wire, pending, running, ended, history>>

\* The prompt leaves the queue and enters the history in one step.
EngineEnd(j) ==
    /\ running = j
    /\ running' = NoJob
    /\ \E how \in Endings : ended' = [ended EXCEPT ![j] = how]
    /\ history' = history \cup {j}
    /\ UNCHANGED <<wire, pending, output>>

EngineRestart ==
    /\ pending' = <<>>
    /\ running' = NoJob
    /\ history' = {}
    /\ UNCHANGED <<wire, ended, output>>

EngineNext ==
    \/ EngineStart \/ EngineRestart
    \/ \E j \in Jobs : EngineReceive(j) \/ EngineRefuse(j) \/ EngineWrite(j) \/ EngineEnd(j)

\* The engine still has, or may still be handed, the prompt of j.
AtEngine(j) == wire[j] = "sent" \/ j \in ToSet(pending) \/ j = running

===============================================================================
