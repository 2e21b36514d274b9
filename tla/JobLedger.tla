------------------------------- MODULE JobLedger -------------------------------
(***************************************************************************)
(* What the service promises about a job, seen from its durable record     *)
(* alone: an accepted job waits, is reserved for its only submission when  *)
(* no other job is between reservation and its end, and ends once.         *)
(* Nothing here knows of memory, locks, tasks or restarts.                 *)
(***************************************************************************)
EXTENDS Naturals, FiniteSets

CONSTANT
    Jobs    \* job identifiers

VARIABLES
    stage,  \* stage[j]: where job j is in its life
    sent    \* sent[j]: whether the engine was given job j's prompt

ledgerVars == <<stage, sent>>

Ended == {"completed", "failed", "cancelled"}

Stage == {"absent", "waiting", "reserved", "processing"} \cup Ended

InSlot == {j \in Jobs : stage[j] \in {"reserved", "processing"}}

LedgerInit ==
    /\ stage = [j \in Jobs |-> "absent"]
    /\ sent = [j \in Jobs |-> FALSE]

Becomes(j, s) == stage' = [stage EXCEPT ![j] = s] /\ UNCHANGED sent

Accept(j) == stage[j] = "absent" /\ Becomes(j, "waiting")

\* The slot is free, and only a waiting job takes it.
Take(j) == stage[j] = "waiting" /\ InSlot = {} /\ Becomes(j, "reserved")

\* The only prompt of the job, and only while it owns the slot.
Send(j) ==
    /\ stage[j] = "reserved"
    /\ ~sent[j]
    /\ sent' = [sent EXCEPT ![j] = TRUE]
    /\ UNCHANGED stage

Start(j) == stage[j] = "reserved" /\ sent[j] /\ Becomes(j, "processing")

\* Directly from "reserved" when the write of "processing" was lost.
Complete(j) == j \in InSlot /\ sent[j] /\ Becomes(j, "completed")

Fail(j) == stage[j] \notin Ended \cup {"absent"} /\ Becomes(j, "failed")

\* By the client while the job waits, or by the engine once it was sent.
Cancel(j) ==
    /\ stage[j] = "waiting" \/ (j \in InSlot /\ sent[j])
    /\ Becomes(j, "cancelled")

LedgerNext == \E j \in Jobs :
    \/ Accept(j) \/ Take(j) \/ Send(j) \/ Start(j)
    \/ Complete(j) \/ Fail(j) \/ Cancel(j)

LedgerSpec == LedgerInit /\ [][LedgerNext]_ledgerVars

===============================================================================
