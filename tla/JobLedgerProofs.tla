----------------------------- MODULE JobLedgerProofs -----------------------------
(***************************************************************************)
(* What RecordInv buys, for every set of jobs and any number of crashes,   *)
(* faults and clients.  The job service, with its crashes and its          *)
(* recovery, implements JobLedger: a step either writes one row, or sends  *)
(* one prompt, or does not concern the ledger.  An end that a client was   *)
(* told holds (ToldInv), jobs are served in the order of their uploads     *)
(* (OrderInv), and until the first exception the row follows memory one    *)
(* allowed transition at a time (FollowInv).                               *)
(***************************************************************************)
EXTENDS JobRecordProofs

\* What a ledger step asks of the stages, in terms of the row.
LEMMA StageFacts ==
    ASSUME TypeOK, SubmissionInv, NEW j \in Jobs
    PROVE  /\ row[j].status = "absent" <=> StageOf(j) = "absent"
           /\ Reservable(j) <=> StageOf(j) = "waiting"
           /\ row[j].status = "queued" /\ row[j].attempts = 1 <=> StageOf(j) = "reserved"
           /\ row[j].status = "processing" <=> StageOf(j) = "processing"
           /\ row[j].status \in Terminal <=> StageOf(j) \in Ledger!Ended
<1>1. row[j].attempts = 0 \/ row[j].attempts = 1
    <2>1. row[j].attempts \in Nat /\ row[j].attempts <= 1
        BY ObjectTypes, JobFields DEF SubmissionInv
    <2> QED BY <2>1
<1>2. row[j].status \in JobState \cup {"absent"}
    BY ObjectTypes, JobFields
<1> QED BY <1>1, <1>2 DEF StageOf, Reservable, Ledger!Ended, JobState, NonTerminal, Terminal

\* A row that keeps its status and its attempts keeps its stage.
LEMMA StageKept ==
    ASSUME NEW j, row'[j].status = row[j].status, row'[j].attempts = row[j].attempts
    PROVE  StageOf(j)' = StageOf(j)
BY DEF StageOf

\* A step that leaves statuses, attempts and prompts alone is not the ledger's concern.
LEMMA NotInLedger ==
    ASSUME \A k \in Jobs : row'[k].status = row[k].status /\ row'[k].attempts = row[k].attempts,
           prompts' = prompts
    PROVE  UNCHANGED Ledger!ledgerVars
<1>1. \A k \in Jobs : StageOf(k)' = StageOf(k)
    BY StageKept
<1>2. [k \in Jobs |-> StageOf(k)]' = [k \in Jobs |-> StageOf(k)]
    BY <1>1, Zenon
<1> QED BY <1>2 DEF Ledger!ledgerVars

\* A step that writes the row of one job.
LEMMA RowBecomes ==
    ASSUME NEW j \in Jobs, \A k \in Jobs \ {j} : row'[k] = row[k], prompts' = prompts,
           NEW s, StageOf(j)' = s
    PROVE  Ledger!Becomes(j, s)
<1>1. \A k \in Jobs : StageOf(k)' = IF k = j THEN s ELSE StageOf(k)
    BY StageKept
<1> QED BY <1>1 DEF Ledger!Becomes

\* A step that writes a job which has not ended.
LEMMA WriteIsLedgerStep ==
    ASSUME TypeOK, TypeOK', SubmissionInv, SubmissionInv', RecordInv, NEW j \in Jobs,
           \A k \in Jobs \ {j} : row'[k] = row[k], prompts' = prompts,
           row[j].status \in NonTerminal,
           row'[j].attempts = row[j].attempts,
           row'[j].status \in {"processing"} \cup Terminal,
           row'[j].status \in {"processing", "completed"} => row[j].attempts = 1 /\ prompts[j] > 0,
           row'[j].status = "cancelled" =>
               Reservable(j) \/ (row[j].attempts = 1 /\ prompts[j] > 0)
    PROVE  Ledger!LedgerNext \/ UNCHANGED Ledger!ledgerVars
<1>1. row[j].status = "queued" \/ row[j].status = "processing"
    BY DEF NonTerminal
<1>2. StageOf(j) \in {"waiting", "reserved", "processing"}
    <2>1. row[j].attempts = 0 \/ row[j].attempts = 1
        <3>1. row[j].attempts \in Nat /\ row[j].attempts <= 1
            BY ObjectTypes, JobFields DEF SubmissionInv
        <3> QED BY <3>1
    <2> QED BY <1>1, <2>1 DEF StageOf
<1>3. row[j].attempts = 1 => StageOf(j) \in {"reserved", "processing"}
    BY <1>1 DEF StageOf
<1>4. Reservable(j) => StageOf(j) = "waiting"
    BY StageFacts
<1>5. StageOf(j)' = row'[j].status
    BY DEF StageOf, Terminal
<1>6. Ledger!Becomes(j, row'[j].status)
    BY <1>5, RowBecomes
<1>7. CASE row'[j].status = "processing"
    <2>1. CASE row[j].status = "processing"
        BY <1>7, <2>1, NotInLedger
    <2>2. CASE row[j].status = "queued"
        <3>1. StageOf(j) = "reserved"
            BY <1>7, <2>2 DEF StageOf
        <3>2. Ledger!Start(j)
            BY <1>6, <1>7, <3>1 DEF Ledger!Start
        <3> QED BY <3>2 DEF Ledger!LedgerNext
    <2> QED BY <1>1, <2>1, <2>2
<1>8. CASE row'[j].status = "completed"
    <2>1. Ledger!Complete(j)
        BY <1>3, <1>6, <1>8 DEF Ledger!Complete, Ledger!InSlot
    <2> QED BY <2>1 DEF Ledger!LedgerNext
<1>9. CASE row'[j].status = "failed"
    <2>1. Ledger!Fail(j)
        BY <1>2, <1>6, <1>9 DEF Ledger!Fail, Ledger!Ended
    <2> QED BY <2>1 DEF Ledger!LedgerNext
<1>10. CASE row'[j].status = "cancelled"
    <2>1. Ledger!Cancel(j)
        BY <1>3, <1>4, <1>6, <1>10 DEF Ledger!Cancel, Ledger!InSlot
    <2> QED BY <2>1 DEF Ledger!LedgerNext
<1> QED BY <1>7, <1>8, <1>9, <1>10 DEF Terminal

\* The prompt is sent on a reservation, and it is the job's first.
LEMMA SendIsLedgerStep ==
    ASSUME TypeOK, SubmissionInv, RecordInv, NEW j \in Jobs,
           Advancing(j, "submit"), row' = row, prompts' = [prompts EXCEPT ![j] = @ + 1]
    PROVE  Ledger!LedgerNext
<1>1. line # <<>> /\ Head(line).job = j /\ at = "submit"
    BY DEF Advancing, Holds
<1>2. StageOf(j) = "reserved" /\ prompts[j] = 0
    BY <1>1 DEF RecordInv, HolderExpects, SubmissionInv, StageOf
<1>3. /\ prompts'[j] > 0 /\ ~(prompts[j] > 0)
      /\ \A k \in Jobs \ {j} : prompts'[k] = prompts[k]
    BY <1>2 DEF TypeOK, ServiceTypeOK
<1>4. [k \in Jobs |-> StageOf(k)]' = [k \in Jobs |-> StageOf(k)]
    <2>1. \A k \in Jobs : StageOf(k)' = StageOf(k)
        BY StageKept
    <2> QED BY <2>1, Zenon
<1>5. [k \in Jobs |-> prompts'[k] > 0] = [[k \in Jobs |-> prompts[k] > 0] EXCEPT ![j] = TRUE]
    <2>1. (prompts'[j] > 0) = TRUE
        BY <1>3, Zenon
    <2>2. \A k \in Jobs \ {j} : (prompts'[k] > 0) = (prompts[k] > 0)
        BY <1>3, Zenon
    <2>3. \A k \in Jobs : (prompts'[k] > 0) = IF k = j THEN TRUE ELSE prompts[k] > 0
        BY <2>1, <2>2, Zenon
    <2>4. [k \in Jobs |-> prompts'[k] > 0]
              = [k \in Jobs |-> IF k = j THEN TRUE ELSE prompts[k] > 0]
        BY <2>3, Zenon
    <2> QED BY <2>4
<1>6. ~[k \in Jobs |-> prompts[k] > 0][j]
    BY <1>3, Zenon
<1>7. Ledger!Send(j)
    BY <1>2, <1>4, <1>5, <1>6 DEF Ledger!Send
<1> QED BY <1>7 DEF Ledger!LedgerNext

-------------------------------------------------------------------------------

\* Recovery fails a job, and keeps its count of attempts.
LEMMA RecoveryFails ==
    ASSUME TypeOK, SubmissionInv, NEW j \in Jobs, MarkRestartFailure(j)
    PROVE  /\ row'[j].status = "failed" /\ row'[j].attempts = row[j].attempts
           /\ \A k \in Jobs \ {j} : row'[k] = row[k]
           /\ prompts' = prompts
<1> DEFINE old == [Loaded(j) EXCEPT !.seq = LastSequence(j)]
           job == Transitioned(old, "failed")
<1>1. row' = [row EXCEPT ![j] = job] /\ prompts' = prompts
    BY DEF MarkRestartFailure, WriteRecovered, PersistTransition
<1>2. PICK l \in Job : l = Loaded(j) /\ l.attempts = row[j].attempts
    BY ObjectTypes, ObjectAgrees
<1>3. PICK o \in Job : o = old /\ o.attempts = row[j].attempts
    <2>1. LastSequence(j) \in Nat
        BY ObjectTypes
    <2>2. [l EXCEPT !.seq = LastSequence(j)].attempts = l.attempts
        BY <2>1, ChangedFields
    <2> QED BY <1>2, <2>1, <2>2, JobUpdates
<1>4. job = Transitioned(o, "failed") /\ "failed" \in JobState
    BY <1>3 DEF JobState, Terminal
<1> HIDE DEF job, old
<1>5. job.status = "failed" /\ job.attempts = row[j].attempts
    BY <1>3, <1>4, ChangedFields
<1>6. row \in [Jobs -> Job]
    BY DEF TypeOK, StoreTypeOK
<1> QED BY <1>1, <1>5, <1>6

\* A step of recovery that ends a job is the ledger's Fail.
LEMMA RecoveryIsLedgerStep ==
    ASSUME TypeOK, TypeOK', SubmissionInv, SubmissionInv', RecordInv, NEW j \in Jobs,
           row[j].status \in NonTerminal, MarkRestartFailure(j)
    PROVE  Ledger!LedgerNext \/ UNCHANGED Ledger!ledgerVars
BY RecoveryFails, WriteIsLedgerStep DEF Terminal

\* The steps at the lock that do not write the row and send nothing.
Silent(j) ==
    \/ AdvanceTerminal(j) \/ ClaimNothing(j) \/ ClaimOther(j) \/ ClaimOwn(j)
    \/ SubmitRefused(j) \/ FirstInspect(j) \/ SubmissionRaises(j)
    \/ InspectQueued(j) \/ InspectProcessing(j) \/ InspectSucceeded(j)
    \/ InspectEnded(j) \/ InspectRaises(j) \/ PersistRaises(j)
    \/ CancelStart(j) \/ CancelRead(j) \/ CancelRaises(j)

LEMMA SilentIsNoStep ==
    ASSUME NEW j, Silent(j)
    PROVE  UNCHANGED <<row, prompts>>
<1> USE DEF storeVars
<1>1. CASE AdvanceTerminal(j) \/ ClaimNothing(j) \/ ClaimOther(j) \/ ClaimOwn(j)
    BY <1>1 DEF AdvanceTerminal, ClaimNothing, ClaimOther, ClaimOwn
<1>2. CASE SubmitRefused(j) \/ FirstInspect(j) \/ SubmissionRaises(j)
    BY <1>2 DEF SubmitRefused, FirstInspect, SubmissionRaises, GiveUp
<1>3. CASE InspectQueued(j) \/ InspectProcessing(j) \/ InspectSucceeded(j) \/ InspectEnded(j)
    BY <1>3 DEF InspectQueued, InspectProcessing, InspectSucceeded, InspectEnded
<1>4. CASE InspectRaises(j) \/ PersistRaises(j)
    BY <1>4 DEF InspectRaises, PersistRaises
<1>5. CASE CancelStart(j) \/ CancelRead(j) \/ CancelRaises(j)
    BY <1>5 DEF CancelStart, CancelRead, CancelRaises
<1> QED BY <1>1, <1>2, <1>3, <1>4, <1>5 DEF Silent

\* Every step of the system is a step of the ledger, or none of its concern.
LEMMA SystemLedgerStep ==
    ASSUME TypeOK, TypeOK', SubmissionInv, SubmissionInv', SlotInv, RecordInv, [Next]_vars
    PROVE  Ledger!LedgerNext \/ UNCHANGED Ledger!ledgerVars
<1> USE DEF storeVars
<1>T. row \in [Jobs -> Job] /\ mem \in [Jobs -> Job] /\ active \in Jobs \cup {NoJob}
    BY DEF TypeOK, DispatcherTypeOK, StoreTypeOK, ServiceTypeOK
<1>U. ASSUME UNCHANGED <<row, prompts>> PROVE UNCHANGED Ledger!ledgerVars
    BY <1>U, NotInLedger
\* What the holder of the lock knows when its write commits.
<1>H. ASSUME NEW j \in Jobs, NEW step \in {"save", "bridge", "persist", "giveUp", "cancelPersist"},
             Advancing(j, step) \/ Cancelling(j, step)
      PROVE  at = step /\ HolderExpects(j) /\ mem[j].attempts = row[j].attempts
    <2>1. at = step /\ line # <<>> /\ Head(line).job = j
        BY <1>H DEF Advancing, Cancelling, Holds
    <2> QED BY <2>1 DEF SubmissionInv, RecordInv
\* The row takes over what memory holds.
<1>P. ASSUME NEW j \in Jobs, PersistTransition(j, mem[j]), prompts' = prompts,
             NEW step \in {"bridge", "persist", "giveUp", "cancelPersist"},
             Advancing(j, step) \/ Cancelling(j, step)
      PROVE  Ledger!LedgerNext \/ UNCHANGED Ledger!ledgerVars
    <2>1. row'[j] = mem[j] /\ \A k \in Jobs \ {j} : row'[k] = row[k]
        BY <1>P, <1>T DEF PersistTransition
    <2>2. at = step /\ HolderExpects(j) /\ mem[j].attempts = row[j].attempts
        BY <1>H, <1>P
    <2>3. row[j].status \in NonTerminal /\ mem[j].status \in {"processing"} \cup Terminal
        BY <2>2 DEF HolderExpects, Terminal
    <2>4. mem[j].status \in {"processing", "completed"} => row[j].attempts = 1 /\ prompts[j] > 0
        BY <2>2 DEF HolderExpects
    <2>5. mem[j].status = "cancelled" =>
              Reservable(j) \/ (row[j].attempts = 1 /\ prompts[j] > 0)
        BY <2>2 DEF HolderExpects, Reservable
    <2> QED BY <1>P, <2>1, <2>2, <2>3, <2>4, <2>5, WriteIsLedgerStep
<1>0. CASE UNCHANGED vars
    BY <1>0, <1>U DEF vars
<1>1. CASE WorkerTick
    BY <1>1, <1>U DEF WorkerTick
<1>2. ASSUME NEW j \in Jobs, Poll(j) \/ AskCancel(j) PROVE UNCHANGED Ledger!ledgerVars
    BY <1>2, <1>U DEF Poll, AskCancel
<1>3. ASSUME NEW j \in Jobs, Upload(j)
      PROVE  Ledger!LedgerNext \/ UNCHANGED Ledger!ledgerVars
    <2>1. CASE BeginUpload(j) \/ RefuseUpload(j) \/ FinishUpload(j)
        BY <1>U, <2>1 DEF BeginUpload, RefuseUpload, FinishUpload
    <2>2. CASE CommitUpload(j)
        <3>1. row[j].status = "absent" /\ row' = [row EXCEPT ![j] = Accepted] /\ prompts' = prompts
            BY <2>2 DEF CommitUpload, AcceptJob
        <3>2. StageOf(j) = "absent" /\ StageOf(j)' = "waiting"
            <4>1. row'[j] = Accepted
                BY <1>T, <3>1
            <4> QED BY <3>1, <4>1, ConstantFields DEF StageOf
        <3>3. Ledger!Becomes(j, "waiting")
            BY <1>T, <3>1, <3>2, RowBecomes
        <3>4. Ledger!Accept(j)
            BY <3>2, <3>3 DEF Ledger!Accept
        <3> QED BY <3>4 DEF Ledger!LedgerNext
    <2> QED BY <1>3, <2>1, <2>2 DEF Upload
<1>4. ASSUME NEW j \in Jobs, Silent(j) PROVE UNCHANGED Ledger!ledgerVars
    BY <1>4, <1>U, SilentIsNoStep
<1>5. ASSUME NEW j \in Jobs, Reserve(j)
      PROVE  Ledger!LedgerNext \/ UNCHANGED Ledger!ledgerVars
    <2>1. CASE ~Reservable(j)
        BY <1>5, <1>U, <2>1 DEF Reserve
    <2>2. CASE Reservable(j)
        <3>1. row' = [row EXCEPT ![j].attempts = @ + 1] /\ prompts' = prompts
            BY <1>5, <2>2 DEF Reserve, ReserveSubmission
        <3>2. row'[j] = [row[j] EXCEPT !.attempts = row[j].attempts + 1]
              /\ \A k \in Jobs \ {j} : row'[k] = row[k]
            BY <1>T, <3>1
        <3>3. row'[j].status = "queued" /\ row'[j].attempts = 1
            <4>1. row[j] \in Job /\ row[j].attempts = 0 /\ row[j].status = "queued"
                BY <1>T, <2>2 DEF Reservable
            <4>2. row'[j] = [row[j] EXCEPT !.attempts = 1]
                BY <3>2, <4>1
            <4> QED BY <4>1, <4>2, ChangedFields
        <3>4. Ledger!Becomes(j, "reserved")
            <4>1. StageOf(j)' = "reserved"
                BY <3>3 DEF StageOf
            <4> QED BY <3>1, <3>2, <4>1, RowBecomes
        <3>5. StageOf(j) = "waiting"
            BY <2>2, StageFacts
        \* A job in the ledger's slot is in the slot, so it is the active one: j itself.
        <3>6. ASSUME NEW k \in Jobs, StageOf(k) \in {"reserved", "processing"} PROVE FALSE
            <4>1. InSlot(k)
                BY <3>6, StageFacts DEF InSlot, NonTerminal, RecordInv, BegunWasReserved
            <4>2. phase = "up" /\ active = j
                BY <1>5 DEF Reserve, Advancing, Holds, SlotInv, HolderOwnsSlot
            <4>3. k = j
                BY <4>1, <4>2 DEF SlotInv
            <4> QED BY <3>5, <3>6, <4>3
        <3>7. Ledger!Take(j)
            BY <3>4, <3>5, <3>6 DEF Ledger!Take, Ledger!InSlot
        <3> QED BY <3>7 DEF Ledger!LedgerNext
    <2> QED BY <2>1, <2>2
<1>6. ASSUME NEW j \in Jobs, SubmitAccepted(j) \/ SubmitAnswerLost(j) PROVE Ledger!LedgerNext
    BY <1>6, SendIsLedgerStep DEF SubmitAccepted, SubmitAnswerLost, GiveUp
\* The identifier is written into a row that is still queued.
<1>7. ASSUME NEW j \in Jobs, SaveHandle(j) PROVE UNCHANGED Ledger!ledgerVars
    <2>1. /\ row' = [row EXCEPT ![j] = [mem[j] EXCEPT !.seq = row[j].seq]] /\ prompts' = prompts
          /\ Advancing(j, "save")
        BY <1>7 DEF SaveHandle, UpdateJob
    <2>2. /\ mem[j].status = "queued" /\ row[j].status = "queued"
          /\ mem[j].attempts = row[j].attempts
        BY <1>H, <2>1 DEF HolderExpects
    <2>3. row'[j].status = "queued" /\ row'[j].attempts = row[j].attempts
        <3>1. row'[j] = [mem[j] EXCEPT !.seq = row[j].seq]
            BY <1>T, <2>1
        <3>2. mem[j] \in Job /\ row[j].seq \in Nat
            BY ObjectTypes, JobFields
        <3> QED BY <2>2, <3>1, <3>2, ChangedFields
    <2>4. \A k \in Jobs \ {j} : row'[k] = row[k]
        BY <1>T, <2>1
    <2> QED BY <2>1, <2>2, <2>3, <2>4, NotInLedger
<1>8. ASSUME NEW j \in Jobs, GiveUpCommit(j) \/ PersistCommit(j) \/ BridgeCommit(j) \/ CancelCommit(j)
      PROVE  Ledger!LedgerNext \/ UNCHANGED Ledger!ledgerVars
    <2>1. CASE GiveUpCommit(j)
        BY <1>P, <2>1 DEF GiveUpCommit
    <2>2. CASE PersistCommit(j)
        BY <1>P, <2>2 DEF PersistCommit
    <2>3. CASE BridgeCommit(j)
        BY <1>P, <2>3 DEF BridgeCommit
    <2>4. CASE CancelCommit(j)
        BY <1>P, <2>4 DEF CancelCommit
    <2> QED BY <1>8, <2>1, <2>2, <2>3, <2>4
<1>9. ASSUME NEW j \in Jobs, Recover(j)
      PROVE  Ledger!LedgerNext \/ UNCHANGED Ledger!ledgerVars
    <2>1. CASE Rehydrate(j)
        BY <1>U, <2>1 DEF Rehydrate
    <2>2. CASE FailQueued(j) \/ FailProcessing(j)
        BY <2>2, RecoveryIsLedgerStep DEF FailQueued, FailProcessing, NonTerminal
    <2>3. CASE ReportOrphan(j)
        <3>1. row' = [row EXCEPT ![j].seq = @ + 1] /\ prompts' = prompts
            BY <2>3 DEF ReportOrphan, AppendOrphanEvent
        <3>2. row'[j] = [row[j] EXCEPT !.seq = row[j].seq + 1]
              /\ \A k \in Jobs \ {j} : row'[k] = row[k]
            BY <1>T, <3>1
        <3>3. row[j] \in Job /\ row[j].seq + 1 \in Nat
            BY ObjectTypes, JobFields
        <3>4. row'[j].status = row[j].status /\ row'[j].attempts = row[j].attempts
            BY <3>2, <3>3, ChangedFields
        <3> QED BY <3>1, <3>2, <3>4, NotInLedger
    <2> QED BY <1>9, <2>1, <2>2, <2>3 DEF Recover
<1>10. CASE Crash \/ Restart \/ Serve
    BY <1>10, <1>U DEF Crash, Restart, Serve
<1>11. ASSUME NEW j \in Jobs, LockStep(j)
       PROVE  Ledger!LedgerNext \/ UNCHANGED Ledger!ledgerVars
    <2>1. \/ Silent(j) \/ Reserve(j) \/ SubmitAccepted(j) \/ SubmitAnswerLost(j) \/ SaveHandle(j)
          \/ GiveUpCommit(j) \/ PersistCommit(j) \/ BridgeCommit(j) \/ CancelCommit(j)
        BY <1>11 DEF LockStep, Submission, Inspection, Cancellation, Silent
    <2> QED BY <1>4, <1>5, <1>6, <1>7, <1>8, <2>1
<1> QED BY <1>0, <1>1, <1>2, <1>3, <1>9, <1>10, <1>11 DEF Next

\* Through failing writes, crashes and recovery, an accepted job is sent at most once,
\* while no other one is between its reservation and its end, and ends at most once.
THEOREM SystemImplementsLedger == Spec => LedgerKept
<1>1. Init => Ledger!LedgerInit
    <2> SUFFICES ASSUME Init PROVE Ledger!LedgerInit
        OBVIOUS
    <2>1. \A j \in Jobs : row[j] = Absent /\ prompts[j] = 0
        BY DEF Init, StoreInit, ServiceInit
    <2>2. \A j \in Jobs : StageOf(j) = "absent"
        BY <2>1, ConstantFields DEF StageOf
    <2>3. ASSUME NEW j \in Jobs PROVE (prompts[j] > 0) = FALSE
        <3>1. ~(prompts[j] > 0)
            BY <2>1
        <3> QED BY <3>1
    <2>4. [j \in Jobs |-> prompts[j] > 0] = [j \in Jobs |-> FALSE]
        BY <2>3, Zenon
    <2> QED BY <2>2, <2>4 DEF Ledger!LedgerInit
<1>2. TypeOK /\ TypeOK' /\ SubmissionInv /\ SubmissionInv' /\ SlotInv /\ RecordInv /\ [Next]_vars
        => [Ledger!LedgerNext]_(Ledger!ledgerVars)
    BY SystemLedgerStep
<1> QED BY <1>1, <1>2, TypeCorrect, SubmissionAlways, SlotAlways, RecordAlways, PTL
        DEF Spec, LedgerKept, Ledger!LedgerSpec

-------------------------------------------------------------------------------

\* A job whose end is not at stake in a step.
LEMMA EndStaysAgreed ==
    ASSUME NEW k, EndAgrees(k), told'[k] = told[k], crashes' = crashes,
           mem'[k].status = mem[k].status \/ ~IsTerminal(mem[k]),
           told[k] \in Terminal \cup {"nothing"},
           \/ row'[k].status = row[k].status /\ mem'[k].status = mem[k].status
           \/ row'[k].status \notin Terminal
           \/ row'[k].status = mem'[k].status
           \/ mem'[k].status = "absent" /\ crashes # 0
    PROVE  EndAgrees(k)'
BY DEF EndAgrees, Held, IsTerminal

\* The object a task works on has no other end than the row and what was told.
LEMMA ObjectEndAgrees ==
    ASSUME TypeOK, SubmissionInv, RecordInv, ToldInv, NEW j \in Jobs
    PROVE  /\ row[j].status \in Terminal => JobObject(j).status = row[j].status
           /\ crashes = 0 /\ told[j] # "nothing" => JobObject(j).status = told[j]
           /\ ~Held(j) => mem[j] = Absent /\ JobObject(j).status = row[j].status
<1>1. EndAgrees(j) /\ MemoryIsAhead(j)
    BY DEF ToldInv, RecordInv
<1>2. CASE Held(j)
    <2>1. JobObject(j) = mem[j]
        BY <1>2, ObjectAgrees
    <2> QED BY <1>1, <1>2, <2>1 DEF EndAgrees
<1>3. CASE ~Held(j)
    <2>1. mem[j] = Absent /\ mem[j].status = "absent"
        BY <1>1, <1>3 DEF MemoryIsAhead, Held
    <2>2. Loaded(j).status = row[j].status
        BY ObjectTypes, JobFields, ChangedFields DEF Loaded
    <2>3. JobObject(j).status = row[j].status
        BY <2>1, <2>2 DEF JobObject
    <2>4. told[j] \in Terminal \cup {"nothing"}
        BY DEF TypeOK, ServiceTypeOK
    <2> QED BY <1>1, <2>1, <2>3, <2>4 DEF EndAgrees, Terminal
<1> QED BY <1>2, <1>3

\* The process is up until its first crash.
LEMMA UpUntilCrash == Spec => [](crashes = 0 => phase = "up")
<1>1. Init => (crashes = 0 => phase = "up")
    BY DEF Init, ServiceInit
<1>2. TypeOK /\ (crashes = 0 => phase = "up") /\ [Next]_vars => (crashes = 0 => phase = "up")'
    <2> SUFFICES ASSUME TypeOK, crashes = 0 => phase = "up", [Next]_vars
                 PROVE  (crashes = 0 => phase = "up")'
        OBVIOUS
    <2>1. CASE UNCHANGED <<phase, crashes>>
        BY <2>1
    <2>2. CASE Crash \/ Restart \/ Serve
        BY <2>2 DEF Crash, Restart, Serve, TypeOK, ServiceTypeOK
    <2>3. CASE UNCHANGED vars
        BY <2>1, <2>3 DEF vars, lifeVars
    <2>4. CASE WorkerTick
        BY <2>1, <2>4 DEF WorkerTick, lifeVars
    <2>5. ASSUME NEW j \in Jobs, Poll(j) \/ AskCancel(j) \/ Upload(j)
          PROVE  UNCHANGED <<phase, crashes>>
        BY <2>5 DEF Poll, AskCancel, Upload, BeginUpload, CommitUpload, RefuseUpload,
            FinishUpload, lifeVars
    <2>6. ASSUME NEW j \in Jobs, LockStep(j)
          PROVE  UNCHANGED <<phase, crashes>>
        <3>1. CASE Submission(j)
            BY <3>1 DEF Submission, AdvanceTerminal, ClaimNothing, ClaimOther, ClaimOwn, Reserve,
                SubmitAccepted, SubmitRefused, SubmitAnswerLost, SaveHandle, FirstInspect,
                SubmissionRaises, GiveUpCommit, GiveUp, lifeVars
        <3>2. CASE Inspection(j)
            BY <3>2 DEF Inspection, InspectQueued, InspectProcessing, InspectSucceeded,
                InspectEnded, BridgeCommit, PersistCommit, InspectRaises, PersistRaises, lifeVars
        <3>3. CASE Cancellation(j)
            BY <3>3 DEF Cancellation, CancelStart, CancelRead, CancelCommit, CancelRaises, lifeVars
        <3> QED BY <2>6, <3>1, <3>2, <3>3 DEF LockStep
    <2>7. ASSUME NEW j \in Jobs, Recover(j)
          PROVE  UNCHANGED <<phase, crashes>>
        BY <2>7 DEF Recover, Rehydrate, FailQueued, FailProcessing, ReportOrphan,
            MarkRestartFailure, WriteRecovered, lifeVars
    <2> QED BY <2>1, <2>2, <2>3, <2>4, <2>5, <2>6, <2>7 DEF Next
<1> QED BY <1>1, <1>2, TypeCorrect, PTL DEF Spec

\* Every step keeps ToldInv.
LEMMA ToldStep ==
    ASSUME TypeOK, TypeOK', SubmissionInv, SlotInv, RecordInv, ToldInv,
           crashes = 0 => phase = "up", [Next]_vars
    PROVE  ToldInv'
<1> USE DEF storeVars, memoryVars, lifeVars
<1>T. /\ row \in [Jobs -> Job] /\ mem \in [Jobs -> Job] /\ active \in Jobs \cup {NoJob}
      /\ told \in [Jobs -> Terminal \cup {"nothing"}] /\ handles \subseteq Jobs
    BY DEF TypeOK, DispatcherTypeOK, StoreTypeOK, ServiceTypeOK
<1>N. \A k \in Jobs : /\ mem[k] \in Job /\ row[k] \in Job /\ EndAgrees(k)
                      /\ mem[k].status \in JobState \cup {"absent"}
    BY <1>T, JobFields DEF ToldInv
\* No object changes, and no row.
<1>S. ASSUME UNCHANGED <<row, mem, told, crashes>> PROVE ToldInv'
    <2> SUFFICES ASSUME NEW k \in Jobs PROVE EndAgrees(k)'
        BY DEF ToldInv
    <2> QED BY <1>N, <1>S, <1>T, EndStaysAgreed
\* A step that works on j, which has not ended, or ends with the write.
<1>W. ASSUME NEW j \in Jobs,
             \A k \in Jobs \ {j} : mem'[k] = mem[k] /\ row'[k] = row[k],
             mem'[j].status = mem[j].status \/ ~IsTerminal(mem[j]),
             \/ row'[j].status \notin Terminal
             \/ row'[j].status = mem'[j].status
             \/ mem'[j].status = "absent" /\ crashes # 0,
             UNCHANGED <<told, crashes>>
      PROVE  ToldInv'
    <2> SUFFICES ASSUME NEW k \in Jobs PROVE EndAgrees(k)'
        BY DEF ToldInv
    <2>1. CASE k = j
        BY <1>N, <1>T, <1>W, <2>1, EndStaysAgreed
    <2>2. CASE k # j
        BY <1>N, <1>T, <1>W, <2>2, EndStaysAgreed
    <2> QED BY <2>1, <2>2
\* A step that only changes the object of j, which has not ended.
<1>C. ASSUME NEW j \in Jobs, mem[j].status \in NonTerminal,
             \A k \in Jobs \ {j} : mem'[k] = mem[k],
             UNCHANGED <<row, told, crashes>>
      PROVE  ToldInv'
    <2>1. row[j].status \notin Terminal
        BY <1>C DEF RecordInv, MemoryIsAhead, NonTerminal, Terminal
    <2>2. ~IsTerminal(mem[j])
        BY <1>C DEF IsTerminal, NonTerminal, Terminal
    <2> QED BY <1>C, <1>W, <2>1, <2>2
\* What the holder of the lock knows.
<1>H. ASSUME NEW j, NEW step, Advancing(j, step) \/ Cancelling(j, step)
      PROVE  at = step /\ line # <<>> /\ Head(line).job = j /\ HolderExpects(j)
    BY <1>H DEF Advancing, Cancelling, Holds, RecordInv
<1>I. ASSUME NEW j \in Jobs, Inspecting(j) PROVE mem[j].status \in NonTerminal
    BY <1>I, <1>N DEF Inspecting, SubmissionInv, Held, IsTerminal, JobState
<1>0. CASE UNCHANGED vars
    BY <1>0, <1>S DEF vars
<1>1. CASE WorkerTick
    <2>0. (IF active # NoJob THEN active ELSE Head(queue)) \in Jobs
        BY <1>1 DEF WorkerTick, TypeOK, DispatcherTypeOK
    <2>1. PICK j \in Jobs : /\ j = IF active # NoJob THEN active ELSE Head(queue)
                            /\ mem' = [mem EXCEPT ![j] = JobObject(j)]
        BY <1>1, <2>0 DEF WorkerTick
    <2>2. Held(j)
        BY <1>1, <2>1 DEF WorkerTick, SubmissionInv, TypeOK, DispatcherTypeOK
    <2>3. mem' = mem
        BY <1>T, <2>1, <2>2, ObjectAgrees
    <2> QED BY <1>1, <1>S, <2>3 DEF WorkerTick
<1>3. ASSUME NEW j \in Jobs, AskCancel(j) PROVE ToldInv'
    BY <1>3, <1>S DEF AskCancel
<1>4. ASSUME NEW j \in Jobs, BeginUpload(j) \/ RefuseUpload(j) PROVE ToldInv'
    BY <1>4, <1>S DEF BeginUpload, RefuseUpload
<1>5. ASSUME NEW j \in Jobs, CommitUpload(j) PROVE ToldInv'
    <2>1. row' = [row EXCEPT ![j] = Accepted] /\ UNCHANGED <<mem, told, crashes>>
        BY <1>5 DEF CommitUpload, AcceptJob
    <2>2. row'[j].status = "queued"
        BY <1>T, <2>1, ConstantFields
    <2> QED BY <1>T, <1>W, <2>1, <2>2 DEF Terminal
<1>6. ASSUME NEW j \in Jobs, FinishUpload(j) PROVE ToldInv'
    <2>1. /\ creating[j] = "accepted" /\ mem' = [mem EXCEPT ![j] = Accepted]
          /\ UNCHANGED <<row, told, crashes>>
        BY <1>6 DEF FinishUpload
    <2>2. ~Held(j) /\ row[j] = Accepted
        BY <2>1 DEF RecordInv, BegunWasReserved, SubmissionInv
    <2>3. ~IsTerminal(mem[j]) /\ row[j].status \notin Terminal
        BY <2>2, ConstantFields DEF Held, IsTerminal, Terminal
    <2>4. \A k \in Jobs \ {j} : mem'[k] = mem[k] /\ row'[k] = row[k]
        BY <1>T, <2>1
    <2>5. row'[j].status \notin Terminal
        BY <2>1, <2>3
    <2> QED BY <1>W, <2>1, <2>3, <2>4, <2>5
\* The holder gives the lock back, or waits, and touches no object and no row.
<1>7. ASSUME NEW j \in Jobs,
             \/ AdvanceTerminal(j) \/ ClaimNothing(j) \/ ClaimOther(j) \/ ClaimOwn(j)
             \/ FirstInspect(j) \/ InspectQueued(j) \/ InspectRaises(j)
             \/ PersistRaises(j) \/ CancelRaises(j)
      PROVE  ToldInv'
    <2>1. CASE AdvanceTerminal(j) \/ ClaimNothing(j) \/ ClaimOther(j) \/ ClaimOwn(j)
        BY <1>S, <2>1 DEF AdvanceTerminal, ClaimNothing, ClaimOther, ClaimOwn
    <2>2. CASE FirstInspect(j) \/ InspectQueued(j) \/ InspectRaises(j)
        BY <1>S, <2>2 DEF FirstInspect, InspectQueued, InspectRaises
    <2>3. CASE PersistRaises(j) \/ CancelRaises(j)
        BY <1>S, <2>3 DEF PersistRaises, CancelRaises
    <2> QED BY <1>7, <2>1, <2>2, <2>3
\* A reservation: the job is queued in memory.
<1>8. ASSUME NEW j \in Jobs, Reserve(j) PROVE ToldInv'
    <2>1. CASE ~Reservable(j)
        BY <1>8, <1>S, <2>1 DEF Reserve
    <2>2. CASE Reservable(j)
        <3>1. /\ row' = [row EXCEPT ![j].attempts = @ + 1] /\ mem' = [mem EXCEPT ![j].attempts = 1]
              /\ UNCHANGED <<told, crashes>> /\ Advancing(j, "reserve")
            BY <1>8, <2>2 DEF Reserve, ReserveSubmission
        <3>2. mem[j].status = "queued"
            BY <1>H, <3>1 DEF HolderExpects
        <3>3. row'[j].status = "queued"
            <4>1. row[j] \in Job /\ row[j].attempts = 0 /\ row[j].status = "queued"
                BY <1>T, <2>2 DEF Reservable
            <4>2. row'[j] = [row[j] EXCEPT !.attempts = 1]
                BY <1>T, <3>1, <4>1
            <4> QED BY <4>1, <4>2, ChangedFields
        <3>4. \A k \in Jobs \ {j} : mem'[k] = mem[k] /\ row'[k] = row[k]
            BY <1>T, <3>1
        <3>5. row'[j].status \notin Terminal /\ ~IsTerminal(mem[j])
            BY <3>2, <3>3 DEF IsTerminal, Terminal
        <3> QED BY <1>W, <3>1, <3>4, <3>5
    <2> QED BY <2>1, <2>2
<1>9. ASSUME NEW j \in Jobs, SubmitAccepted(j) PROVE ToldInv'
    <2>1. /\ mem' = [mem EXCEPT ![j].engine = TRUE] /\ Advancing(j, "submit")
          /\ UNCHANGED <<row, told, crashes>>
        BY <1>9 DEF SubmitAccepted
    <2>2. mem[j].status \in NonTerminal
        BY <1>H, <2>1 DEF HolderExpects, NonTerminal
    <2> QED BY <1>C, <1>T, <2>1, <2>2
<1>10. ASSUME NEW j \in Jobs, SubmitRefused(j) \/ SubmitAnswerLost(j) \/ SubmissionRaises(j)
       PROVE  ToldInv'
    <2>1. GiveUp(j) /\ \E step \in {"reserve", "submit", "save", "first"} : Advancing(j, step)
        BY <1>10 DEF SubmitRefused, SubmitAnswerLost, SubmissionRaises
    <2>2. mem[j].status \in NonTerminal
        BY <1>H, <2>1 DEF HolderExpects, NonTerminal
    <2>3. /\ mem' = [mem EXCEPT ![j] = Transitioned(@, "failed")]
          /\ UNCHANGED <<row, told, crashes>>
        BY <2>1 DEF GiveUp
    <2> QED BY <1>C, <1>T, <2>2, <2>3
<1>11. ASSUME NEW j \in Jobs, SaveHandle(j) PROVE ToldInv'
    <2>1. /\ row' = [row EXCEPT ![j] = [mem[j] EXCEPT !.seq = row[j].seq]]
          /\ Advancing(j, "save") /\ UNCHANGED <<mem, told, crashes>>
        BY <1>11 DEF SaveHandle, UpdateJob
    <2>2. row'[j].status = mem[j].status
        <3>1. row'[j] = [mem[j] EXCEPT !.seq = row[j].seq]
            BY <1>T, <2>1
        <3>2. mem[j] \in Job /\ row[j].seq \in Nat
            BY ObjectTypes, JobFields
        <3> QED BY <3>1, <3>2, ChangedFields
    <2>3. \A k \in Jobs \ {j} : mem'[k] = mem[k] /\ row'[k] = row[k]
        BY <1>T, <2>1
    <2> QED BY <1>W, <2>1, <2>2, <2>3
<1>12. ASSUME NEW j \in Jobs, InspectProcessing(j) \/ InspectSucceeded(j) \/ InspectEnded(j)
       PROVE  ToldInv'
    <2>1. mem[j].status \in NonTerminal
        BY <1>12, <1>I DEF InspectProcessing, InspectSucceeded, InspectEnded
    <2>2. /\ \A k \in Jobs \ {j} : mem'[k] = mem[k]
          /\ UNCHANGED <<row, told, crashes>>
        <3>1. CASE InspectProcessing(j)
            BY <1>T, <3>1 DEF InspectProcessing
        <3>2. CASE InspectSucceeded(j) \/ InspectEnded(j)
            BY <1>T, <3>2 DEF InspectSucceeded, InspectEnded, Change
        <3> QED BY <1>12, <3>1, <3>2
    <2> QED BY <1>C, <2>1, <2>2
<1>13. ASSUME NEW j \in Jobs, BridgeCommit(j) PROVE ToldInv'
    <2>1. /\ row' = [row EXCEPT ![j] = mem[j]]
          /\ mem' = [mem EXCEPT ![j] = Transitioned(@, "completed")]
          /\ Advancing(j, "bridge") /\ UNCHANGED <<told, crashes>>
        BY <1>13 DEF BridgeCommit, PersistTransition, Change
    <2>2. mem[j].status = "processing"
        BY <1>H, <2>1 DEF HolderExpects
    <2>3. row'[j] = mem[j] /\ \A k \in Jobs \ {j} : mem'[k] = mem[k] /\ row'[k] = row[k]
        BY <1>T, <2>1
    <2>4. row'[j].status \notin Terminal /\ ~IsTerminal(mem[j])
        BY <2>2, <2>3 DEF IsTerminal, Terminal
    <2>5. UNCHANGED <<told, crashes>>
        BY <2>1
    <2> QED BY <1>W, <2>3, <2>4, <2>5
\* The row takes over what memory holds.
<1>14. ASSUME NEW j \in Jobs, PersistCommit(j) \/ GiveUpCommit(j) PROVE ToldInv'
    <2>1. /\ row' = [row EXCEPT ![j] = mem[j]]
          /\ UNCHANGED <<mem, told, crashes>>
        BY <1>14 DEF PersistCommit, GiveUpCommit, PersistTransition
    <2>2. row'[j] = mem[j] /\ \A k \in Jobs \ {j} : row'[k] = row[k]
        BY <1>T, <2>1
    <2> QED BY <1>W, <2>1, <2>2
<1>15. ASSUME NEW j \in Jobs, CancelCommit(j) PROVE ToldInv'
    <2>1. /\ row' = [row EXCEPT ![j] = mem[j]] /\ told' = [told EXCEPT ![j] = "cancelled"]
          /\ Cancelling(j, "cancelPersist") /\ UNCHANGED <<mem, crashes>>
        BY <1>15 DEF CancelCommit, PersistTransition
    <2>2. mem[j].status = "cancelled"
        BY <1>H, <2>1 DEF HolderExpects
    <2>3. /\ row'[j] = mem[j] /\ told'[j] = "cancelled"
          /\ \A k \in Jobs \ {j} : row'[k] = row[k] /\ told'[k] = told[k]
        BY <1>T, <2>1
    <2>4. EndAgrees(j)'
        BY <2>1, <2>2, <2>3 DEF EndAgrees
    <2>5. ASSUME NEW k \in Jobs \ {j} PROVE EndAgrees(k)'
        BY <1>N, <1>T, <2>1, <2>3, EndStaysAgreed
    <2> QED BY <2>4, <2>5 DEF ToldInv
\* A poll shows what the object says.
<1>16. ASSUME NEW j \in Jobs, Poll(j) PROVE ToldInv'
    <2>1. CASE ~IsTerminal(JobObject(j))
        BY <1>16, <1>S, <2>1 DEF Poll
    <2>2. CASE IsTerminal(JobObject(j))
        <3>1. told' = [told EXCEPT ![j] = JobObject(j).status] /\ UNCHANGED <<row, mem, crashes>>
            BY <1>16, <2>2 DEF Poll
        <3>2. /\ told'[j] = JobObject(j).status
              /\ \A k \in Jobs \ {j} : told'[k] = told[k]
            BY <1>T, <3>1
        <3>3. crashes = 0 => mem[j].status = JobObject(j).status
            <4>1. CASE Held(j)
                BY <4>1, ObjectAgrees
            \* Only a crash takes an ended job out of memory.
            <4>2. CASE ~Held(j)
                BY <1>N, <2>2, <4>2, ObjectEndAgrees DEF EndAgrees, IsTerminal
            <4> QED BY <4>1, <4>2
        <3>4. EndAgrees(j)'
            BY <1>N, <3>1, <3>2, <3>3 DEF EndAgrees, Held
        <3>5. ASSUME NEW k \in Jobs \ {j} PROVE EndAgrees(k)'
            BY <1>N, <1>T, <3>1, <3>2, EndStaysAgreed
        <3> QED BY <3>4, <3>5 DEF ToldInv
    <2> QED BY <2>1, <2>2

<1>17. ASSUME NEW j \in Jobs, CancelStart(j) PROVE ToldInv'
    <2>1. /\ mem' = [mem EXCEPT ![j] = JobObject(j)]
          /\ UNCHANGED <<row, crashes>>
        BY <1>17 DEF CancelStart
    <2>2. mem'[j] = JobObject(j) /\ \A k \in Jobs \ {j} : mem'[k] = mem[k]
        BY <1>T, <2>1
    <2>3. /\ \A k \in Jobs \ {j} : told'[k] = told[k]
          /\ told'[j] = told[j] \/ told'[j] = JobObject(j).status
        BY <1>17, <1>T DEF CancelStart
    <2>4. EndAgrees(j)'
        BY <2>1, <2>2, <2>3, ObjectEndAgrees DEF EndAgrees
    <2>5. ASSUME NEW k \in Jobs \ {j} PROVE EndAgrees(k)'
        BY <1>N, <1>T, <2>1, <2>2, <2>3, EndStaysAgreed
    <2> QED BY <2>4, <2>5 DEF ToldInv
<1>18. ASSUME NEW j \in Jobs, CancelRead(j) PROVE ToldInv'
    <2>1. /\ \A k \in Jobs \ {j} : mem'[k] = mem[k]
          /\ Cancelling(j, "cancelRead") /\ UNCHANGED <<row, told, crashes>>
        BY <1>18, <1>T DEF CancelRead
    <2>2. mem[j].status \in NonTerminal
        BY <1>H, <2>1 DEF HolderExpects, NonTerminal
    <2> QED BY <1>C, <2>1, <2>2
\* Recovery works on a job that is not in memory.
<1>R. ASSUME NEW j \in Jobs, Recovering(j)
      PROVE  mem[j].status = "absent" /\ crashes # 0
    <2>1. phase = "recovering" /\ j \in todo
        BY <1>R DEF Recovering
    <2>2. ~Held(j)
        BY <2>1 DEF RecordInv, MemoryIsAhead
    <2> QED BY <2>1, <2>2 DEF Held
<1>19. ASSUME NEW j \in Jobs, Rehydrate(j) PROVE ToldInv'
    <2>1. /\ Recovering(j) /\ row[j].status = "queued"
          /\ mem' = [mem EXCEPT ![j] = [Loaded(j) EXCEPT !.seq = LastSequence(j)]]
          /\ UNCHANGED <<row, told, crashes>>
        BY <1>19 DEF Rehydrate
    <2>2. \A k \in Jobs \ {j} : mem'[k] = mem[k] /\ row'[k] = row[k]
        BY <1>T, <2>1
    <2>3. ~IsTerminal(mem[j]) /\ row'[j].status \notin Terminal
        BY <1>R, <2>1 DEF IsTerminal, Terminal
    <2>4. UNCHANGED <<told, crashes>>
        BY <2>1
    <2> QED BY <1>W, <2>2, <2>3, <2>4
<1>20. ASSUME NEW j \in Jobs, FailQueued(j) \/ FailProcessing(j) \/ ReportOrphan(j) PROVE ToldInv'
    <2>1. Recovering(j) /\ UNCHANGED <<mem, told, crashes>>
        BY <1>20 DEF FailQueued, FailProcessing, ReportOrphan, MarkRestartFailure, WriteRecovered
    <2>2. \A k \in Jobs \ {j} : row'[k] = row[k]
        BY <1>20, <1>T DEF FailQueued, FailProcessing, ReportOrphan, MarkRestartFailure,
            WriteRecovered, PersistTransition, AppendOrphanEvent
    <2>3. mem[j].status = "absent" /\ crashes # 0
        BY <1>R, <2>1
    <2> QED BY <1>W, <2>1, <2>2, <2>3
\* A crash takes every object, and with it the ends that are not durable.
<1>21. CASE Crash
    <2>1. crashes' # 0 /\ \A k \in Jobs : mem'[k].status = "absent"
        BY <1>21, ConstantFields DEF Crash, TypeOK, ServiceTypeOK
    <2> QED BY <2>1 DEF ToldInv, EndAgrees, Held
<1>22. CASE Restart \/ Serve
    BY <1>22, <1>S DEF Restart, Serve
<1>23. ASSUME NEW j \in Jobs, LockStep(j) PROVE ToldInv'
    BY <1>7, <1>8, <1>9, <1>10, <1>11, <1>12, <1>13, <1>14, <1>15, <1>17, <1>18, <1>23
    DEF LockStep, Submission, Inspection, Cancellation
<1>24. ASSUME NEW j \in Jobs, Upload(j) \/ Recover(j) PROVE ToldInv'
    BY <1>4, <1>5, <1>6, <1>19, <1>20, <1>24 DEF Upload, Recover
<1> QED BY <1>0, <1>1, <1>3, <1>16, <1>21, <1>22, <1>23, <1>24 DEF Next

\* ToldInv holds always.
LEMMA ToldAlways == Spec => []ToldInv
<1>1. Init => ToldInv
    BY ConstantFields DEF Init, StoreInit, ServiceInit, ToldInv, EndAgrees, Held, Terminal
<1> QED BY <1>1, ToldStep, UpUntilCrash, RecordAlways, SubmissionAlways, SlotAlways, TypeCorrect,
           PTL DEF Spec

\* Only a poll and a cancellation tell a client of an end, and they tell what the object
\* or the row says.
LEMMA TellingStep ==
    ASSUME TypeOK, SubmissionInv, RecordInv, ToldInv, NEW j \in Jobs, [Next]_vars,
           told'[j] # told[j]
    PROVE  \/ told'[j] = JobObject(j).status
           \/ told'[j] = "cancelled" /\ mem[j].status = "cancelled" /\ row[j].status = "queued"
<1>T. told \in [Jobs -> Terminal \cup {"nothing"}]
    BY DEF TypeOK, ServiceTypeOK
<1>1. ~UNCHANGED told
    OBVIOUS
<1>2. ASSUME NEW k \in Jobs, Poll(k) PROVE told'[j] = JobObject(j).status
    BY <1>2, <1>T DEF Poll
<1>3. ASSUME NEW k \in Jobs, CancelStart(k) PROVE told'[j] = JobObject(j).status
    BY <1>3, <1>T DEF CancelStart
<1>4. ASSUME NEW k \in Jobs, CancelCommit(k)
      PROVE  told'[j] = "cancelled" /\ mem[j].status = "cancelled" /\ row[j].status = "queued"
    <2>1. /\ told' = [told EXCEPT ![k] = "cancelled"]
          /\ line # <<>> /\ Head(line).job = k /\ at = "cancelPersist"
        BY <1>4 DEF CancelCommit, Cancelling, Holds
    <2>2. k = j /\ told'[j] = "cancelled"
        BY <1>T, <2>1
    <2> QED BY <2>1, <2>2 DEF RecordInv, HolderExpects
<1>5. ASSUME NEW k \in Jobs, Upload(k) \/ AskCancel(k) \/ Recover(k) PROVE UNCHANGED told
    BY <1>5 DEF AskCancel, Upload, BeginUpload, CommitUpload, RefuseUpload, FinishUpload,
        Recover, Rehydrate, FailQueued, FailProcessing, ReportOrphan, MarkRestartFailure,
        WriteRecovered
<1>6. ASSUME NEW k \in Jobs, Submission(k) PROVE UNCHANGED told
    BY <1>6 DEF Submission, AdvanceTerminal, ClaimNothing, ClaimOther, ClaimOwn, Reserve,
        SubmitAccepted, SubmitRefused, SubmitAnswerLost, SaveHandle, FirstInspect,
        SubmissionRaises, GiveUpCommit, GiveUp
<1>7. ASSUME NEW k \in Jobs, Inspection(k) PROVE UNCHANGED told
    BY <1>7 DEF Inspection, InspectQueued, InspectProcessing, InspectSucceeded, InspectEnded,
        BridgeCommit, PersistCommit, InspectRaises, PersistRaises
<1>8. ASSUME NEW k \in Jobs, CancelRead(k) \/ CancelRaises(k) PROVE UNCHANGED told
    BY <1>8 DEF CancelRead, CancelRaises
<1>9. CASE WorkerTick \/ Crash \/ Restart \/ Serve
    BY <1>1, <1>9 DEF WorkerTick, Crash, Restart, Serve
<1>10. CASE UNCHANGED vars
    BY <1>1, <1>10 DEF vars
<1> QED BY <1>1, <1>2, <1>3, <1>4, <1>5, <1>6, <1>7, <1>8, <1>9, <1>10
        DEF Next, LockStep, Cancellation

\* An end that a client was shown is never followed by another one, except when it was
\* not durable and a crash took it back.
THEOREM ToldEndsHold == Spec => ToldEndHolds
<1>1. ASSUME TypeOK, SubmissionInv, RecordInv, ToldInv, [Next]_vars, NEW j \in Jobs,
             told[j] # "nothing", told'[j] # told[j]
      PROVE  crashes > 0 /\ row[j].status # told[j]
    <2>1. crashes \in Nat /\ told[j] \in Terminal
        BY <1>1 DEF TypeOK, ServiceTypeOK
    <2>2. row[j].status \in Terminal => JobObject(j).status = row[j].status
        BY <1>1, ObjectEndAgrees
    <2>3. crashes = 0 => JobObject(j).status = told[j] /\ mem[j].status = told[j]
        BY <1>1, ObjectEndAgrees DEF ToldInv, EndAgrees
    <2>4. CASE told'[j] = JobObject(j).status
        BY <1>1, <2>1, <2>2, <2>3, <2>4
    <2>5. CASE told'[j] = "cancelled" /\ mem[j].status = "cancelled" /\ row[j].status = "queued"
        BY <1>1, <2>1, <2>3, <2>5 DEF Terminal
    <2> QED BY <1>1, <2>4, <2>5, TellingStep
<1>2. TypeOK /\ SubmissionInv /\ RecordInv /\ ToldInv /\ [Next]_vars =>
          [\A j \in Jobs : told[j] # "nothing" /\ told'[j] # told[j] =>
               crashes > 0 /\ row[j].status # told[j]]_vars
    BY <1>1
<1> QED BY <1>2, ToldAlways, RecordAlways, SubmissionAlways, TypeCorrect, PTL
        DEF Spec, ToldEndHolds

-------------------------------------------------------------------------------
(* First come, first served *)

\* What is left of the queue after its head, or one job, was taken is in the old order.
LEMMA RestInOrder ==
    ASSUME NEW q \in Seq(Jobs), NEW r, NEW e,
           (q # <<>> /\ r = Tail(q)) \/ r = RemoveFirst(q, e)
    PROVE  \E f \in [DOMAIN r -> DOMAIN q] :
               /\ \A m \in DOMAIN r : r[m] = q[f[m]]
               /\ \A m, n \in DOMAIN r : f[m] < f[n] => m < n
<1>1. CASE q # <<>> /\ r = Tail(q)
    <2> DEFINE f == [m \in DOMAIN r |-> m + 1]
    <2>1. f \in [DOMAIN r -> DOMAIN q]
        BY <1>1
    <2>2. \A m \in DOMAIN r : r[m] = q[f[m]]
        BY <1>1
    <2>3. \A m, n \in DOMAIN r : f[m] < f[n] => m < n
        BY <1>1
    <2> HIDE DEF f
    <2> QED BY <2>1, <2>2, <2>3
<1>2. CASE r = q
    <2> DEFINE f == [m \in DOMAIN q |-> m]
    <2>1. /\ f \in [DOMAIN r -> DOMAIN q]
          /\ \A m \in DOMAIN r : r[m] = q[f[m]]
          /\ \A m, n \in DOMAIN r : f[m] < f[n] => m < n
        BY <1>2
    <2> HIDE DEF f
    <2> QED BY <2>1
<1>3. ASSUME NEW p \in 1 .. Len(q), r \in Seq(Jobs), Len(r) = Len(q) - 1,
             \A i \in 1 .. Len(r) : r[i] = IF i < p THEN q[i] ELSE q[i + 1]
      PROVE  \E f \in [DOMAIN r -> DOMAIN q] :
                 /\ \A m \in DOMAIN r : r[m] = q[f[m]]
                 /\ \A m, n \in DOMAIN r : f[m] < f[n] => m < n
    <2> DEFINE f == [m \in DOMAIN r |-> IF m < p THEN m ELSE m + 1]
    <2>0. DOMAIN r = 1 .. Len(r) /\ DOMAIN q = 1 .. Len(q) /\ Len(q) \in Nat
        BY <1>3
    <2>1. f \in [DOMAIN r -> DOMAIN q]
        BY <1>3, <2>0
    <2>2. \A m \in DOMAIN r : r[m] = q[f[m]]
        BY <1>3, <2>0
    <2>3. \A m \in DOMAIN r : m \in Nat /\ f[m] = IF m < p THEN m ELSE m + 1
        BY <1>3, <2>0
    <2> HIDE DEF f
    <2>4. \A m, n \in DOMAIN r : f[m] < f[n] => m < n
        BY <2>3
    <2> QED BY <2>1, <2>2, <2>4
<1>4. CASE r = RemoveFirst(q, e)
    <2>1. \/ r = q /\ \A i \in DOMAIN q : q[i] # e
          \/ \E p \in 1 .. Len(q) :
                 /\ q[p] = e
                 /\ r \in Seq(Jobs)
                 /\ Len(r) = Len(q) - 1
                 /\ \A i \in 1 .. Len(r) : r[i] = IF i < p THEN q[i] ELSE q[i + 1]
        BY <1>4, RemoveFirstShape
    <2>2. CASE r = q
        BY <1>2, <2>2
    <2>3. CASE r # q
        <3>1. PICK p \in 1 .. Len(q) :
                  /\ r \in Seq(Jobs)
                  /\ Len(r) = Len(q) - 1
                  /\ \A i \in 1 .. Len(r) : r[i] = IF i < p THEN q[i] ELSE q[i + 1]
            BY <2>1, <2>3, Zenon
        <3> QED BY <1>3, <3>1
    <2> QED BY <2>2, <2>3
<1> QED BY <1>1, <1>4

\* A step that leaves the queue and the uploads' order alone.
LEMMA OrderKept ==
    ASSUME OrderInv, NoJob \notin Jobs,
           UNCHANGED <<queue, arrivals, preceding>>,
           active' = active \/ active' = NoJob,
           \A k \in Jobs : creating'[k] = creating[k]
                           \/ (creating[k] # "known" /\ creating'[k] # "idle"),
           \A k \in Jobs : preceding[k] \subseteq Jobs,
           phase' = "recovering" => phase = "recovering" /\ todo' \subseteq todo,
           phase' = "down" => phase = "down"
    PROVE  OrderInv'
<1>1. ASSUME NEW j \in Jobs, NEW k \in preceding'[j] PROVE k # j /\ Precedes(k, j)'
    <2>1. k \in Jobs /\ k # j /\ Precedes(k, j) /\ active' = j => active = j
        BY <1>1 DEF OrderInv
    <2> QED BY <2>1 DEF Precedes, QueuedBefore, OrderInv
<1>2. ASSUME NEW j \in Jobs, creating'[j] = "idle"
      PROVE  j \notin ToSet(arrivals') /\ preceding'[j] = {}
    BY <1>2 DEF OrderInv
<1>3. phase' = "down" => queue' = <<>>
    BY DEF OrderInv
<1> QED BY <1>1, <1>2, <1>3 DEF OrderInv

\* A step after which nothing waits.
LEMMA OrderWhenEmpty ==
    ASSUME OrderInv, NoJob \notin Jobs,
           queue' = <<>>, active' = NoJob, UNCHANGED <<arrivals, preceding>>,
           \A k \in Jobs : creating'[k] = creating[k]
                           \/ (creating[k] # "known" /\ creating'[k] # "idle"),
           \A k \in Jobs : preceding[k] \subseteq Jobs
    PROVE  OrderInv'
<1>1. DOMAIN queue' = {} /\ ToSet(queue') = {}
    BY DEF ToSet
<1>2. ASSUME NEW j \in Jobs, NEW k \in preceding'[j] PROVE k # j /\ Precedes(k, j)'
    <2>1. k \in Jobs /\ k # j /\ Precedes(k, j)
        BY <1>2 DEF OrderInv
    <2> QED BY <1>1, <2>1 DEF Precedes, QueuedBefore
<1>3. ASSUME NEW j \in Jobs, creating'[j] = "idle"
      PROVE  j \notin ToSet(arrivals') /\ preceding'[j] = {}
    BY <1>3 DEF OrderInv
<1> QED BY <1>2, <1>3 DEF OrderInv

\* A step that takes a job out of the queue; what it makes active was the head.
LEMMA OrderShrinks ==
    ASSUME OrderInv, queue \in Seq(Jobs), phase = "up", NEW e,
           (queue # <<>> /\ queue' = Tail(queue)) \/ queue' = RemoveFirst(queue, e),
           active' = active \/ (queue # <<>> /\ queue' = Tail(queue) /\ active' = Head(queue)),
           UNCHANGED <<arrivals, preceding, creating, phase>>
    PROVE  OrderInv'
<1>1. PICK f \in [DOMAIN queue' -> DOMAIN queue] :
          /\ \A m \in DOMAIN queue' : queue'[m] = queue[f[m]]
          /\ \A m, n \in DOMAIN queue' : f[m] < f[n] => m < n
    BY RestInOrder
<1>2. ToSet(queue') \subseteq ToSet(queue)
    BY <1>1 DEF ToSet
<1>3. ASSUME NEW j \in Jobs, NEW k \in preceding[j] PROVE k # j /\ Precedes(k, j)'
    <2>1. k # j /\ Precedes(k, j)
        BY <1>3 DEF OrderInv
    <2>2. \A m, n \in DOMAIN queue' : queue'[m] = k /\ queue'[n] = j => m < n
        <3> TAKE m, n \in DOMAIN queue'
        <3> HAVE queue'[m] = k /\ queue'[n] = j
        <3>1. f[m] \in DOMAIN queue /\ f[n] \in DOMAIN queue
            BY <1>1
        <3>2. queue[f[m]] = k /\ queue[f[n]] = j
            BY <1>1
        <3>3. f[m] < f[n]
            BY <2>1, <3>1, <3>2 DEF Precedes
        <3> QED BY <1>1, <3>3
    <2>3. active' = j => k \notin ToSet(queue')
        <3>1. CASE active' = active
            BY <1>2, <2>1, <3>1 DEF Precedes
        <3>2. CASE queue # <<>> /\ queue' = Tail(queue) /\ active' = Head(queue)
            <4> SUFFICES ASSUME Head(queue) = j, NEW m \in DOMAIN queue', queue'[m] = k
                         PROVE  FALSE
                BY <3>2 DEF ToSet
            <4>1. /\ Head(queue) = queue[1] /\ 1 \in DOMAIN queue
                  /\ m + 1 \in DOMAIN queue /\ queue[m + 1] = k /\ m \in Nat \ {0}
                BY <3>2
            <4>2. m + 1 < 1
                BY <2>1, <4>1 DEF Precedes
            <4> QED BY <4>1, <4>2
        <3> QED BY <3>1, <3>2
    <2>4. creating'[k] = "known" /\ ~QueuedBefore(j, k)' /\ phase' # "recovering"
        BY <2>1 DEF Precedes, QueuedBefore
    <2> QED BY <2>1, <2>2, <2>3, <2>4 DEF Precedes
<1>4. phase' # "down"
    OBVIOUS
<1>5. \A j \in Jobs : creating'[j] = "idle" => j \notin ToSet(arrivals') /\ preceding'[j] = {}
    BY DEF OrderInv
<1> QED BY <1>3, <1>4, <1>5 DEF OrderInv

\* A step that puts j behind the jobs that wait; none of them was to wait for it.
LEMMA OrderGrows ==
    ASSUME OrderInv, queue \in Seq(Jobs), NEW j \in Jobs, Enqueue(j),
           UNCHANGED <<arrivals, preceding, phase>>, phase # "down",
           \A i \in Jobs : j \in preceding[i] => i \notin ToSet(queue) /\ i # active,
           \A k \in preceding[j] : phase = "recovering" => k \notin todo',
           \A k \in Jobs : creating'[k] = creating[k]
                           \/ (creating[k] # "known" /\ creating'[k] # "idle"),
           \A k \in Jobs : preceding[k] \subseteq Jobs,
           todo' \subseteq todo
    PROVE  OrderInv'
<1>1. CASE queue' = queue
    BY <1>1, OrderKept, NoJobAssumption DEF Enqueue
<1>2. CASE queue' # queue
    <2>1. queue' = Append(queue, j) /\ active' = active /\ j # active
        BY <1>2 DEF Enqueue
    <2>2. /\ \A m \in DOMAIN queue' : \/ m = Len(queue) + 1 /\ queue'[m] = j
                                      \/ m \in DOMAIN queue /\ queue'[m] = queue[m]
          /\ ToSet(queue') = ToSet(queue) \cup {j}
        BY <2>1, AppendedElements, GrownSet
    <2>3. ASSUME NEW i \in Jobs, NEW k \in preceding[i] PROVE k # i /\ Precedes(k, i)'
        <3>1. k # i /\ k \in Jobs /\ Precedes(k, i)
            BY <2>3 DEF OrderInv
        <3>2. \A m, n \in DOMAIN queue' : queue'[m] = k /\ queue'[n] = i => m < n
            <4> TAKE m, n \in DOMAIN queue'
            <4> HAVE queue'[m] = k /\ queue'[n] = i
            <4>1. CASE m \in DOMAIN queue /\ queue'[m] = queue[m]
                      /\ n \in DOMAIN queue /\ queue'[n] = queue[n]
                BY <3>1, <4>1 DEF Precedes
            <4>2. CASE m \in DOMAIN queue /\ n = Len(queue) + 1
                BY <4>2
            \* k would be j, the last of the queue, and i waits already.
            <4>3. CASE m = Len(queue) + 1 /\ queue'[m] = j
                      /\ n \in DOMAIN queue /\ queue'[n] = queue[n]
                BY <4>3 DEF ToSet
            <4>4. CASE m = Len(queue) + 1 /\ queue'[m] = j /\ n = Len(queue) + 1
                BY <3>1, <4>4
            <4> QED BY <2>2, <4>1, <4>2, <4>3, <4>4
        <3>3. active' = i => k \notin ToSet(queue')
            BY <2>1, <2>2, <3>1 DEF Precedes
        <3>4. phase' = "recovering" /\ i \in ToSet(queue') => k \notin todo'
            BY <2>2, <3>1 DEF Precedes
        <3>5. creating'[k] = "known" /\ ~QueuedBefore(i, k)'
            BY <3>1 DEF Precedes, QueuedBefore
        <3> QED BY <3>1, <3>2, <3>3, <3>4, <3>5 DEF Precedes
    <2>4. \A i \in Jobs : creating'[i] = "idle" => i \notin ToSet(arrivals') /\ preceding'[i] = {}
        BY DEF OrderInv
    <2> QED BY <2>3, <2>4 DEF OrderInv
<1> QED BY <1>1, <1>2

\* An upload that begins is behind what came before it.
LEMMA OrderOnArrival ==
    ASSUME TypeOK, SubmissionInv, OrderInv, NEW j \in Jobs, BeginUpload(j)
    PROVE  OrderInv'
<1>1. /\ phase = "up" /\ creating[j] = "idle"
      /\ creating' = [creating EXCEPT ![j] = "accepting"]
      /\ arrivals' = Append(arrivals, j)
      /\ preceding' = [preceding EXCEPT ![j] = {k \in Jobs : creating[k] = "known"}]
      /\ UNCHANGED <<queue, active, phase, todo>>
    BY DEF BeginUpload, dispatcherVars, lifeVars
<1>2. /\ arrivals \in Seq(Jobs) /\ queue \in Seq(Jobs)
      /\ creating \in [Jobs -> {"idle", "accepting", "accepted", "known", "lost"}]
      /\ preceding \in [Jobs -> SUBSET Jobs]
    BY DEF TypeOK, DispatcherTypeOK, ServiceTypeOK
<1>3. ~Held(j) /\ j \notin ToSet(queue) /\ j # active /\ j \notin ToSet(arrivals)
    <2>1. ~Held(j) /\ j \notin ToSet(arrivals)
        BY <1>1 DEF SubmissionInv, OrderInv
    <2> QED BY <2>1, NoJobAssumption DEF SubmissionInv, ToSet
<1>4. /\ \A m \in DOMAIN arrivals' : \/ m = Len(arrivals) + 1 /\ arrivals'[m] = j
                                     \/ m \in DOMAIN arrivals /\ arrivals'[m] = arrivals[m]
      /\ ToSet(arrivals') = ToSet(arrivals) \cup {j}
    BY <1>1, <1>2, AppendedElements, GrownSet
\* Nothing that is known comes after anything new.
<1>5. ASSUME NEW i \in Jobs, NEW k \in Jobs \ {j}, ~QueuedBefore(i, k)
      PROVE  ~QueuedBefore(i, k)'
    <2> SUFFICES ASSUME NEW m \in DOMAIN arrivals', NEW n \in DOMAIN arrivals',
                        m < n, arrivals'[m] = i, arrivals'[n] = k
                 PROVE  FALSE
        BY DEF QueuedBefore
    <2>1. n \in DOMAIN arrivals /\ arrivals[n] = k
        BY <1>4, <1>5
    <2>2. DOMAIN arrivals = 1 .. Len(arrivals) /\ Len(arrivals) \in Nat
        BY <1>2
    <2>3. m # Len(arrivals) + 1
        BY <2>1, <2>2
    <2>4. m \in DOMAIN arrivals /\ arrivals[m] = i
        BY <1>4, <2>3
    <2> QED BY <1>5, <2>1, <2>4 DEF QueuedBefore
<1>6. ASSUME NEW i \in Jobs, NEW k \in preceding'[i] PROVE k # i /\ Precedes(k, i)'
    <2>1. CASE i = j
        <3>1. k \in Jobs /\ creating[k] = "known" /\ k # j
            BY <1>1, <1>2, <1>6, <2>1
        <3>2. ~QueuedBefore(j, k)
            BY <1>3 DEF QueuedBefore, ToSet
        <3>3. ~QueuedBefore(j, k)'
            BY <1>5, <3>1, <3>2
        <3>4. creating'[k] = "known"
            BY <1>1, <1>2, <3>1
        <3>5. \A n \in DOMAIN queue : queue[n] # j
            BY <1>3 DEF ToSet
        <3> QED BY <1>1, <1>3, <2>1, <3>1, <3>3, <3>4, <3>5 DEF Precedes
    <2>2. CASE i # j
        <3>1. k \in preceding[i] /\ k \in Jobs
            BY <1>1, <1>2, <1>6, <2>2
        <3>2. k # i /\ Precedes(k, i)
            BY <3>1 DEF OrderInv
        <3>3. k # j /\ creating'[k] = "known"
            BY <1>1, <1>2, <3>1, <3>2 DEF Precedes
        <3>4. ~QueuedBefore(i, k)'
            BY <1>5, <3>1, <3>2, <3>3 DEF Precedes
        <3> QED BY <1>1, <3>2, <3>3, <3>4 DEF Precedes
    <2> QED BY <2>1, <2>2
<1>7. ASSUME NEW i \in Jobs, creating'[i] = "idle"
      PROVE  i \notin ToSet(arrivals') /\ preceding'[i] = {}
    <2>1. i # j /\ creating[i] = "idle"
        BY <1>1, <1>2, <1>7
    <2> QED BY <1>1, <1>2, <1>4, <2>1 DEF OrderInv
<1> QED BY <1>1, <1>6, <1>7 DEF OrderInv

\* Every step of the system keeps OrderInv.
LEMMA OrderStep ==
    ASSUME TypeOK, SubmissionInv, SlotInv, RecordInv, OrderInv, [Next]_vars
    PROVE  OrderInv'
<1> USE DEF dispatcherVars, uploadVars, lifeVars
<1>T. /\ queue \in Seq(Jobs) /\ active \in Jobs \cup {NoJob} /\ NoJob \notin Jobs
      /\ creating \in [Jobs -> {"idle", "accepting", "accepted", "known", "lost"}]
      /\ \A k \in Jobs : preceding[k] \subseteq Jobs
    BY NoJobAssumption DEF TypeOK, DispatcherTypeOK, ServiceTypeOK
<1>S. ASSUME UNCHANGED <<queue, active, arrivals, preceding, creating, phase, todo>>
      PROVE  OrderInv'
    BY <1>S, <1>T, OrderKept
\* The slot is given up.
<1>C. ASSUME active' = NoJob, UNCHANGED <<queue, arrivals, preceding, creating, phase, todo>>
      PROVE  OrderInv'
    BY <1>C, <1>T, OrderKept
<1>1. CASE UNCHANGED vars \/ WorkerTick
    <2>1. CASE UNCHANGED vars
        BY <1>S, <2>1 DEF vars
    <2>2. CASE WorkerTick
        BY <1>S, <2>2 DEF WorkerTick
    <2> QED BY <1>1, <2>1, <2>2
<1>2. ASSUME NEW j \in Jobs, Poll(j) \/ AskCancel(j) PROVE OrderInv'
    BY <1>2, <1>S DEF Poll, AskCancel
<1>3. ASSUME NEW j \in Jobs, Upload(j) PROVE OrderInv'
    <2>1. CASE BeginUpload(j)
        BY <2>1, OrderOnArrival
    <2>2. CASE CommitUpload(j) \/ RefuseUpload(j)
        <3>1. UNCHANGED <<queue, active, arrivals, preceding, phase, todo>> /\ phase = "up"
            BY <2>2 DEF CommitUpload, RefuseUpload
        <3>2. \A k \in Jobs : creating'[k] = creating[k]
                              \/ (creating[k] # "known" /\ creating'[k] # "idle")
            BY <1>T, <2>2 DEF CommitUpload, RefuseUpload
        <3> QED BY <1>T, <3>1, <3>2, OrderKept
    <2>3. CASE FinishUpload(j)
        <3>1. /\ Enqueue(j) /\ phase = "up" /\ creating[j] = "accepted"
              /\ UNCHANGED <<arrivals, preceding, phase, todo>>
            BY <2>3 DEF FinishUpload
        <3>2. \A k \in Jobs : creating'[k] = creating[k]
                              \/ (creating[k] # "known" /\ creating'[k] # "idle")
            BY <1>T, <2>3 DEF FinishUpload
        <3>3. \A i \in Jobs : j \notin preceding[i]
            BY <3>1 DEF OrderInv, Precedes
        <3> QED BY <1>T, <3>1, <3>2, <3>3, OrderGrows
    <2> QED BY <1>3, <2>1, <2>2, <2>3 DEF Upload
<1>4. ASSUME NEW j \in Jobs, Submission(j) PROVE OrderInv'
    <2>1. CASE AdvanceTerminal(j) \/ ClaimNothing(j) \/ FirstInspect(j) \/ SaveHandle(j)
        BY <1>S, <2>1 DEF AdvanceTerminal, ClaimNothing, FirstInspect, SaveHandle
    <2>2. CASE ClaimOther(j)
        BY <1>T, <2>2, OrderShrinks
        DEF ClaimOther, ClaimNext, NothingToClaim, Unsubmitted, Advancing, Holds
    <2>3. CASE ClaimOwn(j)
        <3>1. /\ phase = "up" /\ queue # <<>> /\ queue' = Tail(queue) /\ Head(queue) = j
              /\ UNCHANGED <<arrivals, preceding, creating, phase>>
            BY <2>3 DEF ClaimOwn, NothingToClaim, Unsubmitted, Advancing, Holds
        <3>2. active' = active \/ active' = j
            BY <2>3 DEF ClaimOwn
        <3> QED BY <1>T, <3>1, <3>2, OrderShrinks
    <2>4. CASE Reserve(j)
        <3>1. UNCHANGED <<queue, arrivals, preceding, creating, phase, todo>>
            BY <2>4 DEF Reserve, Complete
        <3>2. active' = active \/ active' = NoJob
            BY <2>4 DEF Reserve, Complete
        <3> QED BY <1>S, <1>C, <3>1, <3>2
    <2>5. CASE SubmitAccepted(j) \/ SubmitRefused(j) \/ SubmitAnswerLost(j) \/ SubmissionRaises(j)
        BY <1>S, <2>5 DEF SubmitAccepted, SubmitRefused, SubmitAnswerLost, SubmissionRaises, GiveUp
    <2>6. CASE GiveUpCommit(j)
        BY <1>C, <2>6 DEF GiveUpCommit, Complete
    <2> QED BY <1>4, <2>1, <2>2, <2>3, <2>4, <2>5, <2>6 DEF Submission
<1>5. ASSUME NEW j \in Jobs, Inspection(j) PROVE OrderInv'
    <2>1. CASE InspectQueued(j) \/ InspectProcessing(j) \/ InspectSucceeded(j) \/ InspectEnded(j)
        BY <1>S, <2>1 DEF InspectQueued, InspectProcessing, InspectSucceeded, InspectEnded
    <2>2. CASE BridgeCommit(j) \/ InspectRaises(j) \/ PersistRaises(j)
        BY <1>S, <2>2 DEF BridgeCommit, InspectRaises, PersistRaises
    <2>3. CASE PersistCommit(j)
        <3>1. UNCHANGED <<queue, arrivals, preceding, creating, phase, todo>>
            BY <2>3 DEF PersistCommit, Complete
        <3>2. active' = active \/ active' = NoJob
            BY <2>3 DEF PersistCommit, Complete
        <3> QED BY <1>S, <1>C, <3>1, <3>2
    <2> QED BY <1>5, <2>1, <2>2, <2>3 DEF Inspection
<1>6. ASSUME NEW j \in Jobs, Cancellation(j) PROVE OrderInv'
    <2>1. CASE CancelStart(j) \/ CancelCommit(j) \/ CancelRaises(j)
        BY <1>S, <2>1 DEF CancelStart, CancelCommit, CancelRaises
    <2>2. CASE CancelRead(j)
        <3>1. /\ phase = "up" /\ active' = active
              /\ UNCHANGED <<arrivals, preceding, creating, phase, todo>>
            BY <2>2 DEF CancelRead, CancelPending, Cancelling, Holds
        <3>2. queue' = queue \/ queue' = RemoveFirst(queue, j)
            BY <2>2 DEF CancelRead, CancelPending
        <3> QED BY <1>S, <1>T, <3>1, <3>2, OrderShrinks
    <2> QED BY <1>6, <2>1, <2>2 DEF Cancellation
<1>7. ASSUME NEW j \in Jobs, Recover(j) PROVE OrderInv'
    <2>1. CASE Rehydrate(j)
        <3>1. /\ Enqueue(j) /\ Recovering(j) /\ phase = "recovering" /\ j \in todo
              /\ todo' = todo \ {j}
              /\ UNCHANGED <<arrivals, preceding, creating, phase>>
            BY <2>1 DEF Rehydrate, Recovering
        <3>2. active = NoJob
            BY <3>1 DEF SlotInv
        <3>3. \A i \in Jobs : j \in preceding[i] => i \notin ToSet(queue) /\ i # active
            BY <1>T, <3>1, <3>2 DEF OrderInv, Precedes
        <3>4. \A k \in preceding[j] : k \notin todo'
            BY <3>1 DEF OrderInv, Precedes, Recovering
        <3> QED BY <1>T, <3>1, <3>3, <3>4, OrderGrows
    <2>2. CASE FailQueued(j) \/ FailProcessing(j)
        <3>1. /\ phase = "recovering" /\ todo' = todo \ {j}
              /\ UNCHANGED <<queue, active, arrivals, preceding, creating, phase>>
            BY <2>2 DEF FailQueued, FailProcessing, MarkRestartFailure, WriteRecovered, Recovering
        <3> QED BY <1>T, <3>1, OrderKept
    <2>3. CASE ReportOrphan(j)
        BY <1>S, <2>3 DEF ReportOrphan
    <2> QED BY <1>7, <2>1, <2>2, <2>3 DEF Recover
<1>8. CASE Crash
    <2>1. queue' = <<>> /\ active' = NoJob /\ UNCHANGED <<arrivals, preceding>>
        BY <1>8 DEF Crash
    <2>2. \A k \in Jobs : creating'[k] = creating[k]
                          \/ (creating[k] # "known" /\ creating'[k] # "idle")
        BY <1>8 DEF Crash
    <2> QED BY <1>T, <2>1, <2>2, OrderWhenEmpty
<1>9. CASE Restart
    <2>1. phase = "down" /\ UNCHANGED <<queue, active, arrivals, preceding, creating>>
        BY <1>9 DEF Restart
    <2>2. queue = <<>> /\ active = NoJob
        BY <2>1 DEF OrderInv, SlotInv
    <2> QED BY <1>T, <2>1, <2>2, OrderWhenEmpty
<1>10. CASE Serve
    <2>1. phase' = "up" /\ UNCHANGED <<queue, active, arrivals, preceding, creating>>
        BY <1>10 DEF Serve
    <2> QED BY <1>T, <2>1, OrderKept
<1> QED BY <1>1, <1>2, <1>3, <1>4, <1>5, <1>6, <1>7, <1>8, <1>9, <1>10 DEF Next, LockStep

\* OrderInv holds always.
LEMMA OrderAlways == Spec => []OrderInv
<1>1. Init => OrderInv
    BY DEF Init, DispatcherInit, ServiceInit, OrderInv, ToSet
<1> QED BY <1>1, OrderStep, TypeCorrect, SubmissionAlways, SlotAlways, RecordAlways, PTL DEF Spec

\* Only a submission sends a prompt, and only its own job's.
LEMMA SendingStep ==
    ASSUME TypeOK, SlotInv, RecordInv, NEW j \in Jobs, [Next]_vars, prompts'[j] # prompts[j]
    PROVE  phase = "up" /\ active = j /\ mem[j].status = "queued" /\ row[j].status = "queued"
<1>T. prompts \in [Jobs -> Nat]
    BY DEF TypeOK, ServiceTypeOK
<1>1. prompts' # prompts
    OBVIOUS
<1>2. ASSUME NEW i \in Jobs, SubmitAccepted(i) \/ SubmitAnswerLost(i)
      PROVE  phase = "up" /\ active = j /\ mem[j].status = "queued" /\ row[j].status = "queued"
    <2>1. /\ Advancing(i, "submit")
          /\ prompts' = [prompts EXCEPT ![i] = @ + 1]
        BY <1>2 DEF SubmitAccepted, SubmitAnswerLost
    <2>2. i = j
        BY <1>T, <2>1
    <2> QED BY <2>1, <2>2
            DEF Advancing, Holds, SlotInv, HolderOwnsSlot, RecordInv, HolderExpects
<1>3. ASSUME NEW i \in Jobs, Silent(i) PROVE FALSE
    BY <1>1, <1>3, SilentIsNoStep
<1>4. ASSUME NEW i \in Jobs, \/ Reserve(i) \/ SaveHandle(i) \/ GiveUpCommit(i)
                             \/ PersistCommit(i) \/ BridgeCommit(i) \/ CancelCommit(i)
      PROVE  FALSE
    BY <1>1, <1>4 DEF Reserve, SaveHandle, GiveUpCommit, PersistCommit, BridgeCommit, CancelCommit
<1>5. ASSUME NEW i \in Jobs, Poll(i) \/ AskCancel(i) \/ Upload(i) \/ Recover(i) PROVE FALSE
    BY <1>1, <1>5 DEF Poll, AskCancel, Upload, BeginUpload, CommitUpload, RefuseUpload,
        FinishUpload, Recover, Rehydrate, FailQueued, FailProcessing, ReportOrphan,
        MarkRestartFailure, WriteRecovered
<1>6. CASE WorkerTick \/ Crash \/ Restart \/ Serve
    BY <1>1, <1>6 DEF WorkerTick, Crash, Restart, Serve
<1>7. CASE UNCHANGED vars
    BY <1>1, <1>7 DEF vars
<1>8. ASSUME NEW i \in Jobs, LockStep(i)
      PROVE  phase = "up" /\ active = j /\ mem[j].status = "queued" /\ row[j].status = "queued"
    <2>1. \/ Silent(i) \/ Reserve(i) \/ SubmitAccepted(i) \/ SubmitAnswerLost(i) \/ SaveHandle(i)
          \/ GiveUpCommit(i) \/ PersistCommit(i) \/ BridgeCommit(i) \/ CancelCommit(i)
        BY <1>8 DEF LockStep, Submission, Inspection, Cancellation, Silent
    <2> QED BY <1>2, <1>3, <1>4, <2>1
<1> QED BY <1>5, <1>6, <1>7, <1>8 DEF Next

\* When the engine is given a job, no job that was answered before that job's upload began
\* is still waiting: the dispatcher's order and recovery's ORDER BY queued_at agree.
THEOREM FirstComeFirstServed == Spec => NoOvertaking
<1>1. ASSUME TypeOK, SlotInv, RecordInv, OrderInv, [Next]_vars, NEW j \in Jobs,
             prompts'[j] > prompts[j], NEW k \in preceding[j], Reservable(k)
      PROVE  IsTerminal(mem[k])
    <2>1. phase = "up" /\ active = j
        <3>1. prompts'[j] # prompts[j]
            BY <1>1 DEF TypeOK, ServiceTypeOK
        <3> QED BY <1>1, <3>1, SendingStep
    <2>2. k \in Jobs
        BY <1>1 DEF TypeOK, ServiceTypeOK
    <2>3. k # active /\ creating[k] # "accepted" /\ k \notin ToSet(queue)
        BY <1>1, <2>1 DEF OrderInv, Precedes
    <2>4. NotForgotten(k) /\ row[k].status \in NonTerminal
        BY <1>1, <2>2 DEF RecordInv, Reservable, NonTerminal
    <2> QED BY <2>1, <2>3, <2>4 DEF NotForgotten
<1>2. TypeOK /\ SlotInv /\ RecordInv /\ OrderInv /\ [Next]_vars =>
          [\A j \in Jobs : prompts'[j] > prompts[j] =>
               \A k \in preceding[j] : ~Reservable(k) \/ IsTerminal(mem[k])]_vars
    BY <1>1
<1> QED BY <1>2, OrderAlways, RecordAlways, SlotAlways, TypeCorrect, PTL DEF Spec, NoOvertaking

-------------------------------------------------------------------------------
(* The durable status, until the first exception *)

\* A job that a step leaves alone, and that is not written before or after it.
LEMMA FollowsAlone ==
    ASSUME NEW k, RowFollows(k), ~Writing(k), ~Writing(k)',
           mem'[k].status = mem[k].status, row'[k].status = row[k].status,
           told'[k] = told[k] \/ k \in Pollers
    PROVE  RowFollows(k)'
BY DEF RowFollows

\* The lock's holder works on j; every other job is left alone.
LEMMA FollowsOthers ==
    ASSUME NEW j, line # <<>>, Head(line).job = j, at' = "start" \/ line' = line,
           NEW k, k # j, RowFollows(k),
           mem'[k] = mem[k], row'[k] = row[k], told'[k] = told[k]
    PROVE  RowFollows(k)'
BY DEF RowFollows, Writing

\* A task that joins the line does not change who writes.
LEMMA JoinWritesNothing ==
    ASSUME TypeOK, SubmissionInv, SlotInv, NEW t \in LockTask, line' = Append(line, t),
           at' = at, NEW k
    PROVE  Writing(k)' <=> Writing(k)
<1>1. line \in Seq(LockTask)
    BY DEF TypeOK, ServiceTypeOK
<1>2. line' # <<>> /\ (line # <<>> => Head(line') = Head(line))
    BY <1>1, GrownSequence
<1>3. line = <<>> => at \in {"start", "orphaned"}
    BY SlotFacts
<1> QED BY <1>2, <1>3 DEF Writing

\* Every step of the system keeps FollowInv.
LEMMA FollowStep ==
    ASSUME TypeOK, TypeOK', SubmissionInv, SlotInv, RecordInv, FollowInv, [Next]_vars
    PROVE  FollowInv'
<1> USE DEF storeVars, memoryVars, lockVars, lifeVars
<1>T. /\ row \in [Jobs -> Job] /\ mem \in [Jobs -> Job] /\ faults \in Nat
      /\ told \in [Jobs -> Terminal \cup {"nothing"}] /\ active \in Jobs \cup {NoJob}
    BY DEF TypeOK, DispatcherTypeOK, StoreTypeOK, ServiceTypeOK
<1>N. \A k \in Jobs : /\ mem[k] \in Job /\ row[k] \in Job
                      /\ mem[k].status \in JobState \cup {"absent"}
                      /\ row[k].status \in JobState \cup {"absent"}
    BY <1>T, JobFields
<1>F. faults = 0 => \A k \in Jobs : RowFollows(k)
    BY DEF FollowInv
<1>E. ASSUME Raises PROVE FollowInv'
    BY <1>E, <1>T DEF Raises, FollowInv
\* What the holder of the lock knows.
<1>H. ASSUME NEW j, NEW step, Advancing(j, step) \/ Cancelling(j, step)
      PROVE  /\ at = step /\ line # <<>> /\ Head(line).job = j /\ HolderExpects(j)
    BY <1>H DEF Advancing, Cancelling, Holds, RecordInv
\* No job changes its statuses, and the same job, if any, is being written.
<1>S. ASSUME \A k \in Jobs : mem'[k].status = mem[k].status /\ row'[k].status = row[k].status,
             \A k \in Jobs : told'[k] = told[k] \/ k \in Pollers,
             \A k \in Jobs : Writing(k)' <=> Writing(k),
             at' = at, faults' = faults
      PROVE  FollowInv'
    BY <1>F, <1>S DEF FollowInv, RowFollows
\* No job changes its statuses, and none is being written.
<1>A. ASSUME \A k \in Jobs : mem'[k].status = mem[k].status /\ row'[k].status = row[k].status,
             at \in {"start", "reserve", "submit", "save", "first"},
             at' \in {"start", "reserve", "submit", "save", "first", "cancelRead"},
             told' = told, faults' = faults
      PROVE  FollowInv'
    <2>1. \A k \in Jobs : ~Writing(k) /\ ~Writing(k)'
        BY <1>A DEF Writing
    <2> QED BY <1>A, <1>F, <2>1, FollowsAlone DEF FollowInv
\* The holder works on j.
<1>W. ASSUME NEW j \in Jobs, line # <<>>, Head(line).job = j, at' = "start" \/ line' = line,
             \A k \in Jobs \ {j} : mem'[k] = mem[k] /\ row'[k] = row[k] /\ told'[k] = told[k],
             faults' = faults, faults = 0 => RowFollows(j)'
      PROVE  FollowInv'
    <2> SUFFICES ASSUME faults = 0, NEW k \in Jobs PROVE RowFollows(k)'
        BY <1>W DEF FollowInv
    <2> QED BY <1>F, <1>W, FollowsOthers
<1>0. CASE UNCHANGED vars
    BY <1>0, <1>S DEF vars, Writing
<1>1. CASE WorkerTick
    <2>0. (IF active # NoJob THEN active ELSE Head(queue)) \in Jobs
        BY <1>1 DEF WorkerTick, TypeOK, DispatcherTypeOK
    <2>1. PICK j \in Jobs : /\ j = IF active # NoJob THEN active ELSE Head(queue)
                            /\ mem' = [mem EXCEPT ![j] = JobObject(j)]
                            /\ line' = Append(line, Task("worker", j))
        BY <1>1, <2>0 DEF WorkerTick
    <2>2. Held(j)
        BY <1>1, <2>1 DEF WorkerTick, SubmissionInv, TypeOK, DispatcherTypeOK
    <2>3. mem' = mem /\ UNCHANGED <<row, told, at, faults>>
        BY <1>1, <1>T, <2>1, <2>2, ObjectAgrees DEF WorkerTick
    <2>4. Task("worker", j) \in LockTask
        BY DEF Task, LockTask, By
    <2>5. \A k \in Jobs : Writing(k)' <=> Writing(k)
        BY <2>1, <2>3, <2>4, JoinWritesNothing
    <2> QED BY <1>S, <2>3, <2>5
<1>2. ASSUME NEW j \in Jobs, NEW by \in By, Join(by, j), UNCHANGED <<mem, row, told, at, faults>>
      PROVE  FollowInv'
    <2>1. line' = Append(line, Task(by, j)) /\ Task(by, j) \in LockTask
        BY <1>2 DEF Join, Task, LockTask
    <2>2. \A k \in Jobs : Writing(k)' <=> Writing(k)
        BY <1>2, <2>1, JoinWritesNothing
    <2> QED BY <1>2, <1>S, <2>2
<1>3. ASSUME NEW j \in Jobs, AskCancel(j) PROVE FollowInv'
    BY <1>2, <1>3 DEF AskCancel, By
\* A poll may show what is not durable, to a client that polls.
<1>4. ASSUME NEW j \in Jobs, Poll(j) PROVE FollowInv'
    <2>1. CASE ~IsTerminal(JobObject(j))
        BY <1>2, <1>4, <2>1 DEF Poll, By
    <2>2. CASE IsTerminal(JobObject(j))
        <3>1. /\ UNCHANGED <<mem, row, line, at, faults>> /\ j \in Pollers
              /\ \A k \in Jobs \ {j} : told'[k] = told[k]
            BY <1>4, <1>T, <2>2 DEF Poll
        <3> QED BY <1>S, <3>1 DEF Writing
    <2> QED BY <2>1, <2>2
<1>5. ASSUME NEW j \in Jobs, BeginUpload(j) \/ RefuseUpload(j) PROVE FollowInv'
    BY <1>5, <1>S DEF BeginUpload, RefuseUpload, Writing
<1>6. ASSUME NEW j \in Jobs, CommitUpload(j) PROVE FollowInv'
    <2>1. /\ creating[j] = "accepting" /\ row[j].status = "absent"
          /\ row' = [row EXCEPT ![j] = Accepted]
          /\ UNCHANGED <<mem, told, line, at, faults>>
        BY <1>6 DEF CommitUpload, AcceptJob
    <2>2. mem[j].status = "absent"
        BY <2>1 DEF SubmissionInv, Held
    <2>3. \A k \in Jobs \ {j} : row'[k] = row[k]
        BY <1>T, <2>1
    <2>4. ASSUME faults = 0, NEW k \in Jobs PROVE RowFollows(k)'
        <3>1. CASE k = j
            BY <1>F, <2>1, <2>2, <2>4, <3>1 DEF RowFollows, Terminal
        <3>2. CASE k # j
            BY <1>F, <2>1, <2>3, <2>4, <3>2 DEF RowFollows, Writing
        <3> QED BY <3>1, <3>2
    <2> QED BY <2>1, <2>4 DEF FollowInv
<1>7. ASSUME NEW j \in Jobs, FinishUpload(j) PROVE FollowInv'
    <2>1. /\ mem' = [mem EXCEPT ![j] = Accepted]
          /\ UNCHANGED <<row, told, line, at, faults>>
        BY <1>7 DEF FinishUpload
    <2>2. mem'[j].status = "queued" /\ \A k \in Jobs \ {j} : mem'[k] = mem[k]
        BY <1>T, <2>1, ConstantFields
    <2>3. ASSUME faults = 0, NEW k \in Jobs PROVE RowFollows(k)'
        <3>1. CASE k = j
            BY <1>F, <2>1, <2>2, <2>3, <3>1 DEF RowFollows, Terminal
        <3>2. CASE k # j
            BY <1>F, <2>1, <2>2, <2>3, <3>2 DEF RowFollows, Writing
        <3> QED BY <3>1, <3>2
    <2> QED BY <2>1, <2>3 DEF FollowInv
<1>8. ASSUME NEW j \in Jobs,
             \/ AdvanceTerminal(j) \/ ClaimNothing(j) \/ ClaimOther(j) \/ ClaimOwn(j)
             \/ FirstInspect(j) \/ InspectQueued(j) \/ InspectRaises(j)
      PROVE  FollowInv'
    <2>1. UNCHANGED <<mem, row, told, faults>>
        BY <1>8 DEF AdvanceTerminal, ClaimNothing, ClaimOther, ClaimOwn, FirstInspect, InspectQueued,
            InspectRaises
    <2>2. at \in {"start", "first"} /\ at' \in {"start", "reserve"}
        BY <1>8 DEF AdvanceTerminal, ClaimNothing, ClaimOther, ClaimOwn, FirstInspect,
            InspectQueued, InspectRaises, Unsubmitted, Inspecting, Advancing, Release
    <2> QED BY <1>A, <2>1, <2>2
<1>9. ASSUME NEW j \in Jobs, Reserve(j) PROVE FollowInv'
    <2>1. CASE ~Reservable(j)
        BY <1>9, <1>A, <2>1 DEF Reserve, Advancing, Release
    <2>2. CASE Reservable(j)
        <3>1. /\ row' = [row EXCEPT ![j].attempts = @ + 1] /\ mem' = [mem EXCEPT ![j].attempts = 1]
              /\ UNCHANGED <<told, faults>> /\ at = "reserve" /\ at' = "submit"
            BY <1>9, <2>2 DEF Reserve, ReserveSubmission, Advancing
        <3>2. row'[j].status = row[j].status
            <4>1. row[j] \in Job /\ row[j].attempts = 0
                BY <1>T, <2>2 DEF Reservable
            <4>2. row'[j] = [row[j] EXCEPT !.attempts = 1]
                BY <1>T, <3>1, <4>1
            <4> QED BY <4>1, <4>2, ChangedFields
        <3>3. mem'[j].status = mem[j].status
            <4>1. mem'[j] = [mem[j] EXCEPT !.attempts = 1]
                BY <1>T, <3>1
            <4> QED BY <1>N, <4>1, ChangedFields
        <3>4. \A k \in Jobs \ {j} : mem'[k] = mem[k] /\ row'[k] = row[k]
            BY <1>T, <3>1
        <3> QED BY <1>A, <3>1, <3>2, <3>3, <3>4
    <2> QED BY <2>1, <2>2
<1>10. ASSUME NEW j \in Jobs, SubmitAccepted(j) PROVE FollowInv'
    <2>1. /\ mem' = [mem EXCEPT ![j].engine = TRUE] /\ at = "submit" /\ at' = "save"
          /\ UNCHANGED <<row, told, faults>>
        BY <1>10 DEF SubmitAccepted, Advancing
    <2>2. mem'[j] = [mem[j] EXCEPT !.engine = TRUE] /\ \A k \in Jobs \ {j} : mem'[k] = mem[k]
        BY <1>T, <2>1
    <2>3. mem'[j].status = mem[j].status
        BY <1>N, <2>2, ChangedFields
    <2> QED BY <1>A, <2>1, <2>2, <2>3
\* A submission that fails: the object has ended, and its write comes next.
<1>11. ASSUME NEW j \in Jobs, SubmitRefused(j) \/ SubmitAnswerLost(j) PROVE FollowInv'
    <2>1. GiveUp(j) /\ Advancing(j, "submit") /\ faults' = faults
        BY <1>11 DEF SubmitRefused, SubmitAnswerLost
    <2>2. at = "submit" /\ line # <<>> /\ Head(line).job = j
        BY <1>H, <2>1
    <2>3. /\ mem' = [mem EXCEPT ![j] = Transitioned(@, "failed")] /\ at' = "giveUp"
          /\ UNCHANGED <<row, told, line>>
        BY <2>1 DEF GiveUp
    <2>4. Writing(j)' /\ \A k \in Jobs \ {j} : mem'[k] = mem[k]
        BY <1>T, <2>2, <2>3 DEF Writing
    <2>5. faults = 0 => RowFollows(j)'
        BY <1>F, <2>3, <2>4 DEF RowFollows
    <2> QED BY <1>W, <2>1, <2>2, <2>3, <2>4, <2>5
<1>12. ASSUME NEW j \in Jobs, SaveHandle(j) PROVE FollowInv'
    <2>1. /\ row' = [row EXCEPT ![j] = [mem[j] EXCEPT !.seq = row[j].seq]]
          /\ Advancing(j, "save") /\ at' = "first" /\ UNCHANGED <<mem, told, faults>>
        BY <1>12 DEF SaveHandle, UpdateJob
    <2>2. at = "save" /\ row[j].status = "queued" /\ mem[j].status = "queued"
        BY <1>H, <2>1 DEF HolderExpects
    <2>3. row'[j].status = mem[j].status
        <3>1. row'[j] = [mem[j] EXCEPT !.seq = row[j].seq]
            BY <1>T, <2>1
        <3>2. mem[j] \in Job /\ row[j].seq \in Nat
            BY ObjectTypes, JobFields
        <3> QED BY <3>1, <3>2, ChangedFields
    <2>4. \A k \in Jobs \ {j} : row'[k] = row[k]
        BY <1>T, <2>1
    <2> QED BY <1>A, <2>1, <2>2, <2>3, <2>4
\* An inspection that changes the object: its write comes next.
<1>I. ASSUME NEW j \in Jobs, Inspecting(j)
      PROVE  /\ line # <<>> /\ Head(line).job = j /\ at = "start" /\ ~Writing(j)
             /\ mem[j].status \in NonTerminal
    <2>1. at = "start" /\ line # <<>> /\ Head(line).job = j /\ ~IsTerminal(mem[j])
        BY <1>I DEF Inspecting, Advancing, Holds
    <2>2. mem[j].status # "absent"
        BY <1>I DEF Inspecting, SubmissionInv, Held
    <2> QED BY <1>N, <2>1, <2>2 DEF Writing, IsTerminal, JobState
<1>J. ASSUME NEW j \in Jobs, Inspecting(j), line' = line, at' \in {"bridge", "persist"},
             \A k \in Jobs \ {j} : mem'[k] = mem[k], UNCHANGED <<row, told, faults>>,
             faults = 0 /\ at' = "persist" /\ mem'[j].status = "completed" =>
                 row[j].status = "processing"
      PROVE  FollowInv'
    <2>1. line # <<>> /\ Head(line).job = j /\ Writing(j)'
        BY <1>I, <1>J DEF Writing
    <2>2. faults = 0 => RowFollows(j)'
        BY <1>F, <1>J, <2>1 DEF RowFollows
    <2> QED BY <1>J, <1>W, <2>1, <2>2
<1>13. ASSUME NEW j \in Jobs, InspectProcessing(j) PROVE FollowInv'
    <2>1. Inspecting(j) /\ UNCHANGED <<row, told, faults>>
        BY <1>13 DEF InspectProcessing
    <2>2. CASE Release /\ UNCHANGED mem
        BY <1>A, <1>I, <2>1, <2>2 DEF Release
    <2>3. ASSUME NEW p \in mem[j].progress .. MaxProgress,
                 mem' = [mem EXCEPT ![j] =
                             IF @.status = "processing"
                             THEN WithProgress(@, p)
                             ELSE [Transitioned(@, "processing") EXCEPT !.progress = p]],
                 at' = "persist", line' = line
          PROVE  FollowInv'
        <3>1. PICK job \in Job : job = mem[j]
            BY <1>N
        <3>2. p \in Nat
            BY <1>N, JobFields
        <3>3. mem'[j] = IF job.status = "processing"
                        THEN WithProgress(job, p)
                        ELSE [Transitioned(job, "processing") EXCEPT !.progress = p]
            BY <1>T, <2>3, <3>1
        <3>4. mem'[j].status = "processing"
            <4>1. Transitioned(job, "processing") \in Job /\ "processing" \in JobState
                BY JobUpdates DEF JobState, NonTerminal
            <4> QED BY <3>2, <3>3, <4>1, ChangedFields
        <3>5. \A k \in Jobs \ {j} : mem'[k] = mem[k]
            BY <1>T, <2>3
        <3> QED BY <1>J, <2>1, <2>3, <3>4, <3>5
    <2> QED BY <1>13, <2>2, <2>3 DEF InspectProcessing
<1>14. ASSUME NEW j \in Jobs, InspectSucceeded(j) PROVE FollowInv'
    <2>1. Inspecting(j) /\ UNCHANGED <<row, told, faults, line>>
        BY <1>14 DEF InspectSucceeded, Change
    <2>2. \A k \in Jobs \ {j} : mem'[k] = mem[k]
        BY <1>14, <1>T DEF InspectSucceeded, Change
    <2>3. CASE mem[j].status = "queued"
        BY <1>14, <1>J, <2>1, <2>2, <2>3 DEF InspectSucceeded, Change
    <2>4. CASE mem[j].status = "processing"
        <3>1. at' = "persist"
            BY <1>14, <2>4 DEF InspectSucceeded, Change
        <3>2. faults = 0 => row[j].status = "processing"
            BY <1>F, <1>I, <2>1, <2>4 DEF RowFollows
        <3> QED BY <1>J, <2>1, <2>2, <3>1, <3>2
    <2> QED BY <1>I, <2>1, <2>3, <2>4 DEF NonTerminal
<1>15. ASSUME NEW j \in Jobs, InspectEnded(j) PROVE FollowInv'
    <2>1. Inspecting(j) /\ UNCHANGED <<row, told, faults, line>> /\ at' = "persist"
        BY <1>15 DEF InspectEnded, Change
    <2>2. PICK target \in {"failed", "cancelled"} : mem' = [mem EXCEPT ![j] = Transitioned(@, target)]
        BY <1>15 DEF InspectEnded, Change, Decide
    <2>3. \A k \in Jobs \ {j} : mem'[k] = mem[k]
        BY <1>T, <2>2
    <2>4. mem'[j].status = target
        <3>1. mem'[j] = Transitioned(mem[j], target) /\ target \in JobState
            BY <1>T, <2>2 DEF JobState, Terminal
        <3> QED BY <1>N, <3>1, ChangedFields
    <2> QED BY <1>J, <2>1, <2>3, <2>4
<1>16. ASSUME NEW j \in Jobs, BridgeCommit(j) PROVE FollowInv'
    <2>1. /\ row' = [row EXCEPT ![j] = mem[j]]
          /\ mem' = [mem EXCEPT ![j] = Transitioned(@, "completed")]
          /\ Advancing(j, "bridge") /\ at' = "persist" /\ UNCHANGED <<told, faults, line>>
        BY <1>16 DEF BridgeCommit, PersistTransition, Change
    <2>2. /\ mem[j].status = "processing" /\ row[j].status \in NonTerminal
          /\ line # <<>> /\ Head(line).job = j
        BY <1>H, <2>1 DEF HolderExpects
    <2>3. row'[j] = mem[j] /\ \A k \in Jobs \ {j} : mem'[k] = mem[k] /\ row'[k] = row[k]
        BY <1>T, <2>1
    <2>4. faults = 0 => RowFollows(j)'
        BY <1>F, <2>1, <2>2, <2>3 DEF RowFollows, Writing, NonTerminal
    <2>5. UNCHANGED <<told, faults, line>>
        BY <2>1
    <2> QED BY <1>W, <2>2, <2>3, <2>4, <2>5
\* The row takes over what memory holds.
<1>17. ASSUME NEW j \in Jobs, PersistCommit(j) \/ GiveUpCommit(j) PROVE FollowInv'
    <2>1. /\ row' = [row EXCEPT ![j] = mem[j]] /\ Release
          /\ UNCHANGED <<mem, told, faults>>
          /\ Advancing(j, "persist") \/ Advancing(j, "giveUp")
        BY <1>17 DEF PersistCommit, GiveUpCommit, PersistTransition
    <2>2. line # <<>> /\ Head(line).job = j /\ row[j].status \in NonTerminal
        BY <1>H, <2>1 DEF HolderExpects
    <2>3. row'[j] = mem[j] /\ \A k \in Jobs \ {j} : row'[k] = row[k]
        BY <1>T, <2>1
    <2>4. at' = "start"
        BY <2>1 DEF Release
    <2>5. faults = 0 => RowFollows(j)'
        BY <1>F, <2>1, <2>2, <2>3, <2>4 DEF RowFollows, Writing, NonTerminal
    <2> QED BY <1>W, <2>1, <2>2, <2>3, <2>4, <2>5
<1>18. ASSUME NEW j \in Jobs, CancelCommit(j) PROVE FollowInv'
    <2>1. /\ row' = [row EXCEPT ![j] = mem[j]] /\ Release
          /\ told' = [told EXCEPT ![j] = "cancelled"]
          /\ UNCHANGED <<mem, faults>> /\ Cancelling(j, "cancelPersist")
        BY <1>18 DEF CancelCommit, PersistTransition
    <2>2. line # <<>> /\ Head(line).job = j /\ mem[j].status = "cancelled"
        BY <1>H, <2>1 DEF HolderExpects
    <2>3. row'[j] = mem[j] /\ \A k \in Jobs \ {j} : row'[k] = row[k] /\ told'[k] = told[k]
        BY <1>T, <2>1
    <2>4. at' = "start"
        BY <2>1 DEF Release
    <2>5. RowFollows(j)'
        BY <2>1, <2>2, <2>3, <2>4 DEF RowFollows, Writing
    <2> QED BY <1>W, <2>1, <2>2, <2>3, <2>4, <2>5
\* The retry of a cancellation is answered from the object, which nobody is writing.
<1>19. ASSUME NEW j \in Jobs, CancelStart(j) PROVE FollowInv'
    <2>1. /\ mem' = [mem EXCEPT ![j] = JobObject(j)] /\ Cancelling(j, "start")
          /\ UNCHANGED <<row, faults>>
        BY <1>19 DEF CancelStart
    <2>2. at = "start" /\ line # <<>> /\ Head(line).job = j
        BY <1>H, <2>1
    <2>3. mem'[j] = JobObject(j) /\ \A k \in Jobs \ {j} : mem'[k] = mem[k]
        BY <1>T, <2>1
    <2>4. /\ \A k \in Jobs \ {j} : told'[k] = told[k]
          /\ told'[j] = told[j] \/ JobObject(j).status = "cancelled"
        BY <1>19, <1>T DEF CancelStart
    <2>5. at' = "start" \/ (at' = "cancelRead" /\ line' = line)
        BY <1>19 DEF CancelStart, Release
    <2>6. JobObject(j).status = mem[j].status \/ JobObject(j).status = row[j].status
        <3>1. Loaded(j).status = row[j].status
            BY ObjectTypes, JobFields, ChangedFields DEF Loaded
        <3> QED BY <3>1 DEF JobObject
    <2>7. ~Writing(j) /\ ~Writing(j)'
        BY <2>2, <2>5 DEF Writing
    <2>8. faults = 0 => RowFollows(j)'
        BY <1>F, <2>1, <2>3, <2>4, <2>6, <2>7 DEF RowFollows, Terminal
    <2> QED BY <1>W, <2>1, <2>2, <2>3, <2>4, <2>5, <2>8
<1>20. ASSUME NEW j \in Jobs, CancelRead(j) PROVE FollowInv'
    <2>1. /\ at' = "cancelPersist" /\ Cancelling(j, "cancelRead")
          /\ UNCHANGED <<row, told, line, faults>>
        BY <1>20 DEF CancelRead
    <2>2. \A k \in Jobs \ {j} : mem'[k] = mem[k]
        BY <1>20, <1>T DEF CancelRead
    <2>3. line # <<>> /\ Head(line).job = j
        BY <1>H, <2>1
    <2>4. faults = 0 => RowFollows(j)'
        BY <1>F, <2>1, <2>3 DEF RowFollows, Writing
    <2> QED BY <1>W, <2>1, <2>2, <2>3, <2>4
<1>21. ASSUME NEW j \in Jobs,
              SubmissionRaises(j) \/ PersistRaises(j) \/ CancelRaises(j)
       PROVE  FollowInv'
    BY <1>21, <1>E DEF SubmissionRaises, PersistRaises, CancelRaises
\* Recovery works on jobs that are not in memory, and nobody holds the lock.
<1>R. ASSUME NEW j \in Jobs, Recovering(j)
      PROVE  mem[j].status = "absent" /\ line = <<>>
    <2>1. phase = "recovering" /\ j \in todo
        BY <1>R DEF Recovering
    <2> QED BY <2>1 DEF RecordInv, MemoryIsAhead, SlotInv, Held
<1>22. ASSUME NEW j \in Jobs, Rehydrate(j) PROVE FollowInv'
    <2>1. /\ Recovering(j) /\ row[j].status = "queued"
          /\ mem' = [mem EXCEPT ![j] = [Loaded(j) EXCEPT !.seq = LastSequence(j)]]
          /\ UNCHANGED <<row, told, line, at, faults>>
        BY <1>22 DEF Rehydrate
    <2>2. mem'[j].status = "queued"
        <3>0. Loaded(j).status = row[j].status
            BY ObjectTypes, JobFields, ChangedFields DEF Loaded
        <3>1. PICK l \in Job : l = Loaded(j) /\ l.status = "queued"
            BY <2>1, <3>0, ObjectTypes
        <3>2. LastSequence(j) \in Nat
            BY ObjectTypes
        <3>3. mem'[j] = [l EXCEPT !.seq = LastSequence(j)]
            BY <1>T, <2>1, <3>1
        <3> QED BY <3>1, <3>2, <3>3, ChangedFields
    <2>3. \A k \in Jobs \ {j} : mem'[k] = mem[k]
        BY <1>T, <2>1
    <2>4. ASSUME faults = 0, NEW k \in Jobs PROVE RowFollows(k)'
        <3>1. CASE k = j
            BY <1>F, <2>1, <2>2, <2>4, <3>1 DEF RowFollows, Terminal
        <3>2. CASE k # j
            BY <1>F, <2>1, <2>3, <2>4, <3>2 DEF RowFollows, Writing
        <3> QED BY <3>1, <3>2
    <2> QED BY <2>1, <2>4 DEF FollowInv
<1>23. ASSUME NEW j \in Jobs, FailQueued(j) \/ FailProcessing(j) \/ ReportOrphan(j) PROVE FollowInv'
    <2>1. /\ Recovering(j) /\ UNCHANGED <<mem, told, line, faults>>
          /\ row[j].status \in NonTerminal
        BY <1>23 DEF FailQueued, FailProcessing, ReportOrphan, MarkRestartFailure, WriteRecovered,
            NonTerminal
    <2>2. \A k \in Jobs \ {j} : row'[k] = row[k]
        BY <1>23, <1>T DEF FailQueued, FailProcessing, ReportOrphan, MarkRestartFailure,
            WriteRecovered, PersistTransition, AppendOrphanEvent
    <2>3. mem[j].status = "absent" /\ line = <<>>
        BY <1>R, <2>1
    <2>4. \A k \in Jobs : ~Writing(k) /\ ~Writing(k)'
        BY <2>1, <2>3 DEF Writing
    <2>5. ASSUME faults = 0, NEW k \in Jobs PROVE RowFollows(k)'
        <3>1. CASE k = j
            BY <1>F, <2>1, <2>3, <2>4, <2>5, <3>1 DEF RowFollows, Terminal, NonTerminal
        <3>2. CASE k # j
            BY <1>F, <2>1, <2>2, <2>4, <2>5, <3>2, FollowsAlone
        <3> QED BY <3>1, <3>2
    <2> QED BY <2>1, <2>5 DEF FollowInv
<1>24. CASE Crash
    <2>1. UNCHANGED <<row, told, faults>> /\ at' = "start"
        BY <1>24 DEF Crash
    <2>2. \A k \in Jobs : mem'[k].status = "absent"
        BY <1>24, ConstantFields DEF Crash
    <2> QED BY <1>F, <2>1, <2>2 DEF FollowInv, RowFollows, Writing, Terminal
<1>25. CASE Restart \/ Serve
    BY <1>25, <1>S DEF Restart, Serve, Writing
<1>26. ASSUME NEW j \in Jobs, LockStep(j) PROVE FollowInv'
    BY <1>8, <1>9, <1>10, <1>11, <1>12, <1>13, <1>14, <1>15, <1>16, <1>17, <1>18, <1>19, <1>20,
       <1>21, <1>26 DEF LockStep, Submission, Inspection, Cancellation
<1>27. ASSUME NEW j \in Jobs, Upload(j) \/ Recover(j) PROVE FollowInv'
    BY <1>5, <1>6, <1>7, <1>22, <1>23, <1>27 DEF Upload, Recover
<1> QED BY <1>0, <1>1, <1>3, <1>4, <1>24, <1>25, <1>26, <1>27 DEF Next

\* FollowInv holds always.
LEMMA FollowAlways == Spec => []FollowInv
<1>1. Init => FollowInv
    BY ConstantFields DEF Init, StoreInit, ServiceInit, FollowInv, RowFollows, Writing, Terminal
<1> QED BY <1>1, FollowStep, TypeCorrect, SubmissionAlways, SlotAlways, RecordAlways, PTL DEF Spec

\* What the table of transitions allows.
LEMMA AllowedSteps ==
    ASSUME NEW job, NEW target,
           \/ job.status = "queued" /\ target \in {"processing", "failed", "cancelled"}
           \/ job.status = "processing" /\ target \in Terminal
    PROVE  CanTransition(job, target)
BY DEF CanTransition, AllowedTransitions, JobState, NonTerminal, Terminal

\* Until the first exception, the persisted status of a job takes allowed transitions only,
\* none of them skipped: a job is completed after it was stored as processing.
THEOREM StatusFollowsTable == Spec => LifecycleFollowed
<1>1. ASSUME TypeOK, SubmissionInv, RecordInv, FollowInv, [Next]_vars, faults = 0, NEW k \in Jobs
      PROVE  \/ row'[k].status = row[k].status
             \/ row[k].status = "absent" /\ row'[k].status = "queued"
             \/ CanTransition(row[k], row'[k].status)
    <2> USE <1>1 DEF storeVars
    <2> DEFINE Good == \/ row'[k].status = row[k].status
                       \/ row[k].status = "absent" /\ row'[k].status = "queued"
                       \/ CanTransition(row[k], row'[k].status)
    <2>T. row \in [Jobs -> Job] /\ mem \in [Jobs -> Job]
        BY DEF TypeOK, StoreTypeOK, ServiceTypeOK
    <2>S. ASSUME row' = row PROVE Good
        BY <2>S
    <2>H. ASSUME NEW j, NEW step, Advancing(j, step) \/ Cancelling(j, step)
          PROVE  at = step /\ line # <<>> /\ Head(line).job = j /\ HolderExpects(j)
        BY <2>H DEF Advancing, Cancelling, Holds, RecordInv
    <2>1. CASE UNCHANGED vars \/ WorkerTick \/ Crash \/ Restart \/ Serve
        BY <2>1, <2>S DEF vars, WorkerTick, Crash, Restart, Serve
    <2>2. ASSUME NEW j \in Jobs, Poll(j) \/ AskCancel(j) PROVE Good
        BY <2>2, <2>S DEF Poll, AskCancel
    <2>3. ASSUME NEW j \in Jobs, Upload(j) PROVE Good
        <3>1. CASE BeginUpload(j) \/ RefuseUpload(j) \/ FinishUpload(j)
            BY <2>S, <3>1 DEF BeginUpload, RefuseUpload, FinishUpload
        <3>2. CASE CommitUpload(j)
            <4>1. row[j].status = "absent" /\ row' = [row EXCEPT ![j] = Accepted]
                BY <3>2 DEF CommitUpload, AcceptJob
            <4> QED BY <2>T, <4>1, ConstantFields
        <3> QED BY <2>3, <3>1, <3>2 DEF Upload
    <2>4. ASSUME NEW j \in Jobs, Silent(j) \/ SubmitAccepted(j) \/ SubmitAnswerLost(j) PROVE Good
        BY <2>4, <2>S, SilentIsNoStep DEF SubmitAccepted, SubmitAnswerLost, GiveUp
    <2>5. ASSUME NEW j \in Jobs, Reserve(j) PROVE Good
        <3>1. CASE ~Reservable(j)
            BY <2>5, <2>S, <3>1 DEF Reserve
        <3>2. CASE Reservable(j)
            <4>1. row' = [row EXCEPT ![j].attempts = @ + 1]
                BY <2>5, <3>2 DEF Reserve, ReserveSubmission
            <4>2. row[j] \in Job /\ row[j].attempts = 0
                BY <2>T, <3>2 DEF Reservable
            <4>3. row'[j] = [row[j] EXCEPT !.attempts = 1]
                BY <2>T, <4>1, <4>2
            <4>4. row'[j].status = row[j].status
                BY <4>2, <4>3, ChangedFields
            <4> QED BY <2>T, <4>1, <4>4
        <3> QED BY <3>1, <3>2
    <2>6. ASSUME NEW j \in Jobs, SaveHandle(j) PROVE Good
        <3>1. /\ row' = [row EXCEPT ![j] = [mem[j] EXCEPT !.seq = row[j].seq]]
              /\ Advancing(j, "save")
            BY <2>6 DEF SaveHandle, UpdateJob
        <3>2. row[j].status = "queued" /\ mem[j].status = "queued"
            BY <2>H, <3>1 DEF HolderExpects
        <3>3. row'[j] = [mem[j] EXCEPT !.seq = row[j].seq]
            BY <2>T, <3>1
        <3>4. mem[j] \in Job /\ row[j].seq \in Nat
            BY ObjectTypes, JobFields
        <3>5. row'[j].status = row[j].status
            BY <3>2, <3>3, <3>4, ChangedFields
        <3> QED BY <2>T, <3>1, <3>5
    \* The row takes over what memory holds.
    <2>7. ASSUME NEW j \in Jobs,
                 PersistCommit(j) \/ GiveUpCommit(j) \/ BridgeCommit(j) \/ CancelCommit(j)
          PROVE  Good
        <3>1. PICK step \in {"persist", "giveUp", "bridge", "cancelPersist"} :
                  Advancing(j, step) \/ Cancelling(j, step)
            BY <2>7 DEF PersistCommit, GiveUpCommit, BridgeCommit, CancelCommit
        <3>2. row' = [row EXCEPT ![j] = mem[j]]
            BY <2>7 DEF PersistCommit, GiveUpCommit, BridgeCommit, CancelCommit, PersistTransition
        <3>3. /\ at \in {"persist", "giveUp", "bridge", "cancelPersist"}
              /\ Writing(j) /\ row[j].status \in NonTerminal
              /\ mem[j].status \in {"processing"} \cup Terminal
              /\ at # "persist" => mem[j].status # "completed"
            <4>1. at = step /\ line # <<>> /\ Head(line).job = j /\ HolderExpects(j)
                BY <2>H, <3>1
            <4> QED BY <4>1 DEF HolderExpects, Writing, Terminal
        <3>4. mem[j].status = "completed" => row[j].status = "processing"
            BY <3>3 DEF FollowInv, RowFollows
        <3>5. row[j].status = mem[j].status \/ CanTransition(row[j], mem[j].status)
            BY <3>3, <3>4, AllowedSteps DEF NonTerminal, Terminal
        <3> QED BY <2>T, <3>2, <3>5
    <2>8. ASSUME NEW j \in Jobs, Recover(j) PROVE Good
        <3>1. CASE Rehydrate(j)
            BY <2>S, <3>1 DEF Rehydrate
        <3>2. CASE FailQueued(j) \/ FailProcessing(j)
            <4>1. MarkRestartFailure(j) /\ row[j].status \in NonTerminal
                BY <3>2 DEF FailQueued, FailProcessing, NonTerminal
            <4>2. row'[j].status = "failed" /\ \A i \in Jobs \ {j} : row'[i] = row[i]
                BY <4>1, RecoveryFails
            <4> QED BY <4>1, <4>2, AllowedSteps DEF NonTerminal, Terminal
        <3>3. CASE ReportOrphan(j)
            <4>1. row' = [row EXCEPT ![j].seq = @ + 1]
                BY <3>3 DEF ReportOrphan, AppendOrphanEvent
            <4>2. row'[j] = [row[j] EXCEPT !.seq = row[j].seq + 1]
                BY <2>T, <4>1
            <4>3. row[j] \in Job /\ row[j].seq + 1 \in Nat
                BY ObjectTypes, JobFields
            <4>4. row'[j].status = row[j].status
                BY <4>2, <4>3, ChangedFields
            <4> QED BY <2>T, <4>1, <4>4
        <3> QED BY <2>8, <3>1, <3>2, <3>3 DEF Recover
    <2>9. ASSUME NEW j \in Jobs, LockStep(j) PROVE Good
        <3>1. \/ Silent(j) \/ Reserve(j) \/ SubmitAccepted(j) \/ SubmitAnswerLost(j)
              \/ SaveHandle(j) \/ GiveUpCommit(j) \/ PersistCommit(j) \/ BridgeCommit(j)
              \/ CancelCommit(j)
            BY <2>9 DEF LockStep, Submission, Inspection, Cancellation, Silent
        <3> QED BY <2>4, <2>5, <2>6, <2>7, <3>1
    <2> QED BY <2>1, <2>2, <2>3, <2>8, <2>9 DEF Next
<1>2. TypeOK /\ SubmissionInv /\ RecordInv /\ FollowInv /\ [Next]_vars =>
          [faults = 0 => \A j \in Jobs :
               \/ row'[j].status = row[j].status
               \/ row[j].status = "absent" /\ row'[j].status = "queued"
               \/ CanTransition(row[j], row'[j].status)]_vars
    BY <1>1
<1> QED BY <1>2, FollowAlways, RecordAlways, SubmissionAlways, TypeCorrect, PTL
        DEF Spec, LifecycleFollowed

\* A job whose client was told of its cancellation is not sent to the engine: before a
\* crash, memory knows; after one, the row does, if no write failed and a client was told
\* by the answer to its request.
THEOREM CancelledStays == Spec => CancelledIsNeverSent
<1>1. ASSUME TypeOK, SlotInv, RecordInv, ToldInv, FollowInv, [Next]_vars, NEW j \in Jobs,
             told[j] = "cancelled", crashes = 0 \/ (faults = 0 /\ j \notin Pollers)
      PROVE  prompts'[j] = prompts[j]
    <2> SUFFICES ASSUME prompts'[j] # prompts[j] PROVE FALSE
        OBVIOUS
    <2>1. mem[j].status = "queued" /\ row[j].status = "queued"
        BY <1>1, SendingStep
    <2>2. CASE crashes = 0
        BY <1>1, <2>1, <2>2 DEF ToldInv, EndAgrees
    <2>3. CASE faults = 0 /\ j \notin Pollers
        BY <1>1, <2>1, <2>3 DEF FollowInv, RowFollows
    <2> QED BY <1>1, <2>2, <2>3
<1>2. TypeOK /\ SlotInv /\ RecordInv /\ ToldInv /\ FollowInv /\ [Next]_vars =>
          [\A j \in Jobs :
               told[j] = "cancelled" /\ (crashes = 0 \/ (faults = 0 /\ j \notin Pollers)) =>
                   prompts'[j] = prompts[j]]_vars
    BY <1>1
<1> QED BY <1>2, FollowAlways, ToldAlways, RecordAlways, SlotAlways, TypeCorrect, PTL
        DEF Spec, CancelledIsNeverSent

===============================================================================
