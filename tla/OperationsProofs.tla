---------------------------- MODULE OperationsProofs ----------------------------
(***************************************************************************)
(* Theorems about Operations for every number of tunnel sessions, services *)
(* and runs of the scripts.                                                *)
(***************************************************************************)
EXTENDS Operations, FiniteSetTheorems, TLAPS

TunnelStep == (\E s \in Sessions : Check(s) \/ SessionStep(s)) \/ StopStep

-------------------------------------------------------------------------------
(* Types *)

\* Sending a session somewhere keeps the types of all sessions.
LEMMA GoToTypes ==
    ASSUME session \in [Sessions -> At], NEW s \in Sessions, NEW at \in At, GoTo(s, at)
    PROVE  session' \in [Sessions -> At]
BY DEF GoTo

\* The places of a session.
LEMMA Places ==
    /\ "idle" \in At /\ "clearing" \in At /\ "cleared" \in At /\ "launched" \in At
    /\ "watching" \in At /\ "closing" \in At /\ "over" \in At
BY DEF At

\* Every step of a session or of the stop script keeps the tunnel's types.
LEMMA TunnelTypes ==
    ASSUME TunnelTypeOK, TunnelStep
    PROVE  TunnelTypeOK'
<1> USE TunnelAssumption
<1>1. ASSUME NEW s \in Sessions, Check(s) PROVE TunnelTypeOK'
    <2>1. session' \in [Sessions -> At]
        <3>1. CASE record = NoSession
            BY <1>1, <3>1, GoToTypes, Places DEF Check, TunnelTypeOK
        <3>2. CASE record # NoSession /\ record \in tunnels
            BY <1>1, <3>2, GoToTypes, Places DEF Check, TunnelTypeOK
        <3>3. CASE record # NoSession /\ record \notin tunnels
            BY <1>1, <3>3, GoToTypes, Places DEF Check, TunnelTypeOK
        <3> QED BY <3>1, <3>2, <3>3
    <2>2. overlapped' \in BOOLEAN
        BY <1>1 DEF Check
    <2> QED BY <1>1, <2>1, <2>2 DEF Check, TunnelTypeOK
<1>2. ASSUME NEW s \in Sessions, SessionStep(s) PROVE TunnelTypeOK'
    <2>1. CASE Clear(s)
        BY <2>1, GoToTypes, Places DEF Clear, TunnelTypeOK
    <2>2. CASE Launch(s)
        BY <2>2, GoToTypes, Places DEF Launch, TunnelTypeOK
    <2>3. CASE Record(s)
        BY <2>3, GoToTypes, Places DEF Record, TunnelTypeOK
    <2>4. CASE AbortLaunch(s)
        BY <2>4, GoToTypes, Places DEF AbortLaunch, TunnelTypeOK
    <2>5. CASE Finish(s)
        BY <2>5, GoToTypes, Places DEF Finish, TunnelTypeOK
    <2>6. CASE Forget(s)
        BY <2>6, GoToTypes, Places DEF Forget, TunnelTypeOK
    <2>7. CASE CloseConsole(s)
        BY <2>7, GoToTypes, Places DEF CloseConsole, TunnelTypeOK
    <2>8. CASE TunnelExits(s)
        BY <2>8 DEF TunnelExits, TunnelTypeOK
    <2> QED BY <1>2, <2>1, <2>2, <2>3, <2>4, <2>5, <2>6, <2>7, <2>8 DEF SessionStep
<1>3. ASSUME StopStep PROVE TunnelTypeOK'
    <2>1. CASE ReadRecord
        <3>1. stop' \in [at : {"read", "killed"}, of : Sessions]
            BY <2>1 DEF ReadRecord, TunnelTypeOK
        <3>2. overlapped' \in BOOLEAN
            BY <2>1 DEF ReadRecord
        <3> QED BY <2>1, <3>1, <3>2 DEF ReadRecord, TunnelTypeOK
    <2>2. CASE NothingRecorded
        BY <2>2 DEF NothingRecorded, TunnelTypeOK
    <2>3. CASE StopProcess
        <3>1. stop \in [at : {"read", "killed"}, of : Sessions]
            BY <2>3 DEF StopProcess, TunnelTypeOK, NotStopping
        <3>2. stop' \in [at : {"read", "killed"}, of : Sessions]
            BY <2>3, <3>1 DEF StopProcess
        <3> QED BY <2>3, <3>2 DEF StopProcess, TunnelTypeOK
    <2>4. CASE StopDenied
        BY <2>4 DEF StopDenied, TunnelTypeOK
    <2>5. CASE RemoveRecord
        BY <2>5 DEF RemoveRecord, TunnelTypeOK
    <2> QED BY <1>3, <2>1, <2>2, <2>3, <2>4, <2>5 DEF StopStep
<1> QED BY <1>1, <1>2, <1>3 DEF TunnelStep

-------------------------------------------------------------------------------
(* One tunnel, and recorded *)

\* Where a session is after it was sent somewhere.
LEMMA Sent ==
    ASSUME session \in [Sessions -> At], NEW s \in Sessions, NEW at, GoTo(s, at)
    PROVE  \A t \in Sessions : session'[t] = IF t = s THEN at ELSE session[t]
BY DEF GoTo

\* Every step of a session or of the stop script keeps TunnelInv.
LEMMA TunnelInvStep ==
    ASSUME TunnelTypeOK, TunnelInv, TunnelStep
    PROVE  TunnelInv'
<1> USE TunnelAssumption
<1> SUFFICES ASSUME Undisturbed' PROVE TunnelInv'
    BY DEF TunnelInv
<1>1. ASSUME NEW s \in Sessions, Check(s) PROVE TunnelInv'
    <2>1. Undisturbed /\ stop = NotStopping /\ UNCHANGED <<tunnels, record, stop>>
        BY <1>1 DEF Check, Undisturbed
    <2>2. session[s] = "idle"
        BY <1>1 DEF Check
    <2>3. CASE record \in tunnels
        <3>1. \A t \in Sessions : session'[t] = IF t = s THEN "over" ELSE session[t]
            BY <1>1, <2>3, Sent DEF Check, TunnelTypeOK
        <3>2. \A t \in Sessions :
                 t # s => session'[t] = session[t] /\ (Under(t)' <=> Under(t))
            BY <3>1 DEF Under
        <3>3. ~Under(s)' /\ session'[s] = "over"
            BY <3>1 DEF Under
        <3>4. TunnelIsRecorded'
            BY <2>1, <2>2, <3>1 DEF TunnelInv, TunnelIsRecorded, TunnelTypeOK
        <3>5. \A r, t \in Sessions : Under(r)' /\ Under(t)' => r = t
            BY <2>1, <3>2, <3>3 DEF TunnelInv
        <3>6. \A t \in Sessions :
                 /\ session'[t] \in {"clearing", "cleared", "closing"} => tunnels' = {}
                 /\ session'[t] \in {"launched", "watching"} => tunnels' \subseteq {t}
            BY <2>1, <3>2, <3>3 DEF TunnelInv
        <3> QED BY <2>1, <3>4, <3>5, <3>6 DEF TunnelInv, NotStopping
    <2>4. CASE record \notin tunnels
        <3>1. \A t \in Sessions \ {s} : session[t] \in {"idle", "over"}
            BY <1>1, <2>4 DEF Check, Undisturbed
        <3>2. tunnels = {}
            BY <2>1, <2>2, <2>4, <3>1 DEF TunnelInv, TunnelIsRecorded, TunnelTypeOK
        <3>3. PICK at \in {"clearing", "cleared"} : GoTo(s, at)
            BY <1>1, <2>4 DEF Check
        <3>4. \A t \in Sessions : session'[t] = IF t = s THEN at ELSE session[t]
            BY <3>3, Sent DEF TunnelTypeOK
        <3> QED BY <2>1, <3>1, <3>2, <3>4
                DEF TunnelInv, TunnelIsRecorded, Under, Starting, NotStopping
    <2> QED BY <2>3, <2>4
<1>2. ASSUME NEW s \in Sessions, SessionStep(s) PROVE TunnelInv'
    <2>1. Undisturbed /\ UNCHANGED stop
        BY <1>2 DEF SessionStep, Clear, Launch, Record, AbortLaunch, Finish, Forget,
                    CloseConsole, TunnelExits, Undisturbed
    <2>2. CASE Clear(s)
        <3>1. \A t \in Sessions : session'[t] = IF t = s THEN "cleared" ELSE session[t]
            BY <2>2, Sent DEF Clear, TunnelTypeOK
        <3>2. session[s] = "clearing" /\ tunnels = {} /\ tunnels' = {}
            BY <2>1, <2>2 DEF Clear, TunnelInv
        <3> QED BY <2>1, <3>1, <3>2 DEF TunnelInv, TunnelIsRecorded, Under, Starting
    <2>3. CASE Launch(s)
        <3>1. \A t \in Sessions : session'[t] = IF t = s THEN "launched" ELSE session[t]
            BY <2>3, Sent DEF Launch, TunnelTypeOK
        <3>2. session[s] = "cleared" /\ tunnels = {} /\ tunnels' = {s}
            BY <2>1, <2>3 DEF Launch, TunnelInv
        <3>3. stop = NotStopping
            BY <2>1, <3>2 DEF TunnelInv, Starting
        <3> QED BY <2>1, <3>1, <3>2, <3>3
                DEF TunnelInv, TunnelIsRecorded, Under, Starting, NotStopping
    <2>4. CASE Record(s)
        <3>1. \A t \in Sessions : session'[t] = IF t = s THEN "watching" ELSE session[t]
            BY <2>4, Sent DEF Record, TunnelTypeOK
        <3>2. session[s] = "launched" /\ tunnels \subseteq {s} /\ tunnels' = tunnels
              /\ record' = s
            BY <2>1, <2>4 DEF Record, TunnelInv
        <3>3. stop = NotStopping
            BY <2>1, <3>2 DEF TunnelInv, Starting
        <3> QED BY <2>1, <3>1, <3>2, <3>3
                DEF TunnelInv, TunnelIsRecorded, Under, Starting, NotStopping
    <2>5. CASE AbortLaunch(s)
        BY <2>5 DEF AbortLaunch, Undisturbed
    <2>6. CASE Finish(s)
        <3>1. \A t \in Sessions : session'[t] = IF t = s THEN "closing" ELSE session[t]
            BY <2>6, Sent DEF Finish, TunnelTypeOK
        <3>2. session[s] = "watching" /\ tunnels' = tunnels \ {s} /\ record' = record
            BY <2>6 DEF Finish
        <3>3. tunnels \subseteq {s} /\ tunnels' = {}
            BY <2>1, <3>2 DEF TunnelInv
        <3>4. \A t \in Sessions : Under(t)' <=> Under(t)
            BY <3>1, <3>2 DEF Under
        <3>5. \A t \in Sessions : Starting(t)' => Starting(t)
            BY <3>1 DEF Starting
        <3> QED BY <2>1, <3>2, <3>3, <3>4, <3>5 DEF TunnelInv, TunnelIsRecorded
    <2>7. CASE Forget(s)
        <3>1. \A t \in Sessions : session'[t] = IF t = s THEN "over" ELSE session[t]
            BY <2>7, Sent DEF Forget, TunnelTypeOK
        <3>2. session[s] = "closing" /\ tunnels = {} /\ tunnels' = {}
            BY <2>1, <2>7 DEF Forget, TunnelInv
        <3> QED BY <2>1, <3>1, <3>2 DEF TunnelInv, TunnelIsRecorded, Under, Starting
    <2>8. CASE CloseConsole(s)
        <3>1. \A t \in Sessions : session'[t] = IF t = s THEN "over" ELSE session[t]
            BY <2>8, Sent DEF CloseConsole, TunnelTypeOK
        <3>2. session[s] = "watching" /\ tunnels' = tunnels /\ record' = record
            BY <2>8 DEF CloseConsole
        <3>3. \A t \in Sessions : Under(t)' => Under(t) /\ t # s
            BY <3>1 DEF Under
        <3>4. \A t \in Sessions : t # s => session'[t] = session[t]
            BY <3>1
        <3>5. \A t \in Sessions : Starting(t)' => Starting(t)
            BY <3>1 DEF Starting
        <3>6. TunnelIsRecorded'
            BY <2>1, <3>1, <3>2 DEF TunnelInv, TunnelIsRecorded
        <3>7. \A t \in Sessions :
                 /\ session'[t] \in {"clearing", "cleared", "closing"} => tunnels' = {}
                 /\ session'[t] \in {"launched", "watching"} => tunnels' \subseteq {t}
            BY <2>1, <3>1, <3>2, <3>4 DEF TunnelInv
        <3> QED BY <2>1, <3>2, <3>3, <3>5, <3>6, <3>7 DEF TunnelInv
    <2>9. CASE TunnelExits(s)
        <3>1. tunnels' = tunnels \ {s} /\ UNCHANGED <<session, record>>
            BY <2>9 DEF TunnelExits
        <3> QED BY <2>1, <3>1 DEF TunnelInv, TunnelIsRecorded, Under, Starting
    <2> QED BY <1>2, <2>2, <2>3, <2>4, <2>5, <2>6, <2>7, <2>8, <2>9 DEF SessionStep
<1>3. ASSUME StopStep PROVE TunnelInv'
    <2>1. Undisturbed /\ UNCHANGED session
        <3>1. CASE ReadRecord
            <4>1. overlapped' = (overlapped \/ \E s \in Sessions : Starting(s))
                  /\ UNCHANGED <<session, aborted>>
                BY <3>1 DEF ReadRecord
            <4>2. ~overlapped' /\ ~aborted'
                BY DEF Undisturbed
            <4>3. ~overlapped /\ ~aborted
                BY <4>1, <4>2, Zenon
            <4> QED BY <4>1, <4>3 DEF Undisturbed
        <3>2. CASE NothingRecorded
            BY <3>2 DEF NothingRecorded, Undisturbed
        <3>3. CASE StopProcess
            BY <3>3 DEF StopProcess, Undisturbed
        <3>4. CASE StopDenied
            BY <3>4 DEF StopDenied, Undisturbed
        <3>5. CASE RemoveRecord
            BY <3>5 DEF RemoveRecord, Undisturbed
        <3> QED BY <1>3, <3>1, <3>2, <3>3, <3>4, <3>5 DEF StopStep
    <2>2. CASE ReadRecord
        <3>1. /\ \A s \in Sessions : ~Starting(s)
              /\ stop' = [at |-> "read", of |-> record]
              /\ UNCHANGED <<tunnels, record>>
            BY <2>2 DEF ReadRecord, Undisturbed
        <3>2. tunnels \subseteq {record}
            BY <2>1, <3>1 DEF TunnelInv, TunnelIsRecorded, Starting, TunnelTypeOK
        <3>3. \A s \in Sessions : ~Starting(s)'
            BY <2>1, <3>1 DEF Starting
        <3> QED BY <2>1, <3>1, <3>2, <3>3 DEF TunnelInv, TunnelIsRecorded, Under
    <2>3. CASE NothingRecorded
        BY <2>1, <2>3 DEF NothingRecorded, TunnelInv, TunnelIsRecorded, Under, Starting
    <2>4. CASE StopProcess
        <3>1. stop.at = "read" /\ tunnels' = tunnels \ {stop.of} /\ record' = record
              /\ stop' = [stop EXCEPT !.at = "killed"]
            BY <2>4 DEF StopProcess
        <3>2. stop # NotStopping
            BY <3>1 DEF NotStopping
        <3>3. tunnels' = {} /\ \A s \in Sessions : ~Starting(s)
            BY <2>1, <3>1, <3>2 DEF TunnelInv
        <3>4. \A s \in Sessions : ~Starting(s)'
            BY <2>1, <3>3 DEF Starting
        <3> QED BY <2>1, <3>1, <3>3, <3>4 DEF TunnelInv, TunnelIsRecorded, Under
    <2>5. CASE StopDenied
        <3>1. stop' = NotStopping /\ UNCHANGED <<tunnels, record>>
            BY <2>5 DEF StopDenied
        <3> QED BY <2>1, <3>1 DEF TunnelInv, TunnelIsRecorded, Under, Starting, NotStopping
    <2>6. CASE RemoveRecord
        <3>1. stop' = NotStopping /\ tunnels' = tunnels /\ stop.at = "killed"
            BY <2>6 DEF RemoveRecord
        <3>2. tunnels = {}
            BY <2>1, <3>1 DEF TunnelInv
        <3> QED BY <2>1, <3>1, <3>2
                DEF TunnelInv, TunnelIsRecorded, Under, Starting, NotStopping
    <2> QED BY <1>3, <2>2, <2>3, <2>4, <2>5, <2>6 DEF StopStep
<1> QED BY <1>1, <1>2, <1>3 DEF TunnelStep

-------------------------------------------------------------------------------
(* The services *)

\* The services are 1 to Top.
LEMMA ServicesAreNumbered ==
    /\ Top \in Nat \ {0}
    /\ Services = 1..Top
<1>1. PICK n \in 1..4 : Services = 1..n
    BY StackAssumption DEF StackAssumption
<1>2. Cardinality(1..n) = n
    <2>1. 1 \in Int /\ n \in Int /\ 1 <= n
        BY <1>1
    <2>2. Cardinality(1..n) = IF 1 > n THEN 0 ELSE n - 1 + 1
        BY <2>1, FS_Interval
    <2> QED BY <2>1, <2>2
<1> QED BY <1>1, <1>2 DEF Top

\* What the service manager does to a service keeps its type.
LEMMA ServiceTypes ==
    ASSUME service \in [Services -> {"stopped", "starting", "running", "crashed"}], NEW i
    PROVE  /\ Started(i) \in [Services -> {"stopped", "starting", "running", "crashed"}]
           /\ Stopped(i) \in [Services -> {"stopped", "starting", "running", "crashed"}]
<1>1. Started(i) \in [Services -> {"stopped", "starting", "running", "crashed"}]
    BY DEF Started
<1>2. Stopped(i) \in [Services -> {"stopped", "starting", "running", "crashed"}]
    BY DEF Stopped
<1> QED BY <1>1, <1>2

\* A script that is not running has its places.
LEMMA IdleTypes ==
    /\ Idle \in [at : {"idle", "next", "wait", "rollback", "passed"},
                 i : 1..Top + 1, started : SUBSET Services]
    /\ Idle.at = "idle"
<1>1. Idle \in [at : {"idle", "next", "wait", "rollback", "passed"},
                i : 1..Top + 1, started : SUBSET Services]
    BY ServicesAreNumbered DEF Idle
<1>2. Idle.at = "idle"
    BY DEF Idle
<1> QED BY <1>1, <1>2

\* Every step of the scripts and of the service manager keeps the types.
LEMMA StackTypes ==
    ASSUME StackTypeOK, StackNext
    PROVE  StackTypeOK'
<1> USE ServicesAreNumbered DEF StackTypeOK
<1>1. CASE BeginStart
    <2>1. starter' \in [at : {"idle", "next", "wait", "rollback", "passed"},
                        i : 1..Top + 1, started : SUBSET Services]
        BY <1>1, IdleTypes DEF BeginStart
    <2>2. found' \subseteq Services /\ starts' \in Nat
        BY <1>1 DEF BeginStart
    <2> QED BY <1>1, <2>1, <2>2 DEF BeginStart
<1>2. CASE SkipRunning
    BY <1>2 DEF SkipRunning
<1>3. CASE StartService
    BY <1>3, ServiceTypes DEF StartService
<1>4. CASE WaitForStatus
    <2>1. starter.i \in Services
        BY <1>4 DEF WaitForStatus
    <2>2. starter' \in [at : {"idle", "next", "wait", "rollback", "passed"},
                        i : 1..Top + 1, started : SUBSET Services]
        <3>1. starter.i + 1 \in 1..Top + 1
            BY <2>1
        <3>2. starter.started \cup {starter.i} \in SUBSET Services
            BY <2>1
        <3>3. starter' = [starter EXCEPT !.at = "next", !.i = starter.i + 1,
                                         !.started = starter.started \cup {starter.i}]
            BY <1>4 DEF WaitForStatus
        <3> QED BY <3>1, <3>2, <3>3
    <2>3. starter'.at = "next"
        BY <1>4 DEF WaitForStatus
    <2> QED BY <1>4, <2>2, <2>3 DEF WaitForStatus
<1>5. CASE WaitTimesOut
    BY <1>5 DEF WaitTimesOut
<1>6. CASE AllRunning
    BY <1>6, IdleTypes DEF AllRunning
<1>7. CASE RollBack
    <2>1. PICK i \in starter.started :
              /\ service' = IF Stoppable(i) THEN Stopped(i) ELSE service
              /\ starter' = [starter EXCEPT !.started = @ \ {i}]
        BY <1>7 DEF RollBack
    <2>2. service' \in [Services -> {"stopped", "starting", "running", "crashed"}]
        BY <2>1, ServiceTypes
    <2>3. stuck' \in BOOLEAN
        BY <1>7 DEF RollBack
    <2> QED BY <1>7, <2>1, <2>2, <2>3 DEF RollBack
<1>8. CASE RolledBack
    BY <1>8, IdleTypes DEF RolledBack
<1>9. CASE BeginStop
    BY <1>9, IdleTypes DEF BeginStop
<1>10. CASE StopNext
    BY <1>10, ServiceTypes DEF StopNext
<1>11. CASE StopFails
    BY <1>11 DEF StopFails
<1>12. CASE StopPasses
    BY <1>12 DEF StopPasses
<1>13. ASSUME NEW i \in Services, ComeUp(i) \/ CrashService(i) \/ RestartService(i)
       PROVE  StackTypeOK'
    <2>1. CASE ComeUp(i)
        BY <2>1 DEF ComeUp
    <2>2. CASE CrashService(i)
        BY <2>2 DEF CrashService
    <2>3. CASE RestartService(i)
        <3>1. found' \subseteq Services
            <4>1. 1..i \subseteq Services
                OBVIOUS
            <4>2. found' \subseteq found \cup 1..i
                BY <2>3 DEF RestartService
            <4> QED BY <4>1, <4>2
        <3> QED BY <2>3, <3>1, ServiceTypes DEF RestartService
    <2> QED BY <1>13, <2>1, <2>2, <2>3
<1> QED BY StackNext, <1>1, <1>2, <1>3, <1>4, <1>5, <1>6, <1>7, <1>8, <1>9, <1>10, <1>11,
           <1>12, <1>13 DEF StackNext

\* Every step of the scripts and of the service manager keeps StackInv.
LEMMA StackInvStep ==
    ASSUME StackTypeOK, StackInv, StackNext
    PROVE  StackInv'
<1> USE ServicesAreNumbered
<1> DEFINE Below ==
        failures = 0 /\ starter.at \in {"next", "wait"} =>
            \A k \in Services : k < starter.i => service[k] = "running"
<1> DEFINE Whole ==
        failures = 0 /\ starter.at = "passed" =>
            \A k \in Services : service[k] = "running"
<1> DEFINE Alone == stopper.at = "next" => starter.at = "idle"
<1>1. Below /\ Whole /\ Alone
    BY DEF StackInv
<1>2. CASE BeginStart
    <2>1. starter'.at = "next" /\ starter'.i = 1 /\ stopper' = stopper /\ stopper.at = "idle"
        BY <1>2 DEF BeginStart, Idle
    <2> QED BY <2>1 DEF StackInv
<1>3. CASE SkipRunning
    <2>1. /\ starter.at = "next" /\ service[starter.i] = "running" /\ starter.i \in Services
          /\ UNCHANGED <<service, stopper, failures>>
        BY <1>3 DEF SkipRunning
    <2>2. starter'.at = "next" /\ starter'.i = starter.i + 1
        BY <1>3 DEF SkipRunning, StackTypeOK
    <2> QED BY <1>1, <2>1, <2>2 DEF StackInv
<1>4. CASE StartService
    <2>1. starter.at = "next" /\ UNCHANGED <<stopper, failures>>
        BY <1>4 DEF StartService
    <2>2. starter'.at = "wait" /\ starter'.i = starter.i
        BY <1>4 DEF StartService, StackTypeOK
    <2>3. \A k \in Services : service[k] = "running" => service'[k] = "running"
        BY <1>4 DEF StartService, Started, Up
    <2> QED BY <1>1, <2>1, <2>2, <2>3 DEF StackInv
<1>5. CASE WaitForStatus
    <2>1. /\ starter.at = "wait" /\ service[starter.i] = "running" /\ starter.i \in Services
          /\ UNCHANGED <<service, stopper, failures>>
        BY <1>5 DEF WaitForStatus, StackTypeOK
    <2>2. starter'.at = "next" /\ starter'.i = starter.i + 1
        BY <1>5 DEF WaitForStatus, StackTypeOK
    <2> QED BY <1>1, <2>1, <2>2 DEF StackInv
<1>6. CASE WaitTimesOut
    <2>1. starter.at = "wait" /\ starter'.at = "rollback" /\ stopper' = stopper
        BY <1>6 DEF WaitTimesOut, StackTypeOK
    <2> QED BY <1>1, <2>1 DEF StackInv
<1>7. CASE AllRunning
    <2>1. starter.at = "next" /\ starter.i > Top /\ UNCHANGED <<service, stopper, failures>>
        BY <1>7 DEF AllRunning
    <2>2. starter'.at = "passed"
        BY <1>7 DEF AllRunning, Idle
    <2>3. \A k \in Services : k < starter.i
        BY <2>1 DEF StackTypeOK
    <2> QED BY <1>1, <2>1, <2>2, <2>3 DEF StackInv
<1>8. CASE RollBack
    <2>1. starter.at = "rollback" /\ starter'.at = "rollback" /\ stopper' = stopper
        BY <1>8 DEF RollBack, StackTypeOK
    <2> QED BY <1>1, <2>1 DEF StackInv
<1>9. CASE RolledBack
    BY <1>9, IdleTypes DEF RolledBack, StackInv
<1>10. CASE BeginStop
    BY <1>10, IdleTypes DEF BeginStop, StackInv
<1>11. CASE StopNext
    <2>1. starter.at = "idle" /\ starter' = starter
        BY <1>1, <1>11 DEF StopNext
    <2> QED BY <2>1 DEF StackInv
<1>12. CASE StopFails
    <2>1. starter.at = "idle" /\ starter' = starter
        BY <1>1, <1>12 DEF StopFails
    <2> QED BY <2>1 DEF StackInv
<1>13. CASE StopPasses
    <2>1. starter.at = "idle" /\ starter' = starter
        BY <1>1, <1>13 DEF StopPasses
    <2> QED BY <2>1 DEF StackInv
<1>14. ASSUME NEW i \in Services, ComeUp(i) \/ CrashService(i) \/ RestartService(i)
       PROVE  StackInv'
    <2>1. UNCHANGED <<starter, stopper>>
        BY <1>14 DEF ComeUp, CrashService, RestartService
    <2>2. CASE ComeUp(i)
        <3>1. failures' = failures
            BY <2>2 DEF ComeUp
        <3>2. \A k \in Services : service[k] = "running" => service'[k] = "running"
            BY <2>2 DEF ComeUp, StackTypeOK
        <3> QED BY <1>1, <2>1, <3>1, <3>2 DEF StackInv
    <2>3. CASE CrashService(i)
        <3>1. failures' # 0
            BY <2>3 DEF CrashService, StackTypeOK
        <3> QED BY <1>1, <2>1, <3>1 DEF StackInv
    <2>4. CASE RestartService(i)
        <3>1. failures' = failures
            BY <2>4 DEF RestartService
        <3>2. \A k \in Services : service[k] = "running" => service'[k] = "running"
            BY <2>4 DEF RestartService, Started, Up
        <3> QED BY <1>1, <2>1, <3>1, <3>2 DEF StackInv
    <2> QED BY <1>14, <2>2, <2>3, <2>4
<1> QED BY StackNext, <1>2, <1>3, <1>4, <1>5, <1>6, <1>7, <1>8, <1>9, <1>10, <1>11,
           <1>12, <1>13, <1>14 DEF StackNext

\* Every step of the scripts and of the service manager keeps RollbackInv.
LEMMA RollbackInvStep ==
    ASSUME StackTypeOK, RollbackInv, StackNext
    PROVE  RollbackInv'
<1> USE ServicesAreNumbered
<1> DEFINE Ours(k) == k \in found \/ k \in starter.started
<1> DEFINE Passed(k) == starter.at \in {"next", "wait"} /\ k < starter.i => Ours(k)
<1> DEFINE Before(k) == starter.at = "next" /\ service[k] # "stopped" => Ours(k)
<1> DEFINE Awaited(k) ==
        starter.at = "wait" /\ service[k] # "stopped" => Ours(k) \/ k = starter.i
<1> DEFINE Undone(k) ==
        starter.at = "rollback" /\ Up(k) => Ours(k) \/ k = starter.i \/ stuck
<1>1. \A k \in Services : Passed(k) /\ Before(k) /\ Awaited(k) /\ Undone(k)
    BY DEF RollbackInv
<1> SUFFICES ASSUME NEW k \in Services
             PROVE  Passed(k)' /\ Before(k)' /\ Awaited(k)' /\ Undone(k)'
    BY DEF RollbackInv, Up
<1>2. CASE BeginStart
    <2>1. starter'.at = "next" /\ starter'.i = 1 /\ starter'.started = {}
        BY <1>2 DEF BeginStart, Idle
    <2>2. service' = service /\ (service[k] # "stopped" => k \in found')
        BY <1>2 DEF BeginStart
    <2> QED BY <2>1, <2>2
<1>3. CASE SkipRunning
    <2>1. /\ starter.at = "next" /\ service[starter.i] = "running"
          /\ starter.i \in Services
          /\ service' = service /\ found' = found
        BY <1>3 DEF SkipRunning
    <2>2. /\ starter'.at = "next" /\ starter'.i = starter.i + 1
          /\ starter'.started = starter.started
        BY <1>3 DEF SkipRunning, StackTypeOK
    <2>3. Ours(starter.i)
        BY <1>1, <2>1
    <2>4. k < starter'.i => k < starter.i \/ k = starter.i
        BY <2>1, <2>2
    <2> QED BY <1>1, <2>1, <2>2, <2>3, <2>4
<1>4. CASE StartService
    <2>1. starter.at = "next" /\ found' = found
        BY <1>4 DEF StartService
    <2>2. /\ starter'.at = "wait" /\ starter'.i = starter.i
          /\ starter'.started = starter.started
        BY <1>4 DEF StartService, StackTypeOK
    <2>3. starter.i \in Services
        BY <1>4 DEF StartService
    <2>4. k < starter.i \/ k = starter.i \/ service'[k] = service[k]
        BY <1>4, <2>3 DEF StartService, Started
    <2> QED BY <1>1, <2>1, <2>2, <2>4
<1>5. CASE WaitForStatus
    <2>1. /\ starter.at = "wait" /\ starter.i \in Services
          /\ service' = service /\ found' = found
        BY <1>5 DEF WaitForStatus, StackTypeOK
    <2>2. /\ starter'.at = "next" /\ starter'.i = starter.i + 1
          /\ starter'.started = starter.started \cup {starter.i}
        BY <1>5 DEF WaitForStatus, StackTypeOK
    <2>3. k < starter'.i => k < starter.i \/ k = starter.i
        BY <2>1, <2>2
    <2> QED BY <1>1, <2>1, <2>2, <2>3
<1>6. CASE WaitTimesOut
    <2>1. starter.at = "wait" /\ service' = service /\ found' = found
        BY <1>6 DEF WaitTimesOut
    <2>2. /\ starter'.at = "rollback" /\ starter'.i = starter.i
          /\ starter'.started = starter.started
        BY <1>6 DEF WaitTimesOut, StackTypeOK
    <2> QED BY <1>1, <2>1, <2>2 DEF Up
<1>7. CASE AllRunning
    <2>1. starter'.at = "passed"
        BY <1>7 DEF AllRunning, Idle
    <2> QED BY <2>1
<1>8. CASE RollBack
    <2>1. PICK i \in starter.started :
              /\ service' = IF Stoppable(i) THEN Stopped(i) ELSE service
              /\ stuck' = (stuck \/ ~Stoppable(i))
              /\ starter' = [starter EXCEPT !.started = starter.started \ {i}]
        BY <1>8 DEF RollBack
    <2>2. starter.at = "rollback" /\ found' = found
        BY <1>8 DEF RollBack
    <2>3. /\ starter'.at = "rollback" /\ starter'.i = starter.i
          /\ starter'.started = starter.started \ {i}
        BY <2>1, <2>2 DEF StackTypeOK
    <2>4. CASE Stoppable(i)
        <3>1. service' = Stopped(i)
            BY <2>1, <2>4
        <3>2. k = i => ~Up(k)'
            BY <2>4, <3>1 DEF Stoppable, Stopped, Up
        <3>3. Up(k)' => Up(k)
            BY <3>1 DEF Stopped, Up
        <3>4. stuck' = stuck
            BY <2>1, <2>4 DEF StackTypeOK
        <3> QED BY <1>1, <2>2, <2>3, <3>2, <3>3, <3>4
    <2>5. CASE ~Stoppable(i)
        BY <2>1, <2>3, <2>5
    <2> QED BY <2>4, <2>5
<1>9. CASE RolledBack
    <2>1. starter'.at = "idle"
        BY <1>9 DEF RolledBack, Idle
    <2> QED BY <2>1
<1>10. CASE BeginStop
    <2>1. starter'.at = "idle"
        BY <1>10 DEF BeginStop, Idle
    <2> QED BY <2>1
<1>11. CASE StopNext
    <2>1. starter' = starter /\ found' = found /\ stuck' = stuck
        BY <1>11 DEF StopNext
    <2>2. service'[k] = service[k] \/ service'[k] = "stopped"
        BY <1>11 DEF StopNext, Stopped
    <2> QED BY <1>1, <2>1, <2>2 DEF Up
<1>12. CASE StopFails \/ StopPasses
    <2>1. starter' = starter /\ found' = found /\ stuck' = stuck /\ service' = service
        BY <1>12 DEF StopFails, StopPasses
    <2> QED BY <1>1, <2>1 DEF Up
<1>13. ASSUME NEW i \in Services, ComeUp(i) \/ CrashService(i)
       PROVE  Passed(k)' /\ Before(k)' /\ Awaited(k)' /\ Undone(k)'
    <2>1. starter' = starter /\ found' = found /\ stuck' = stuck
        BY <1>13 DEF ComeUp, CrashService
    <2>2. service'[k] # "stopped" => service[k] # "stopped"
        BY <1>13 DEF ComeUp, CrashService, Up, StackTypeOK
    <2>3. Up(k)' => Up(k)
        BY <1>13 DEF ComeUp, CrashService, Up, StackTypeOK
    <2> QED BY <1>1, <2>1, <2>2, <2>3
<1>14. ASSUME NEW i \in Services, RestartService(i)
       PROVE  Passed(k)' /\ Before(k)' /\ Awaited(k)' /\ Undone(k)'
    <2>1. starter' = starter /\ stuck' = stuck
        BY <1>14 DEF RestartService
    <2>2. CASE starter.at \in {"idle", "passed"}
        BY <2>1, <2>2
    <2>3. CASE starter.at \notin {"idle", "passed"}
        <3>1. found' = found \cup 1..i
            BY <1>14, <2>3 DEF RestartService
        <3>2. k <= i => k \in found'
            BY <3>1
        <3>3. ~(k <= i) => service'[k] = service[k]
            BY <1>14 DEF RestartService, Started
        <3>4. Ours(k) => Ours(k)'
            BY <2>1, <3>1
        <3>5. CASE k <= i
            BY <3>2, <3>5
        <3>6. CASE ~(k <= i)
            BY <1>1, <2>1, <3>3, <3>4, <3>6 DEF Up
        <3> QED BY <3>5, <3>6
    <2> QED BY <2>2, <2>3
<1> QED BY StackNext, <1>2, <1>3, <1>4, <1>5, <1>6, <1>7, <1>8, <1>9, <1>10, <1>11,
           <1>12, <1>13, <1>14 DEF StackNext

-------------------------------------------------------------------------------
(* The theorems *)

\* A step of Operations is one of the tunnel, or leaves it alone; likewise for the stack.
LEMMA StepsOfParts ==
    ASSUME [Next]_vars
    PROVE  /\ TunnelStep \/ UNCHANGED tunnelVars
           /\ StackNext \/ UNCHANGED stackVars
BY DEF Next, vars, StartTunnel, TunnelStep

\* The scripts, the services and the state file stay in their types
\* (start_single_node.ps1, stop_single_node.ps1, start_quick_tunnel.ps1,
\* stop_quick_tunnel.ps1).
THEOREM OperationsTypeCorrect == Spec => []TypeOK
<1>1. Init => TypeOK
    <2>1. TunnelInit => TunnelTypeOK
        <3> SUFFICES ASSUME TunnelInit PROVE TunnelTypeOK
            OBVIOUS
        <3>1. session \in [Sessions -> At]
            BY Places DEF TunnelInit
        <3>2. stop = NotStopping /\ record = NoSession /\ tunnels = {} /\ stops = 0
            BY DEF TunnelInit
        <3>3. overlapped \in BOOLEAN /\ aborted \in BOOLEAN
            BY DEF TunnelInit
        <3> QED BY <3>1, <3>2, <3>3 DEF TunnelTypeOK
    <2>2. StackInit => StackTypeOK
        <3> SUFFICES ASSUME StackInit PROVE StackTypeOK
            OBVIOUS
        <3>1. service \in [Services -> {"stopped", "starting", "running", "crashed"}]
            BY DEF StackInit
        <3>2. stopper \in [at : {"idle", "next"}, i : 0..Top]
            BY ServicesAreNumbered DEF StackInit
        <3>3. starter.at = "idle"
            BY DEF StackInit, Idle
        <3> QED BY <3>1, <3>2, <3>3, IdleTypes DEF StackInit, StackTypeOK
    <2> QED BY <2>1, <2>2 DEF Init, TypeOK
<1>2. TypeOK /\ [Next]_vars => TypeOK'
    <2> SUFFICES ASSUME TypeOK, [Next]_vars PROVE TypeOK'
        OBVIOUS
    <2>1. TunnelTypeOK'
        <3>1. CASE TunnelStep
            BY <3>1, TunnelTypes DEF TypeOK
        <3>2. CASE UNCHANGED tunnelVars
            BY <3>2 DEF TypeOK, TunnelTypeOK, tunnelVars
        <3> QED BY <3>1, <3>2, StepsOfParts
    <2>2. StackTypeOK'
        <3>1. CASE StackNext
            BY <3>1, StackTypes DEF TypeOK
        <3>2. CASE UNCHANGED stackVars
            BY <3>2 DEF TypeOK, StackTypeOK, stackVars
        <3> QED BY <3>1, <3>2, StepsOfParts
    <2> QED BY <2>1, <2>2 DEF TypeOK
<1> QED BY <1>1, <1>2, PTL DEF Spec

\* TunnelInv holds throughout.
LEMMA TunnelInvariant == Spec => []TunnelInv
<1>1. Init => TunnelInv
    BY DEF Init, TunnelInit, TunnelInv, TunnelIsRecorded, Under, NotStopping
<1>2. TypeOK /\ TunnelInv /\ [Next]_vars => TunnelInv'
    <2> SUFFICES ASSUME TypeOK, TunnelInv, [Next]_vars PROVE TunnelInv'
        OBVIOUS
    <2>1. CASE TunnelStep
        BY <2>1, TunnelInvStep DEF TypeOK
    <2>2. CASE UNCHANGED tunnelVars
        BY <2>2 DEF TunnelInv, TunnelIsRecorded, Undisturbed, Under, Starting, tunnelVars
    <2> QED BY <2>1, <2>2, StepsOfParts
<1> QED BY <1>1, <1>2, OperationsTypeCorrect, PTL DEF Spec

\* A public tunnel that runs is the one the state file names, from the moment its
\* session has written it, so that stop_quick_tunnel.ps1 ends it.
THEOREM TunnelRecorded == Spec => []TunnelIsRecorded
<1>1. TunnelInv => TunnelIsRecorded
    BY DEF TunnelInv, TunnelIsRecorded
<1> QED BY <1>1, TunnelInvariant, PTL

\* start_quick_tunnel.ps1 never has a second public tunnel beside the first, as long
\* as a session begins when the scripts before it are over.
THEOREM OneTunnelAtATime == Spec => []OneTunnel
<1>1. TypeOK /\ TunnelInv => OneTunnel
    <2> SUFFICES ASSUME TypeOK, TunnelInv, Undisturbed PROVE Cardinality(tunnels) <= 1
        BY DEF OneTunnel
    <2>1. PICK x : tunnels \subseteq {x}
        <3>1. CASE \E s \in Sessions : session[s] = "launched"
            BY <3>1 DEF TunnelInv
        <3>2. CASE \A s \in Sessions : session[s] # "launched"
            BY <3>2 DEF TunnelInv, TunnelIsRecorded, TypeOK, TunnelTypeOK
        <3> QED BY <3>1, <3>2
    <2>2. IsFiniteSet({x}) /\ Cardinality({x}) = 1
        BY FS_Singleton
    <2> QED BY <2>1, <2>2, FS_Subset, FS_CardinalityType
<1> QED BY <1>1, OperationsTypeCorrect, TunnelInvariant, PTL

\* start_single_node.ps1 reports that it passed only when every service runs, and
\* they still run until one crashes or the stop script is started.
THEOREM PassedMeansUp == Spec => []PassedMeansRunning
<1>1. Init => StackInv
    BY IdleTypes DEF Init, StackInit, StackInv
<1>2. TypeOK /\ StackInv /\ [Next]_vars => StackInv'
    <2> SUFFICES ASSUME TypeOK, StackInv, [Next]_vars PROVE StackInv'
        OBVIOUS
    <2>1. CASE StackNext
        BY <2>1, StackInvStep DEF TypeOK
    <2>2. CASE UNCHANGED stackVars
        BY <2>2 DEF StackInv, stackVars
    <2> QED BY <2>1, <2>2, StepsOfParts
<1>3. StackInv => PassedMeansRunning
    BY DEF StackInv, PassedMeansRunning
<1> QED BY <1>1, <1>2, <1>3, OperationsTypeCorrect, PTL DEF Spec

\* start_single_node.ps1 ends its rollback with nothing running that it started, but
\* for the service that did not come up in time or one that could not be stopped.
THEOREM RollbackComplete == Spec => RollbackIsComplete
<1>1. Init => RollbackInv
    BY IdleTypes DEF Init, StackInit, RollbackInv
<1>2. TypeOK /\ RollbackInv /\ [Next]_vars => RollbackInv'
    <2> SUFFICES ASSUME TypeOK, RollbackInv, [Next]_vars PROVE RollbackInv'
        OBVIOUS
    <2>1. CASE StackNext
        BY <2>1, RollbackInvStep DEF TypeOK
    <2>2. CASE UNCHANGED stackVars
        BY <2>2 DEF RollbackInv, Up, stackVars
    <2> QED BY <2>1, <2>2, StepsOfParts
<1>3. RollbackInv =>
          [RolledBack => \A k \in Services : service[k] = "running" =>
                             k \in found \cup {starter.i} \/ stuck]_stackVars
    BY DEF RollbackInv, RolledBack, Up
<1> QED BY <1>1, <1>2, <1>3, OperationsTypeCorrect, PTL DEF Spec, RollbackIsComplete

===============================================================================
