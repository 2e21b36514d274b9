------------------------------ MODULE ServiceStack ------------------------------
(***************************************************************************)
(* The four Windows services of the single node and the two scripts that   *)
(* start and stop them (start_single_node.ps1, stop_single_node.ps1).      *)
(* Service 1 is ComfyUI, 2 the API, 3 the web application, 4 Caddy; each    *)
(* depends on the one below it (deploy/windows/services).  The service     *)
(* manager starts what a service depends on, stops what depends on it, and *)
(* starts a crashed service again after a delay.  The operator runs one of *)
(* the two scripts at a time.                                              *)
(***************************************************************************)
EXTENDS Integers, FiniteSets

CONSTANTS
    Services,    \* 1..4
    MaxStarts,   \* bound: runs of the start script
    MaxCrashes   \* bound: services that crash or hang while starting

ASSUME StackAssumption ==
    /\ Services \in {1..n : n \in 1..4}
    /\ MaxStarts \in Nat /\ MaxCrashes \in Nat

VARIABLES
    service,  \* crashed: stopped, and about to be started again
    starter,  \* the start script: where it is, at which service, what it started
    stopper,  \* the stop script
    found,    \* while the start script runs: what ran before, or was started without it
    stuck,    \* its rollback met a service it could not stop
    starts, failures

stackVars == <<service, starter, stopper, found, stuck, starts, failures>>

Idle == [at |-> "idle", i |-> 1, started |-> {}]

Top == Cardinality(Services)

StackTypeOK ==
    /\ service \in [Services -> {"stopped", "starting", "running", "crashed"}]
    /\ starter \in [at : {"idle", "next", "wait", "rollback", "passed"},
                    i : 1..Top + 1, started : SUBSET Services]
    /\ starter.at \in {"wait", "rollback"} => starter.i \in Services
    /\ stopper \in [at : {"idle", "next"}, i : 0..Top]
    /\ found \subseteq Services
    /\ stuck \in BOOLEAN
    /\ starts \in Nat /\ failures \in Nat

StackInit ==
    /\ service \in [Services -> {"stopped", "running"}]
    /\ \A i \in Services : service[i] = "running" /\ i > 1 => service[i - 1] = "running"
    /\ starter = Idle
    /\ stopper = [at |-> "idle", i |-> Top]
    /\ found = {}
    /\ stuck = FALSE
    /\ starts = 0 /\ failures = 0

Up(i) == service[i] \in {"running", "starting"}

\* The service manager is asked to start i, and with it what it depends on.
Started(i) ==
    [k \in Services |-> IF k <= i /\ ~Up(k) THEN "starting" ELSE service[k]]

\* Stop-Service -Force: what depends on i is stopped too, unless one of them is
\* still starting, which cannot be stopped.
Stoppable(i) == \A k \in Services : k >= i => service[k] # "starting"

Stopped(i) ==
    [k \in Services |-> IF k >= i /\ service[k] = "running" THEN "stopped" ELSE service[k]]

-------------------------------------------------------------------------------
(* start_single_node.ps1 *)

BeginStart ==
    /\ starter.at \in {"idle", "passed"} /\ stopper.at = "idle"
    /\ starts < MaxStarts
    /\ starts' = starts + 1
    /\ starter' = [Idle EXCEPT !.at = "next"]
    /\ found' = {k \in Services : service[k] # "stopped"}
    /\ UNCHANGED <<service, stopper, stuck, failures>>

\* A running service is passed over and is not this run's to roll back.
SkipRunning ==
    /\ starter.at = "next"
    /\ starter.i \in Services
    /\ service[starter.i] = "running"
    /\ starter' = [starter EXCEPT !.i = @ + 1]
    /\ UNCHANGED <<service, stopper, found, stuck, starts, failures>>

\* Mutant: the script does not wait for the service it started.
StartUnwaited ==
    /\ starter.at = "next"
    /\ starter.i \in Services
    /\ service[starter.i] # "running"
    /\ service' = Started(starter.i)
    /\ starter' = [starter EXCEPT !.i = @ + 1, !.started = @ \cup {starter.i}]
    /\ UNCHANGED <<stopper, found, stuck, starts, failures>>

StartService ==
    /\ starter.at = "next"
    /\ starter.i \in Services
    /\ service[starter.i] # "running"
    /\ service' = Started(starter.i)
    /\ starter' = [starter EXCEPT !.at = "wait"]
    /\ UNCHANGED <<stopper, found, stuck, starts, failures>>

\* WaitForStatus returns; only now the service counts as started by this run.
WaitForStatus ==
    /\ starter.at = "wait"
    /\ service[starter.i] = "running"
    /\ starter' = [starter EXCEPT !.at = "next", !.i = @ + 1, !.started = @ \cup {starter.i}]
    /\ UNCHANGED <<service, stopper, found, stuck, starts, failures>>

\* The service does not come up in time, or the start fails.
WaitTimesOut ==
    /\ starter.at = "wait"
    /\ service[starter.i] # "running"
    /\ starter' = [starter EXCEPT !.at = "rollback"]
    /\ UNCHANGED <<service, stopper, found, stuck, starts, failures>>

AllRunning ==
    /\ starter.at = "next"
    /\ starter.i > Top
    /\ starter' = [Idle EXCEPT !.at = "passed"]
    /\ found' = {}
    /\ UNCHANGED <<service, stopper, stuck, starts, failures>>

\* Mutant: the services are stopped in the order they were started, the first only.
RollBackFirst ==
    /\ starter.at = "rollback"
    /\ \E i \in starter.started :
        /\ \A k \in starter.started : k >= i
        /\ service' = [service EXCEPT ![i] = IF @ = "running" THEN "stopped" ELSE @]
        /\ starter' = [starter EXCEPT !.started = {}]
        /\ UNCHANGED stuck
    /\ UNCHANGED <<stopper, found, starts, failures>>

\* In reverse order; a service that cannot be stopped gets a warning.
RollBack ==
    /\ starter.at = "rollback"
    /\ \E i \in starter.started :
        /\ \A k \in starter.started : k <= i
        /\ service' = IF Stoppable(i) THEN Stopped(i) ELSE service
        /\ stuck' = (stuck \/ ~Stoppable(i))
        /\ starter' = [starter EXCEPT !.started = @ \ {i}]
    /\ UNCHANGED <<stopper, found, starts, failures>>

RolledBack ==
    /\ starter.at = "rollback"
    /\ starter.started = {}
    /\ starter' = Idle
    /\ found' = {} /\ stuck' = FALSE
    /\ UNCHANGED <<service, stopper, starts, failures>>

-------------------------------------------------------------------------------
(* stop_single_node.ps1 *)

BeginStop ==
    /\ stopper.at = "idle"
    /\ starter.at \in {"idle", "passed"}
    /\ stopper' = [stopper EXCEPT !.at = "next"]
    /\ starter' = Idle
    /\ UNCHANGED <<service, found, stuck, starts, failures>>

\* A stopped service is passed over; the others are stopped, each waited for.
StopNext ==
    /\ stopper.at = "next"
    /\ stopper.i > 0
    /\ IF Up(stopper.i)
       THEN Stoppable(stopper.i) /\ service' = Stopped(stopper.i)
       ELSE UNCHANGED service
    /\ stopper' = [stopper EXCEPT !.i = @ - 1]
    /\ UNCHANGED <<starter, found, stuck, starts, failures>>

\* A service that is still starting fails the script.
StopFails ==
    /\ stopper.at = "next"
    /\ stopper.i > 0
    /\ Up(stopper.i)
    /\ ~Stoppable(stopper.i)
    /\ stopper' = [at |-> "idle", i |-> Top]
    /\ UNCHANGED <<service, starter, found, stuck, starts, failures>>

StopPasses ==
    /\ stopper.at = "next"
    /\ stopper.i = 0
    /\ stopper' = [at |-> "idle", i |-> Top]
    /\ UNCHANGED <<service, starter, found, stuck, starts, failures>>

-------------------------------------------------------------------------------
(* The service manager *)

\* A service comes up once what it depends on runs.
ComeUp(i) ==
    /\ service[i] = "starting"
    /\ i > 1 => service[i - 1] = "running"
    /\ service' = [service EXCEPT ![i] = "running"]
    /\ UNCHANGED <<starter, stopper, found, stuck, starts, failures>>

CrashService(i) ==
    /\ Up(i)
    /\ failures < MaxCrashes
    /\ failures' = failures + 1
    /\ service' = [service EXCEPT ![i] = "crashed"]
    /\ UNCHANGED <<starter, stopper, found, stuck, starts>>

\* onfailure: restart.  It starts what the service depends on, too.
RestartService(i) ==
    /\ service[i] = "crashed"
    /\ service' = Started(i)
    /\ found' = IF starter.at \in {"idle", "passed"} THEN {} ELSE found \cup 1..i
    /\ UNCHANGED <<starter, stopper, stuck, starts, failures>>

StackNext ==
    \/ BeginStart \/ SkipRunning \/ StartService \/ WaitForStatus \/ WaitTimesOut
    \/ AllRunning \/ RollBack \/ RolledBack
    \/ BeginStop \/ StopNext \/ StopFails \/ StopPasses
    \/ \E i \in Services : ComeUp(i) \/ CrashService(i) \/ RestartService(i)

-------------------------------------------------------------------------------

\* A start that fails leaves nothing running that it started, unless the rollback
\* met a service that was still starting.  The service that timed out is not in the
\* list the script rolls back: only the services it depends on, if they are in it,
\* take it with them; otherwise it may still come up.
RollbackIsComplete ==
    [][RolledBack =>
         \A k \in Services : service[k] = "running" =>
             k \in found \cup {starter.i} \/ stuck]_stackVars

\* The start script passes only with the whole chain up, if nothing crashed.
PassedMeansRunning ==
    failures = 0 /\ starter.at = "passed" /\ stopper.at = "idle" =>
        \A k \in Services : service[k] = "running"

\* Why PassedMeansRunning holds: what is below the script's next service runs, and
\* nothing is stopped under it.
StackInv ==
    /\ stopper.at = "next" => starter.at = "idle"
    /\ failures = 0 /\ starter.at \in {"next", "wait"} =>
           \A k \in Services : k < starter.i => service[k] = "running"
    /\ failures = 0 /\ starter.at = "passed" =>
           \A k \in Services : service[k] = "running"

\* Why RollbackIsComplete holds: what is not stopped ran before, or was started by the
\* service manager, or is still to be rolled back, or is the service waited for.
RollbackInv ==
    LET ours == found \cup starter.started IN
    /\ starter.at \in {"next", "wait"} =>
           \A k \in Services : k < starter.i => k \in ours
    /\ starter.at = "next" =>
           \A k \in Services : service[k] # "stopped" => k \in ours
    /\ starter.at = "wait" =>
           \A k \in Services : service[k] # "stopped" => k \in ours \cup {starter.i}
    /\ starter.at = "rollback" =>
           \A k \in Services : Up(k) => k \in ours \cup {starter.i} \/ stuck

===============================================================================
