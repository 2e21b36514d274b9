------------------------------ MODULE QuickTunnel ------------------------------
(***************************************************************************)
(* The temporary public entry: start_quick_tunnel.ps1 runs a cloudflared   *)
(* process, records its PID in a state file and watches it until it ends   *)
(* or the operator presses Ctrl+C; stop_quick_tunnel.ps1 stops the process *)
(* the file names.  Each run of the start script is a session.  The two    *)
(* scripts share nothing but the file, and any of them can run at any      *)
(* time.                                                                   *)
(***************************************************************************)
EXTENDS Naturals, FiniteSets

CONSTANTS
    Sessions,    \* runs of the start script
    NoSession,   \* the state file does not exist
    MaxStops     \* bound: runs of the stop script

ASSUME TunnelAssumption == NoSession \notin Sessions /\ MaxStops \in Nat

VARIABLES
    session,     \* where each run of the start script is
    tunnels,     \* the sessions whose cloudflared runs
    record,      \* the session whose PID is in the state file
    stop,        \* the stop script, and the session whose PID it read
    stops,
    overlapped,  \* a session began before another one, or a stop, had finished
    aborted      \* a session ended between its launch and its record

tunnelVars == <<session, tunnels, record, stop, stops, overlapped, aborted>>

At == {"idle", "clearing", "cleared", "launched", "watching", "closing", "over"}

NotStopping == [at |-> "idle", of |-> NoSession]

TunnelTypeOK ==
    /\ session \in [Sessions -> At]
    /\ tunnels \subseteq Sessions
    /\ record \in Sessions \cup {NoSession}
    /\ stop \in [at : {"read", "killed"}, of : Sessions] \cup {NotStopping}
    /\ stops \in Nat
    /\ overlapped \in BOOLEAN /\ aborted \in BOOLEAN

TunnelInit ==
    /\ session = [s \in Sessions |-> "idle"]
    /\ tunnels = {}
    /\ record = NoSession
    /\ stop = NotStopping
    /\ stops = 0
    /\ overlapped = FALSE /\ aborted = FALSE

Starting(s) == session[s] \in {"clearing", "cleared", "launched"}

GoTo(s, at) == session' = [session EXCEPT ![s] = at]

-------------------------------------------------------------------------------
(* start_quick_tunnel.ps1 *)

\* Mutant: the check does not look at the process, only clears the record.
CheckNothing(s) ==
    /\ session[s] = "idle"
    /\ GoTo(s, "clearing")
    /\ overlapped' =
           (overlapped \/ stop # NotStopping
              \/ (record \notin tunnels
                    /\ \E t \in Sessions \ {s} : session[t] \notin {"idle", "over"}))
    /\ UNCHANGED <<tunnels, record, stop, stops, aborted>>

\* Refuses while the recorded process runs; a record of a dead one is cleared.
Check(s) ==
    /\ session[s] = "idle"
    /\ GoTo(s, CASE record = NoSession  -> "cleared"
                 [] record \in tunnels  -> "over"
                 [] OTHER               -> "clearing")
    /\ overlapped' =
           (overlapped \/ stop # NotStopping
              \/ (record \notin tunnels
                    /\ \E t \in Sessions \ {s} : session[t] \notin {"idle", "over"}))
    /\ UNCHANGED <<tunnels, record, stop, stops, aborted>>

Clear(s) ==
    /\ session[s] = "clearing"
    /\ record' = NoSession
    /\ GoTo(s, "cleared")
    /\ UNCHANGED <<tunnels, stop, stops, overlapped, aborted>>

\* Start-Process
Launch(s) ==
    /\ session[s] = "cleared"
    /\ tunnels' = tunnels \cup {s}
    /\ GoTo(s, "launched")
    /\ UNCHANGED <<record, stop, stops, overlapped, aborted>>

Record(s) ==
    /\ session[s] = "launched"
    /\ record' = s
    /\ GoTo(s, "watching")
    /\ UNCHANGED <<tunnels, stop, stops, overlapped, aborted>>

\* The record cannot be written, or Ctrl+C comes before the try block: nothing
\* stops the process.
AbortLaunch(s) ==
    /\ session[s] = "launched"
    /\ GoTo(s, "over")
    /\ aborted' = TRUE
    /\ UNCHANGED <<tunnels, record, stop, stops, overlapped>>

\* Mutant: the clean-up leaves the process to the stop script.
FinishQuietly(s) ==
    /\ session[s] = "watching"
    /\ GoTo(s, "closing")
    /\ UNCHANGED <<tunnels, record, stop, stops, overlapped, aborted>>

\* The process has ended, which the loop sees after up to 2 s, or Ctrl+C: the
\* finally block stops the process ...
Finish(s) ==
    /\ session[s] = "watching"
    /\ tunnels' = tunnels \ {s}
    /\ GoTo(s, "closing")
    /\ UNCHANGED <<record, stop, stops, overlapped, aborted>>

\* ... and removes the state file, whoever wrote it.
Forget(s) ==
    /\ session[s] = "closing"
    /\ record' = NoSession
    /\ GoTo(s, "over")
    /\ UNCHANGED <<tunnels, stop, stops, overlapped, aborted>>

\* The console is closed: no finally block, the hidden process goes on.
CloseConsole(s) ==
    /\ session[s] = "watching"
    /\ GoTo(s, "over")
    /\ UNCHANGED <<tunnels, record, stop, stops, overlapped, aborted>>

TunnelExits(s) ==
    /\ s \in tunnels
    /\ tunnels' = tunnels \ {s}
    /\ UNCHANGED <<session, record, stop, stops, overlapped, aborted>>

-------------------------------------------------------------------------------
(* stop_quick_tunnel.ps1 *)

ReadRecord ==
    /\ stop = NotStopping
    /\ stops < MaxStops
    /\ stops' = stops + 1
    /\ record # NoSession
    /\ stop' = [at |-> "read", of |-> record]
    /\ overlapped' = (overlapped \/ \E s \in Sessions : Starting(s))
    /\ UNCHANGED <<session, tunnels, record, aborted>>

\* Mutant: a missing record does not end the script.
ReadNothing ==
    /\ stop = NotStopping
    /\ stops < MaxStops
    /\ stops' = stops + 1
    /\ record = NoSession
    /\ stop' = [at |-> "read", of |-> record]
    /\ UNCHANGED <<session, tunnels, record, overlapped, aborted>>

\* "PASS: no recorded Quick Tunnel session is running."
NothingRecorded ==
    /\ stop = NotStopping
    /\ stops < MaxStops
    /\ stops' = stops + 1
    /\ record = NoSession
    /\ UNCHANGED <<session, tunnels, record, stop, overlapped, aborted>>

StopProcess ==
    /\ stop.at = "read"
    /\ tunnels' = tunnels \ {stop.of}
    /\ stop' = [stop EXCEPT !.at = "killed"]
    /\ UNCHANGED <<session, record, stops, overlapped, aborted>>

\* Access is denied: the tunnel was started from an elevated console.
StopDenied ==
    /\ stop.at = "read"
    /\ stop.of \in tunnels
    /\ stop' = NotStopping
    /\ UNCHANGED <<session, tunnels, record, stops, overlapped, aborted>>

RemoveRecord ==
    /\ stop.at = "killed"
    /\ record' = NoSession
    /\ stop' = NotStopping
    /\ UNCHANGED <<session, tunnels, stops, overlapped, aborted>>

\* A session on its own, without the start of a new one.
SessionStep(s) ==
    \/ Clear(s) \/ Launch(s) \/ Record(s) \/ AbortLaunch(s)
    \/ Finish(s) \/ Forget(s) \/ CloseConsole(s) \/ TunnelExits(s)

StopStep ==
    \/ ReadRecord \/ NothingRecorded \/ StopProcess \/ StopDenied \/ RemoveRecord

-------------------------------------------------------------------------------

Undisturbed == ~overlapped /\ ~aborted

\* One public test session at a time, over sessions that end by themselves, by
\* Ctrl+C, by the stop script or with their console, as long as a session begins
\* only when the scripts before it are over.  A session that begins in the two
\* seconds in which the last one has not noticed its end loses its record to it.
OneTunnel == Undisturbed => Cardinality(tunnels) <= 1

\* A running tunnel is the recorded one, so that the stop script finds it.
TunnelIsRecorded ==
    Undisturbed => \A s \in tunnels : record = s \/ session[s] = "launched"

-------------------------------------------------------------------------------
(* Why OneTunnel and TunnelIsRecorded hold: an inductive strengthening *)

Under(s) == session[s] \notin {"idle", "over"}

TunnelInv ==
    Undisturbed =>
        /\ TunnelIsRecorded
        \* One session is under way, and until it launches nothing runs.
        /\ \A s, t \in Sessions : Under(s) /\ Under(t) => s = t
        /\ \A s \in Sessions : session[s] \in {"clearing", "cleared", "closing"} => tunnels = {}
        \* After that nothing runs but its own tunnel.
        /\ \A s \in Sessions : session[s] \in {"launched", "watching"} => tunnels \subseteq {s}
        \* A stop knows of the tunnel that runs, and no session starts beside it.
        /\ stop # NotStopping =>
               /\ tunnels \subseteq {stop.of}
               /\ \A s \in Sessions : ~Starting(s)
        /\ stop.at = "killed" => tunnels = {}

===============================================================================
