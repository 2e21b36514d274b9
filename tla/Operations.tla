------------------------------- MODULE Operations -------------------------------
(***************************************************************************)
(* The operator's side of the single node: the services and the public     *)
(* tunnel in front of them.  A tunnel is started only while Caddy and the  *)
(* API answer; nothing ties it to them afterwards.                         *)
(***************************************************************************)
EXTENDS ServiceStack, QuickTunnel

vars == <<stackVars, tunnelVars>>

TypeOK == StackTypeOK /\ TunnelTypeOK

Init == StackInit /\ TunnelInit

\* Caddy answers on its own and for the API behind it.
ChainHealthy == service[2] = "running" /\ service[Top] = "running"

StartTunnel(s) ==
    /\ ChainHealthy
    /\ Check(s)

Next ==
    \/ StackNext /\ UNCHANGED tunnelVars
    \/ (\E s \in Sessions : StartTunnel(s) \/ SessionStep(s)) /\ UNCHANGED stackVars
    \/ StopStep /\ UNCHANGED stackVars

Spec == Init /\ [][Next]_vars

===============================================================================
