------------------------------- MODULE MCJobSystem -------------------------------
(***************************************************************************)
(* JobSystem on small instances.                                           *)
(***************************************************************************)
EXTENDS JobSystem

CONSTANTS A, B

===============================================================================
