------------------------------ MODULE MCWebClient ------------------------------
(***************************************************************************)
(* WebClient on small instances.                                           *)
(***************************************************************************)
EXTENDS WebClient

CONSTANTS A, B

\* Jobs that do not exist yet differ only in their names, so the first is called A.
\* Every other behaviour is one of these with the names exchanged, and no property
\* names a job.
FirstIsA == status[A] = "none" => posting'.job # B

===============================================================================
