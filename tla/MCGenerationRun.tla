---------------------------- MODULE MCGenerationRun ----------------------------
(***************************************************************************)
(* GenerationRun on small instances.                                       *)
(***************************************************************************)
EXTENDS GenerationRun

CONSTANTS A, B

===============================================================================
