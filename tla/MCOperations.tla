------------------------------ MODULE MCOperations ------------------------------
(***************************************************************************)
(* Operations on small instances.                                          *)
(***************************************************************************)
EXTENDS Operations, TLC

CONSTANTS S1, S2

ServiceChain == 1..4

SessionSymmetry == Permutations(Sessions)

===============================================================================
