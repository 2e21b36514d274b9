------------------------------ MODULE MCRetention ------------------------------
(***************************************************************************)
(* Retention on small instances.                                           *)
(***************************************************************************)
EXTENDS Retention

CONSTANTS A, B

\* A deployment in which the queue is what is full, and one in which the two limits
\* on submissions are reached.
TightSettings ==
    {[pending |-> 1, recent |-> 2, identical |-> 2],
     [pending |-> 2, recent |-> 1, identical |-> 1]}

RoomySettings == {[pending |-> 2, recent |-> 2, identical |-> 2]}

\* A failing query and a lost directory are looked at one at a time.
OneTrouble == faults + Cardinality(lost) <= 1

===============================================================================
