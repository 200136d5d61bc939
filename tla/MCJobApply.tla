----------------------------- MODULE MCJobApply -----------------------------
(***************************************************************************)
(* Three requests: two of a user for one job, and one for another job.     *)
(***************************************************************************)
EXTENDS JobApply

CONSTANTS r1, r2, r3, t1, t2

Targets == [r \in Request |-> IF r = r3 THEN t2 ELSE t1]
=============================================================================
