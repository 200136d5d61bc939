----------------------------- MODULE MCJobSync -----------------------------
(***************************************************************************)
(* Small instances of JobSync: three jobs, one to a page.                  *)
(***************************************************************************)
EXTENDS JobSync, TLC

CONSTANTS b1, b2

\* One BPP publishes every job.
OneHome  == [j \in Job |-> b1]

\* The first BPP publishes two jobs, the second one.
TwoHomes == [j \in Job |-> IF j <= 2 THEN b1 ELSE b2]

HandlersAlike == Permutations(Handler)
=============================================================================
