---------------------------- MODULE MCVectorIndex ----------------------------
(***************************************************************************)
(* Jobs are alike, and so are tasks.                                       *)
(***************************************************************************)
EXTENDS VectorIndex, TLC

Symmetry == Permutations(Job) \cup Permutations(Task)
=============================================================================
